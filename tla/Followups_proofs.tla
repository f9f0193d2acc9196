-------------------------- MODULE Followups_proofs --------------------------
(***************************************************************************)
(* What has to come back is kept track of, for any number of questions,    *)
(* decisions, schedules, options and people: JobDecisions, Services and    *)
(* LeaseEvents in turn.  They share no state.                              *)
(***************************************************************************)
EXTENDS JobDecisions, Services, LeaseEvents, FiniteSetTheorems, TLAPS

-----------------------------------------------------------------------------
(* JobDecisions: the questions and next steps of a job.                    *)

AskRow == [state : {"pending", "withdrawn", "answered"}, asker : People, role : BOOLEAN, asked : SUBSET People]

DecRow == [ask : Nat, outcome : Outcomes, step : {"none", "open", "replaced", "done"},
           due : BOOLEAN, reask : Nat]

JdTypeOK ==
  /\ asks \in Seq(AskRow) /\ decs \in Seq(DecRow)
  /\ open \in BOOLEAN /\ byStep \in BOOLEAN
  /\ listed \subseteq DOMAIN decs /\ stepChase \in Nat /\ holders \subseteq Makers

\* A decision is of a question that was put.
AnswersAreOfAsks == \A d \in DOMAIN decs : decs[d].ask \in 1..Len(asks)

JdInv ==
  /\ JdTypeOK /\ AnswersAreOfAsks
  /\ byStep => ~open
  /\ NothingAskedInVain

LEMMA JdStart == JdInit => JdInv
<1> SUFFICES ASSUME JdInit PROVE JdInv
  OBVIOUS
<1>1. asks \in Seq(AskRow) /\ decs \in Seq(DecRow) /\ DOMAIN asks = {} /\ DOMAIN decs = {}
  BY DEF JdInit
<1> QED
  BY <1>1 DEF JdInit, JdInv, JdTypeOK, AnswersAreOfAsks, NothingAskedInVain, ClosedByStepIsQuiet, StepChaseIsOpen,
     ComesBackOnce

\* A question is put at the end, and only while none waits and the job is open.
LEMMA AskedKeeps ==
  ASSUME JdInv, NEW row \in AskRow, open, asks' = Append(asks, row),
         UNCHANGED <<open, byStep, decs, stepChase, holders>>, listed' \subseteq listed
  PROVE  JdInv'
<1>1. asks' \in Seq(AskRow) /\ Len(asks') = Len(asks) + 1
  BY DEF JdInv, JdTypeOK
<1>2. AnswersAreOfAsks'
  BY <1>1 DEF JdInv, JdTypeOK, AnswersAreOfAsks
<1>3. JdTypeOK'
  BY <1>1 DEF JdInv, JdTypeOK
<1>4. ~byStep
  BY DEF JdInv
<1> QED
  BY <1>2, <1>3, <1>4 DEF JdInv, NothingAskedInVain, ClosedByStepIsQuiet, StepChaseIsOpen, ComesBackOnce, OpenSteps

\* An answer is the last decision; a step of its own closes the steps before it.
LEMMA RespondKeeps ==
  ASSUME JdInv, NEW p \in People, NEW a \in DOMAIN asks, NEW outcome \in Outcomes,
         NEW hasStep \in BOOLEAN, NEW chased \in BOOLEAN, RespondDecision(p, a, outcome, hasStep, chased)
  PROVE  JdInv'
<1> DEFINE new == [ask |-> a, outcome |-> outcome, step |-> IF hasStep THEN "open" ELSE "none",
                   due |-> FALSE, reask |-> 0]
           old == IF hasStep THEN Replaced ELSE decs
<1>1. /\ a \in Nat /\ a \in 1..Len(asks) /\ open /\ decs' = Append(old, new)
      /\ asks' = [asks EXCEPT ![a].state = "answered"]
      /\ stepChase' = IF hasStep /\ chased THEN Len(decs') ELSE IF hasStep THEN 0 ELSE stepChase
      /\ UNCHANGED <<open, byStep, listed, holders>>
  BY DEF RespondDecision, ChaseEnds, JdInv, JdTypeOK
<1>2. new \in DecRow /\ new.ask = a /\ new.reask = 0 /\ new.step = IF hasStep THEN "open" ELSE "none"
  BY <1>1 DEF DecRow
<1> HIDE DEF new
<1>3. /\ old \in Seq(DecRow) /\ Len(old) = Len(decs)
      /\ \A d \in 1..Len(decs) :
           /\ old[d].ask = decs[d].ask /\ old[d].reask = decs[d].reask
           /\ old[d].step = IF hasStep /\ decs[d].step = "open" THEN "replaced" ELSE decs[d].step
  <2>1. CASE hasStep
    <3>1. DOMAIN decs = 1..Len(decs) /\ Len(decs) \in Nat /\ \A d \in 1..Len(decs) : decs[d] \in DecRow
      BY DEF JdInv, JdTypeOK
    <3>2. old = Replaced
      BY <2>1
    <3>3. \A d \in 1..Len(decs) : old[d] = IF decs[d].step = "open" THEN [decs[d] EXCEPT !.step = "replaced"] ELSE decs[d]
      BY <3>1, <3>2 DEF Replaced, OpenSteps
    <3>4. \A x \in DecRow : /\ [x EXCEPT !.step = "replaced"] \in DecRow
                            /\ [x EXCEPT !.step = "replaced"].ask = x.ask
                            /\ [x EXCEPT !.step = "replaced"].reask = x.reask
                            /\ [x EXCEPT !.step = "replaced"].step = "replaced"
      BY DEF DecRow
    <3>5. \A d \in 1..Len(decs) : old[d] \in DecRow
      BY <3>1, <3>3, <3>4
    <3>6. old = [d \in 1..Len(decs) |-> old[d]]
      BY <3>1, <3>2 DEF Replaced
    <3> HIDE DEF old
    <3>7. old \in Seq(DecRow) /\ Len(old) = Len(decs)
      BY <3>1, <3>5, <3>6
    <3>8. ASSUME NEW d \in 1..Len(decs)
          PROVE  /\ old[d].ask = decs[d].ask /\ old[d].reask = decs[d].reask
                 /\ old[d].step = IF decs[d].step = "open" THEN "replaced" ELSE decs[d].step
      <4>1. CASE decs[d].step = "open"
        <5>1. old[d] = [decs[d] EXCEPT !.step = "replaced"] /\ decs[d] \in DecRow
          BY <3>1, <3>3, <4>1
        <5> QED
          BY <3>4, <4>1, <5>1
      <4>2. CASE decs[d].step # "open"
        BY <3>3, <4>2
      <4> QED
        BY <4>1, <4>2
    <3> QED
      BY <2>1, <3>7, <3>8
  <2>2. CASE ~hasStep
    BY <2>2 DEF JdInv, JdTypeOK
  <2> QED
    BY <2>1, <2>2
<1> HIDE DEF old
<1>4. /\ decs' \in Seq(DecRow) /\ Len(decs') = Len(decs) + 1 /\ Len(decs) \in Nat
      /\ \A d \in 1..Len(decs) : decs'[d] = old[d]
      /\ decs'[Len(decs) + 1] = new
  BY <1>1, <1>2, <1>3 DEF JdInv, JdTypeOK
<1>5. asks' \in Seq(AskRow) /\ Len(asks') = Len(asks)
  <2>1. asks \in Seq(AskRow) /\ asks[a] \in AskRow
    BY <1>1 DEF JdInv, JdTypeOK
  <2>2. [asks[a] EXCEPT !.state = "answered"] \in AskRow
    BY <2>1 DEF AskRow
  <2> QED
    BY <1>1, <2>1, <2>2
<1>6. JdTypeOK'
  <2>1. stepChase' \in Nat
    BY <1>1, <1>4 DEF JdInv, JdTypeOK
  <2>2. listed' \subseteq DOMAIN decs'
    BY <1>1, <1>4 DEF JdInv, JdTypeOK
  <2> QED
    BY <1>1, <1>4, <1>5, <2>1, <2>2 DEF JdInv, JdTypeOK
<1>7. AnswersAreOfAsks'
  BY <1>1, <1>2, <1>3, <1>4, <1>5 DEF JdInv, JdTypeOK, AnswersAreOfAsks
<1>8. ~byStep'
  BY <1>1 DEF JdInv
<1>9. StepChaseIsOpen'
  <2>1. CASE hasStep
    <3>1. OpenSteps' = {Len(decs) + 1}
      BY <1>2, <1>3, <1>4, <2>1 DEF OpenSteps
    <3> QED
      BY <1>1, <1>4, <2>1, <3>1 DEF StepChaseIsOpen
  <2>2. CASE ~hasStep
    <3>1. DOMAIN decs = 1..Len(decs) /\ DOMAIN decs' = 1..(Len(decs) + 1)
      BY <1>4 DEF JdInv, JdTypeOK
    <3>2. \A d \in 1..Len(decs) : decs'[d].step = decs[d].step
      BY <1>3, <1>4, <2>2
    <3>3. decs'[Len(decs) + 1].step # "open"
      BY <1>2, <1>4, <2>2
    <3>4. 1..(Len(decs) + 1) = (1..Len(decs)) \cup {Len(decs) + 1}
      BY <1>4
    <3>5. OpenSteps' = OpenSteps
      BY <3>1, <3>2, <3>3, <3>4 DEF OpenSteps
    <3> QED
      BY <1>1, <2>2, <3>5 DEF StepChaseIsOpen, JdInv, NothingAskedInVain
  <2> QED
    BY <2>1, <2>2
<1>10. ComesBackOnce'
  BY <1>2, <1>3, <1>4 DEF ComesBackOnce, JdInv, JdTypeOK, NothingAskedInVain
<1> QED
  BY <1>6, <1>7, <1>8, <1>9, <1>10 DEF JdInv, NothingAskedInVain, ClosedByStepIsQuiet

\* One decision is written in place, its question and its outcome staying as they were.
LEMMA OneDecisionWritten ==
  ASSUME JdInv, NEW d \in DOMAIN decs, NEW row \in DecRow, decs' = [decs EXCEPT ![d] = row],
         row.ask = decs[d].ask, row.outcome = decs[d].outcome
  PROVE  /\ decs' \in Seq(DecRow) /\ Len(decs') = Len(decs) /\ DOMAIN decs' = DOMAIN decs
         /\ \A e \in DOMAIN decs : decs'[e] = IF e = d THEN row ELSE decs[e]
         /\ Len(asks') \in {Len(asks), Len(asks) + 1} => AnswersAreOfAsks'
<1>1. decs \in Seq(DecRow)
  BY DEF JdInv, JdTypeOK
<1>2. /\ decs' \in Seq(DecRow) /\ Len(decs') = Len(decs) /\ DOMAIN decs' = DOMAIN decs
      /\ \A e \in DOMAIN decs : decs'[e] = IF e = d THEN row ELSE decs[e]
  BY <1>1
<1>3. ASSUME Len(asks') \in {Len(asks), Len(asks) + 1} PROVE AnswersAreOfAsks'
  <2>1. \A e \in DOMAIN decs : decs'[e].ask = decs[e].ask
    BY <1>2
  <2> QED
    BY <1>2, <1>3, <2>1 DEF AnswersAreOfAsks, JdInv, JdTypeOK
<1> QED
  BY <1>2, <1>3

\* A step that is done closes the job only when it was the last thing that kept it open.
LEMMA CompleteKeeps ==
  ASSUME JdInv, NEW d \in DOMAIN decs, NEW refused \in BOOLEAN, CompleteNextStep(d, refused)
  PROVE  JdInv'
<1>1. PICK row : row = [decs[d] EXCEPT !.step = "done"]
  OBVIOUS
<1>2. decs[d] \in DecRow /\ decs[d].step = "open"
  BY DEF JdInv, JdTypeOK, CompleteNextStep, OpenSteps
<1>3. /\ row \in DecRow /\ row.step = "done" /\ row.ask = decs[d].ask /\ row.outcome = decs[d].outcome
      /\ row.reask = decs[d].reask
  BY <1>1, <1>2 DEF DecRow
<1>4. decs' = [decs EXCEPT ![d] = row] /\ UNCHANGED <<asks, listed, holders>>
  BY <1>1 DEF CompleteNextStep
<1>5. /\ decs' \in Seq(DecRow) /\ Len(decs') = Len(decs) /\ DOMAIN decs' = DOMAIN decs
      /\ \A e \in DOMAIN decs : decs'[e] = IF e = d THEN row ELSE decs[e]
      /\ AnswersAreOfAsks'
  BY <1>3, <1>4, OneDecisionWritten
<1>6. OpenSteps' = OpenSteps \ {d}
  BY <1>3, <1>5 DEF OpenSteps
<1>7. PICK closes \in BOOLEAN : closes = (decs[d].outcome = "approve" /\ Closes(refused))
  OBVIOUS
<1>8. /\ open' = (open /\ ~closes) /\ byStep' = (byStep \/ closes)
      /\ stepChase' = IF stepChase = d THEN 0 ELSE stepChase
  BY <1>7 DEF CompleteNextStep
<1>9. JdTypeOK' /\ (byStep' => ~open')
  BY <1>4, <1>5, <1>8 DEF JdInv, JdTypeOK
<1>10. ~byStep
  BY DEF JdInv, NothingAskedInVain, ClosedByStepIsQuiet, CompleteNextStep
<1>11. ClosedByStepIsQuiet'
  <2> SUFFICES ASSUME closes PROVE Pending' = {} /\ OpenSteps' = {} /\ ~\E e \in DOMAIN decs' : Scheduled(e)'
    BY <1>8, <1>10 DEF ClosedByStepIsQuiet
  <2>1. Pending = {} /\ Cardinality(OpenSteps) <= 1 /\ ~\E e \in DOMAIN decs : Scheduled(e)
    <3>1. IsFiniteSet(OpenSteps)
      <4>1. DOMAIN decs = 1..Len(decs) /\ Len(decs) \in Nat
        BY DEF JdInv, JdTypeOK
      <4>2. OpenSteps \in SUBSET (1..Len(decs)) /\ IsFiniteSet(1..Len(decs))
        <5>1. \A e \in OpenSteps : e \in 1..Len(decs)
          BY <4>1 DEF OpenSteps
        <5>2. 1 \in Int /\ Len(decs) \in Int
          BY <4>1
        <5>3. IsFiniteSet(1..Len(decs))
          BY <5>2, FS_Interval
        <5> QED
          BY <5>1, <5>3
      <4> QED
        BY <4>1, <4>2, FS_Interval, FS_Subset
    <3>2. Cardinality(OpenSteps) \in Nat
      BY <3>1, FS_CardinalityType
    <3>3. ~Waits
      BY <1>7 DEF Closes
    <3> QED
      BY <3>2, <3>3 DEF Waits
  <2>2. OpenSteps = {d}
    <3>1. IsFiniteSet(OpenSteps) /\ d \in OpenSteps
      <4>1. DOMAIN decs = 1..Len(decs) /\ Len(decs) \in Nat
        BY DEF JdInv, JdTypeOK
      <4>2. OpenSteps \in SUBSET (1..Len(decs)) /\ IsFiniteSet(1..Len(decs))
        <5>1. \A e \in OpenSteps : e \in 1..Len(decs)
          BY <4>1 DEF OpenSteps
        <5>2. 1 \in Int /\ Len(decs) \in Int
          BY <4>1
        <5>3. IsFiniteSet(1..Len(decs))
          BY <5>2, FS_Interval
        <5> QED
          BY <5>1, <5>3
      <4>3. d \in OpenSteps
        BY <1>2 DEF OpenSteps
      <4> QED
        BY <4>2, <4>3, FS_Subset
    <3>2. IsFiniteSet(OpenSteps \ {d}) /\ Cardinality(OpenSteps \ {d}) = Cardinality(OpenSteps) - 1
      BY <3>1, FS_RemoveElement
    <3>3. Cardinality(OpenSteps) \in Nat /\ Cardinality(OpenSteps \ {d}) \in Nat
      BY <3>1, <3>2, FS_CardinalityType
    <3>4. Cardinality(OpenSteps \ {d}) = 0
      BY <2>1, <3>2, <3>3
    <3>5. OpenSteps \ {d} = {}
      BY <3>2, <3>4, FS_EmptySet
    <3> QED
      BY <3>1, <3>5
  <2>3. \A e \in DOMAIN decs : decs'[e].outcome = decs[e].outcome /\ decs'[e].reask = decs[e].reask /\ decs'[e].ask = decs[e].ask
    BY <1>3, <1>5
  <2>4. ~\E e \in DOMAIN decs' : Scheduled(e)'
    BY <1>4, <1>5, <2>1, <2>3 DEF Scheduled, Deferred, LaterAsk
  <2> QED
    BY <1>4, <1>6, <2>1, <2>2, <2>4 DEF Pending
<1>12. StepChaseIsOpen'
  BY <1>6, <1>8 DEF StepChaseIsOpen, JdInv, NothingAskedInVain
<1>13. ComesBackOnce'
  BY <1>3, <1>5 DEF ComesBackOnce, JdInv, NothingAskedInVain
<1> QED
  BY <1>5, <1>9, <1>11, <1>12, <1>13 DEF JdInv, NothingAskedInVain

\* The day of a deferral comes: only that is noted.
LEMMA DayComesKeeps == ASSUME JdInv, NEW d \in DOMAIN decs, DayComes(d) PROVE JdInv'
<1>1. PICK row : row = [decs[d] EXCEPT !.due = TRUE]
  OBVIOUS
<1>2. decs[d] \in DecRow
  BY DEF JdInv, JdTypeOK
<1>3. /\ row \in DecRow /\ row.step = decs[d].step /\ row.ask = decs[d].ask
      /\ row.outcome = decs[d].outcome /\ row.reask = decs[d].reask
  BY <1>1, <1>2 DEF DecRow
<1>4. decs' = [decs EXCEPT ![d] = row] /\ UNCHANGED <<open, byStep, asks, stepChase, listed, holders>>
  BY <1>1 DEF DayComes
<1>5. /\ decs' \in Seq(DecRow) /\ Len(decs') = Len(decs) /\ DOMAIN decs' = DOMAIN decs
      /\ \A e \in DOMAIN decs : decs'[e] = IF e = d THEN row ELSE decs[e]
      /\ AnswersAreOfAsks'
  BY <1>3, <1>4, OneDecisionWritten
<1>6. \A e \in DOMAIN decs : /\ decs'[e].outcome = decs[e].outcome /\ decs'[e].reask = decs[e].reask
                             /\ decs'[e].ask = decs[e].ask /\ decs'[e].step = decs[e].step
  BY <1>3, <1>5
<1>7. OpenSteps' = OpenSteps /\ Pending' = Pending
  BY <1>4, <1>5, <1>6 DEF OpenSteps, Pending
<1>8. \A e \in DOMAIN decs : Scheduled(e)' <=> Scheduled(e)
  BY <1>4, <1>6 DEF Scheduled, Deferred, LaterAsk
<1>9. JdTypeOK'
  BY <1>4, <1>5 DEF JdInv, JdTypeOK
<1> QED
  BY <1>4, <1>5, <1>6, <1>7, <1>8, <1>9
     DEF JdInv, NothingAskedInVain, ClosedByStepIsQuiet, StepChaseIsOpen, ComesBackOnce

\* A deferred question comes back as the very next one, on a job that is open.
LEMMA ReaskKeeps == ASSUME JdInv, NEW d \in listed, ReaskDeferral(d) PROVE JdInv'
<1>1. listed' = listed \ {d} /\ UNCHANGED <<open, byStep, stepChase, holders>> /\ d \in DOMAIN decs
  BY DEF ReaskDeferral, JdInv, JdTypeOK
<1>2. CASE UNCHANGED <<asks, decs>>
  BY <1>1, <1>2 DEF JdInv, JdTypeOK, AnswersAreOfAsks, NothingAskedInVain, ClosedByStepIsQuiet, StepChaseIsOpen,
     ComesBackOnce, Pending, OpenSteps, Scheduled, Deferred, LaterAsk
<1>3. CASE ~UNCHANGED <<asks, decs>>
  <2>1. PICK a : a = decs[d].ask
    OBVIOUS
  <2>2. /\ open /\ ~LaterAsk(d)
        /\ asks' = Append(asks, NewAsk(asks[a].asker, asks[a].role, Askable(a)))
        /\ decs' = [decs EXCEPT ![d].reask = Len(asks) + 1]
    BY <1>3, <2>1 DEF ReaskDeferral, StillReask
  <2>3. a \in 1..Len(asks) /\ Len(asks) \in Nat /\ asks \in Seq(AskRow) /\ asks[a] \in AskRow /\ decs[d] \in DecRow
    BY <1>1, <2>1 DEF JdInv, JdTypeOK, AnswersAreOfAsks
  <2>4. Len(asks) = a
    BY <2>1, <2>2, <2>3 DEF LaterAsk
  <2>5. PICK ask : ask = NewAsk(asks[a].asker, asks[a].role, Askable(a))
    OBVIOUS
  <2>6. ask \in AskRow
    <3>1. Askable(a) \subseteq People
      BY <2>3, DecisionConstants DEF Askable, AskRow, JdInv, JdTypeOK
    <3> QED
      BY <2>3, <2>5, <3>1 DEF NewAsk, AskRow
  <2>7. PICK row : row = [decs[d] EXCEPT !.reask = a + 1]
    OBVIOUS
  <2>8. /\ row \in DecRow /\ row.step = decs[d].step /\ row.ask = a
        /\ row.outcome = decs[d].outcome /\ row.reask = a + 1
    BY <2>1, <2>3, <2>7 DEF DecRow
  <2>9. asks' \in Seq(AskRow) /\ Len(asks') = Len(asks) + 1
    BY <2>2, <2>3, <2>5, <2>6
  <2>17. Len(asks') \in {Len(asks), Len(asks) + 1}
    BY <2>9
  <2>10. decs' = [decs EXCEPT ![d] = row]
    BY <2>2, <2>4, <2>7
  <2>11. /\ decs' \in Seq(DecRow) /\ Len(decs') = Len(decs) /\ DOMAIN decs' = DOMAIN decs
         /\ \A e \in DOMAIN decs : decs'[e] = IF e = d THEN row ELSE decs[e]
         /\ AnswersAreOfAsks'
    BY <1>1, <2>1, <2>8, <2>10, <2>17, OneDecisionWritten
  <2>12. OpenSteps' = OpenSteps
    BY <2>8, <2>11 DEF OpenSteps
  <2>13. ~byStep
    BY <2>2 DEF JdInv
  <2>14. JdTypeOK'
    BY <1>1, <2>9, <2>11 DEF JdInv, JdTypeOK
  <2>15. StepChaseIsOpen'
    BY <1>1, <2>12 DEF StepChaseIsOpen, JdInv, NothingAskedInVain
  <2>16. ComesBackOnce'
    BY <2>8, <2>11 DEF ComesBackOnce, JdInv, NothingAskedInVain
  <2> QED
    BY <1>1, <2>11, <2>13, <2>14, <2>15, <2>16 DEF JdInv, NothingAskedInVain, ClosedByStepIsQuiet
<1> QED
  BY <1>2, <1>3

LEMMA WithdrawKeeps == ASSUME JdInv, NEW a \in DOMAIN asks, WithdrawDecision(a) PROVE JdInv'
<1>1. a \in Pending /\ asks' = [asks EXCEPT ![a].state = "withdrawn"] /\ UNCHANGED <<open, byStep, decs, stepChase, listed, holders>>
  BY DEF WithdrawDecision
<1>2. asks \in Seq(AskRow) /\ asks[a] \in AskRow
  BY DEF JdInv, JdTypeOK
<1>3. [asks[a] EXCEPT !.state = "withdrawn"] \in AskRow
  BY <1>2 DEF AskRow
<1>4. asks' \in Seq(AskRow) /\ Len(asks') = Len(asks)
  BY <1>1, <1>2, <1>3
<1>5. ~byStep
  BY <1>1 DEF JdInv, NothingAskedInVain, ClosedByStepIsQuiet
<1> QED
  BY <1>1, <1>4, <1>5 DEF JdInv, JdTypeOK, AnswersAreOfAsks, NothingAskedInVain, ClosedByStepIsQuiet,
     StepChaseIsOpen, ComesBackOnce, OpenSteps

LEMMA JdStep == JdInv /\ [JdNext]_jdVars => JdInv'
<1> SUFFICES ASSUME JdInv, [JdNext]_jdVars PROVE JdInv'
  OBVIOUS
<1>1. ASSUME UNCHANGED <<asks, decs, stepChase, byStep>>, open' => ~byStep, open' \in BOOLEAN, listed' \subseteq DOMAIN decs, holders' \subseteq Makers
      PROVE  JdInv'
  BY <1>1 DEF JdInv, JdTypeOK, AnswersAreOfAsks, NothingAskedInVain, ClosedByStepIsQuiet, StepChaseIsOpen,
     ComesBackOnce, Pending, OpenSteps, Scheduled, Deferred, LaterAsk
<1>2. CASE UNCHANGED jdVars
  BY <1>1, <1>2 DEF jdVars, JdInv, JdTypeOK
<1>3. ASSUME NEW p \in People, NEW role \in BOOLEAN, NEW named \in SUBSET Makers, RequestDecision(p, role, named)
      PROVE  JdInv'
  <2>1. PICK row : row = NewAsk(p, role, named)
    OBVIOUS
  <2>2. row \in AskRow
    BY <2>1, DecisionConstants DEF NewAsk, AskRow
  <2> QED
    BY <1>3, <2>1, <2>2, AskedKeeps DEF RequestDecision
<1>4. CASE CloseJob
  BY <1>1, <1>4 DEF CloseJob, JdInv, JdTypeOK
<1>5. CASE ReopenJob
  <2>1. byStep' = FALSE /\ open' = TRUE /\ UNCHANGED <<asks, decs, stepChase, listed, holders>>
    BY <1>5 DEF ReopenJob
  <2> QED
    BY <2>1 DEF JdInv, JdTypeOK, AnswersAreOfAsks, NothingAskedInVain, ClosedByStepIsQuiet, StepChaseIsOpen,
       ComesBackOnce, OpenSteps
<1>6. CASE ListDeferrals
  BY <1>1, <1>6 DEF ListDeferrals, DueDeferrals, JdInv, JdTypeOK
<1>7. CASE \E p \in Makers : RoleChanges(p)
  BY <1>1, <1>7 DEF RoleChanges, JdInv, JdTypeOK
<1> QED
  BY <1>2, <1>3, <1>4, <1>5, <1>6, <1>7, WithdrawKeeps, RespondKeeps, DayComesKeeps, CompleteKeeps, ReaskKeeps
     DEF JdNext, Sweep

(* No question or chase outlives what it is about and none is put twice, for any people, *)
(* answers, deferrals and sweeps on any number of questions (respondDecision,            *)
(* completeNextStep, reaskDeferred).                                                     *)
THEOREM NothingIsAskedInVain == JdSpec => []NothingAskedInVain
<1>1. JdInv => NothingAskedInVain
  BY DEF JdInv
<1> QED
  BY <1>1, JdStart, JdStep, PTL DEF JdSpec
-----------------------------------------------------------------------------
(* Services: a schedule is never moved off a date that has no run row.     *)

\* The dates a job is created for, or a person records, leave room for the next one.
DueDates == 1..(MaxDay + LeadDays)
RunSays == {Blank, "job", "done", "binned", "skipped_defects", "recorded", "skipped"}
Schedule == [state : {Blank, "live", "paused", "archived"}, step : 1..2, next : Dates]
BatchRow == [sched : Schedules, due : DueDates, step : 1..2, covered : {"unread", "yes", "no"}]
Completion == [sched : Schedules, due : DueDates, step : 1..2, waits : BOOLEAN]

ServicesTypeOK ==
  /\ serviceDay \in Days
  /\ sched \in [Schedules -> Schedule]
  /\ runs \in [Schedules -> [Dates -> RunSays]]
  /\ batch \subseteq BatchRow
  /\ completing \in Completion \cup {NoCompletion}
  /\ left \subseteq Schedules \X Dates

\* A job, open or archived, is of a date the scheduler could reach.
JobsAreWithinReach == \A s \in Schedules, d \in Dates : runs[s][d] \in {"job", "binned"} => d \in DueDates

ServicesInv == ServicesTypeOK /\ JobsAreWithinReach /\ PassedDatesAreRecorded

\* A set that has a least number has its Min.
LEMMA LeastIsMin ==
  ASSUME NEW S, NEW m \in S, S \subseteq Int, \A x \in S : m <= x PROVE Min(S) \in S
BY DEF Min

\* From any day with another after it a series goes on within the dates.
LEMMA SeriesGoesOn ==
  ASSUME NEW step \in 1..2, NEW date \in 1..(LastDate - 1) PROVE FirstDueOnOrAfter(step, date) \in Dates
<1> DEFINE S == {d \in SeriesDates(step) : d >= date}
<1>1. MaxDay \in Nat /\ LeadDays \in Nat /\ LastDate \in Nat
  BY ServicesAssumption DEF LastDate
<1>2. date \in Dates /\ date + 1 \in Dates /\ Dates \subseteq Int
  BY <1>1 DEF Dates
<1>3. (date - 1) % step = 0 \/ ((date + 1) - 1) % step = 0
  <2>1. CASE step = 1
    BY <1>2, <2>1 DEF Dates
  <2>2. CASE step = 2
    BY <1>2, <2>2 DEF Dates
  <2> QED
    BY <2>1, <2>2
<1>4. S \subseteq Dates
  BY DEF SeriesDates
<1>5. \E m \in S : \A x \in S : m <= x
  <2>1. CASE (date - 1) % step = 0
    <3>1. date \in S
      BY <1>2, <2>1 DEF SeriesDates
    <3>2. \A x \in S : date <= x
      BY <1>2, <1>4
    <3> QED
      BY <3>1, <3>2
  <2>2. CASE (date - 1) % step # 0
    <3>1. date + 1 \in S
      BY <1>2, <1>3, <2>2 DEF SeriesDates
    <3>2. ASSUME NEW x \in S PROVE date + 1 <= x
      <4>1. x \in Int /\ x >= date /\ (x - 1) % step = 0
        BY <1>2, <1>4 DEF SeriesDates
      <4>2. x # date
        BY <2>2, <4>1
      <4> QED
        BY <1>2, <4>1, <4>2
    <3> QED
      BY <3>1, <3>2
  <2> QED
    BY <2>1, <2>2
<1>6. Min(S) \in S
  <2> HIDE DEF S
  <2> QED
    BY <1>2, <1>4, <1>5, LeastIsMin
<1> QED
  BY <1>4, <1>6 DEF FirstDueOnOrAfter

LEMMA SeriesGoesOnAfter ==
  ASSUME NEW step \in 1..2, NEW due \in DueDates PROVE NextDueAfter(step, due) \in Dates
<1>1. MaxDay \in Nat /\ LeadDays \in Nat
  BY ServicesAssumption
<1>2. due + 1 \in 1..(LastDate - 1) /\ due \in Int
  BY <1>1 DEF LastDate, DueDates
<1>3. {d \in SeriesDates(step) : d > due} = {d \in SeriesDates(step) : d >= due + 1}
  BY <1>1, <1>2 DEF SeriesDates, Dates, LastDate
<1>4. NextDueAfter(step, due) = FirstDueOnOrAfter(step, due + 1)
  BY <1>3 DEF NextDueAfter, FirstDueOnOrAfter
<1> QED
  BY <1>2, <1>4, SeriesGoesOn

LEMMA DayRanges ==
  /\ Days \subseteq 1..(LastDate - 1) /\ Days \subseteq DueDates /\ DueDates \subseteq Dates /\ Days \subseteq Dates
  /\ Dates \subseteq Nat /\ 1 \in Dates
<1>1. MaxDay \in Nat /\ MaxDay > 0 /\ LeadDays \in Nat
  BY ServicesAssumption
<1> QED
  BY <1>1 DEF Days, LastDate, DueDates, Dates

LEMMA ServicesStart == ServicesInit => ServicesInv
<1> SUFFICES ASSUME ServicesInit PROVE ServicesInv
  OBVIOUS
<1>1. NoSchedule \in Schedule /\ serviceDay \in Days
  BY DayRanges, ServicesAssumption DEF NoSchedule, Schedule, Days, ServicesInit
<1>2. Blank \in RunSays /\ Blank \notin {"job", "binned"}
  BY DEF Blank, RunSays
<1> QED
  BY <1>1, <1>2 DEF ServicesInit, ServicesInv, ServicesTypeOK, JobsAreWithinReach, PassedDatesAreRecorded

\* A run row is written over one date, and never with nothing.
LEMMA RunWritten ==
  ASSUME ServicesInv, NEW s \in Schedules, NEW due \in Dates, NEW what \in RunSays, what # Blank,
         what \in {"job", "binned"} => due \in DueDates, runs' = RunWith(s, due, what)
  PROVE  /\ runs' \in [Schedules -> [Dates -> RunSays]] /\ JobsAreWithinReach'
         /\ runs'[s][due] # Blank
         /\ \A t \in Schedules, d \in Dates : runs[t][d] # Blank => runs'[t][d] # Blank
<1>1. runs \in [Schedules -> [Dates -> RunSays]]
  BY DEF ServicesInv, ServicesTypeOK
<1>2. runs' \in [Schedules -> [Dates -> RunSays]]
  BY <1>1 DEF RunWith
<1>3. \A t \in Schedules, d \in Dates : runs'[t][d] = IF t = s /\ d = due THEN what ELSE runs[t][d]
  BY <1>1 DEF RunWith
<1>4. JobsAreWithinReach'
  BY <1>3 DEF JobsAreWithinReach, ServicesInv
<1> QED
  BY <1>2, <1>3, <1>4

\* What is left of the steps: the runs keep what they say and a date moved off has its run.
LEMMA MovesKeep ==
  ASSUME ServicesInv,
         serviceDay' \in Days, sched' \in [Schedules -> Schedule], batch' \subseteq BatchRow,
         completing' \in Completion \cup {NoCompletion},
         runs' \in [Schedules -> [Dates -> RunSays]], JobsAreWithinReach',
         \A t \in Schedules, d \in Dates : runs[t][d] # Blank => runs'[t][d] # Blank,
         \/ left' = left
         \/ \E t \in Schedules, d \in Dates : left' = left \cup {<<t, d>>} /\ runs'[t][d] # Blank
  PROVE  ServicesInv'
<1>1. left \subseteq Schedules \X Dates /\ \A x \in left : runs[x[1]][x[2]] # Blank
  BY DEF ServicesInv, ServicesTypeOK, PassedDatesAreRecorded
<1>2. \A x \in left : runs'[x[1]][x[2]] # Blank
  BY <1>1
<1>3. left' \subseteq Schedules \X Dates /\ PassedDatesAreRecorded'
  BY <1>1, <1>2 DEF PassedDatesAreRecorded
<1> QED
  BY <1>3 DEF ServicesInv, ServicesTypeOK

\* A schedule written whole, or in one field, is a schedule.
LEMMA ScheduleRows ==
  /\ \A row \in Schedule : \A next \in Dates : [row EXCEPT !.next = next] \in Schedule
  /\ \A row \in Schedule : \A state \in {"live", "archived"} : [row EXCEPT !.state = state] \in Schedule
  /\ \A state \in {"live", "paused"}, step \in 1..2, next \in Dates :
       [state |-> state, step |-> step, next |-> next] \in Schedule
BY DEF Schedule

LEMMA ServiceTypes ==
  ASSUME ServicesInv
  PROVE  /\ serviceDay \in Days /\ sched \in [Schedules -> Schedule] /\ runs \in [Schedules -> [Dates -> RunSays]]
         /\ batch \subseteq BatchRow /\ completing \in Completion \cup {NoCompletion}
         /\ \A s \in Schedules : sched[s].step \in 1..2 /\ sched[s].next \in Dates
         /\ Steps \subseteq 1..2
BY ServicesAssumption DEF ServicesInv, ServicesTypeOK, Schedule

\* advanceNextDue: the date it moves off is the one it was asked to.
LEMMA AdvanceKeeps ==
  ASSUME ServicesInv, NEW s \in Schedules, NEW due \in DueDates, NEW step \in 1..2, NEW what \in RunSays, what # Blank,
         runs' = RunWith(s, due, what), AdvanceNextDue(s, due, NextDueAfter(step, due)),
         serviceDay' = serviceDay, batch' \subseteq BatchRow, completing' \in Completion \cup {NoCompletion}
  PROVE  ServicesInv'
<1>1. due \in Dates /\ NextDueAfter(step, due) \in Dates
  BY DayRanges, SeriesGoesOnAfter
<1>2. /\ runs' \in [Schedules -> [Dates -> RunSays]] /\ JobsAreWithinReach' /\ runs'[s][due] # Blank
      /\ \A t \in Schedules, d \in Dates : runs[t][d] # Blank => runs'[t][d] # Blank
  BY <1>1, RunWritten
<1>3. CASE sched[s].next = due
  <2>1. sched' = [sched EXCEPT ![s].next = NextDueAfter(step, due)] /\ left' = left \cup {<<s, due>>}
    BY <1>3 DEF AdvanceNextDue, StillDue
  <2>2. sched' \in [Schedules -> Schedule]
    BY <1>1, <2>1, ServiceTypes, ScheduleRows
  <2> QED
    BY <1>1, <1>2, <2>1, <2>2, ServiceTypes, MovesKeep
<1>4. CASE sched[s].next # due
  <2>1. sched' = sched /\ left' = left
    BY <1>4 DEF AdvanceNextDue, StillDue
  <2> QED
    BY <1>2, <2>1, ServiceTypes, MovesKeep
<1> QED
  BY <1>3, <1>4

\* A step that writes one run row and moves no schedule, and one that writes none.
LEMMA RunWrittenKeeps ==
  ASSUME ServicesInv, NEW s \in Schedules, NEW due \in Dates, NEW what \in RunSays, what # Blank,
         what \in {"job", "binned"} => due \in DueDates, runs' = RunWith(s, due, what),
         left' = left, serviceDay' = serviceDay, sched' \in [Schedules -> Schedule],
         batch' \subseteq BatchRow, completing' \in Completion \cup {NoCompletion}
  PROVE  ServicesInv'
BY RunWritten, ServiceTypes, MovesKeep

LEMMA NoRunWrittenKeeps ==
  ASSUME ServicesInv, runs' = runs, left' = left, serviceDay' \in Days, sched' \in [Schedules -> Schedule],
         batch' \subseteq BatchRow, completing' \in Completion \cup {NoCompletion}
  PROVE  ServicesInv'
<1>1. JobsAreWithinReach'
  BY DEF JobsAreWithinReach, ServicesInv
<1> QED
  BY <1>1, ServiceTypes, MovesKeep
LEMMA CreateKeeps == ASSUME ServicesInv, NEW s \in Schedules, NEW step \in Steps, CreateSchedule(s, step) PROVE ServicesInv'
<1>1. step \in 1..2 /\ FirstDueOnOrAfter(step, serviceDay) \in Dates
  BY ServiceTypes, DayRanges, SeriesGoesOn
<1>2. sched' = [sched EXCEPT ![s] = [state |-> "live", step |-> step, next |-> FirstDueOnOrAfter(step, serviceDay)]]
      /\ UNCHANGED <<serviceDay, runs, batch, completing, left>>
  BY DEF CreateSchedule
<1>3. sched' \in [Schedules -> Schedule]
  BY <1>1, <1>2, ScheduleRows, ServiceTypes
<1> QED
  BY <1>2, <1>3, ServiceTypes, NoRunWrittenKeeps

LEMMA ImportKeeps ==
  ASSUME ServicesInv, NEW s \in Schedules, NEW step \in Steps, NEW last \in Days, ImportSchedule(s, step, last)
  PROVE  ServicesInv'
<1>1. step \in 1..2 /\ FirstDueOnOrAfter(step, serviceDay) \in Dates
  BY ServiceTypes, DayRanges, SeriesGoesOn
<1>2. sched' = [sched EXCEPT ![s] = [state |-> "live", step |-> step, next |-> FirstDueOnOrAfter(step, serviceDay)]]
      /\ runs' = RunWith(s, last, "recorded") /\ UNCHANGED <<serviceDay, batch, completing, left>>
  BY DEF ImportSchedule
<1>3. sched' \in [Schedules -> Schedule]
  BY <1>1, <1>2, ScheduleRows, ServiceTypes
<1>4. last \in Dates /\ "recorded" \in RunSays /\ "recorded" # Blank
  BY DayRanges DEF RunSays, Blank
<1> QED
  BY <1>2, <1>3, <1>4, ServiceTypes, RunWrittenKeeps

\* A manager's edit: the date given is of the series and within reach, or the series starts anew.
LEMMA UpsertKeeps ==
  ASSUME ServicesInv, NEW m \in Managers, NEW step \in Steps, NEW d \in Dates, NEW st \in {"live", "paused"},
         UpsertSchedule(m, step, d, st)
  PROVE  ServicesInv'
<1>1. PICK s \in Schedules : s = screens[m].sched
  BY DEF UpsertSchedule
<1>2. /\ sched' = [sched EXCEPT ![s] = [state |-> st, step |-> step, next |-> PlanNextDue(sched[s], step, d)]]
      /\ UNCHANGED <<serviceDay, runs, batch, completing, left>>
  BY <1>1 DEF UpsertSchedule
<1>3. step \in 1..2 /\ sched[s].next \in Dates /\ serviceDay \in Days
  BY ServiceTypes
<1>4. Min({sched[s].next, serviceDay}) \in 1..(LastDate - 1)
  <2>1. sched[s].next \in Nat /\ sched[s].next >= 1 /\ serviceDay \in 1..(LastDate - 1) /\ LastDate \in Int
    BY <1>3, DayRanges, ServicesAssumption DEF Dates, LastDate
  <2>2. Min({sched[s].next, serviceDay}) \in {sched[s].next, serviceDay}
    <3>1. \E y \in {sched[s].next, serviceDay} : \A x \in {sched[s].next, serviceDay} : y <= x
      BY <2>1
    <3>2. {sched[s].next, serviceDay} \subseteq Int
      BY <2>1
    <3> QED
      BY <3>1, <3>2, LeastIsMin
  <2>3. Min({sched[s].next, serviceDay}) <= serviceDay
    BY <2>1 DEF Min
  <2> QED
    BY <2>1, <2>2, <2>3
<1>5. PlanNextDue(sched[s], step, d) \in Dates
  <2>1. FirstDueOnOrAfter(step, Min({sched[s].next, serviceDay})) \in Dates
    BY <1>3, <1>4, SeriesGoesOn
  <2> QED
    BY <1>3, <2>1 DEF PlanNextDue
<1>6. sched' \in [Schedules -> Schedule]
  BY <1>2, <1>3, <1>5, ScheduleRows, ServiceTypes
<1> QED
  BY <1>2, <1>6, ServiceTypes, NoRunWrittenKeeps

LEMMA ArchivingKeeps ==
  ASSUME ServicesInv, NEW s \in Schedules, ArchiveSchedule(s) \/ RestoreSchedule(s) PROVE ServicesInv'
<1>1. PICK state \in {"live", "archived"} : sched' = [sched EXCEPT ![s].state = state]
  BY DEF ArchiveSchedule, RestoreSchedule
<1>2. UNCHANGED <<serviceDay, runs, batch, completing, left>>
  BY DEF ArchiveSchedule, RestoreSchedule
<1>3. sched' \in [Schedules -> Schedule]
  BY <1>1, ScheduleRows, ServiceTypes
<1> QED
  BY <1>2, <1>3, ServiceTypes, NoRunWrittenKeeps

\* A recorded outcome closes the date the schedule waits on, and moves it off that date.
LEMMA RecordKeeps ==
  ASSUME ServicesInv, NEW m \in Managers, NEW outcome \in {"recorded", "skipped"}, RecordServiceOutcome(m, outcome)
  PROVE  ServicesInv'
<1>1. PICK s \in Schedules : s = screens[m].sched
  BY DEF RecordServiceOutcome
<1>2. PICK due \in Dates : due = sched[s].next
  BY ServiceTypes
<1>3. /\ InRange(due)
      /\ runs' = IF runs[s][due] = Blank THEN RunWith(s, due, outcome) ELSE runs
      /\ sched' = [sched EXCEPT ![s].next = NextDueAfter(sched[s].step, due)]
      /\ left' = left \cup {<<s, due>>}
      /\ UNCHANGED <<serviceDay, batch, completing>>
  BY <1>1, <1>2 DEF RecordServiceOutcome, RunUnclosed
<1>4. due \in DueDates
  BY <1>2, <1>3, ServicesAssumption DEF InRange, Dates, DueDates
<1>5. NextDueAfter(sched[s].step, due) \in Dates
  BY <1>4, ServiceTypes, SeriesGoesOnAfter
<1>6. sched' \in [Schedules -> Schedule]
  BY <1>3, <1>5, ScheduleRows, ServiceTypes
<1>7. outcome \in RunSays /\ outcome # Blank /\ outcome \notin {"job", "binned"}
  BY DEF RunSays, Blank
<1>8. CASE runs[s][due] = Blank
  <2>1. runs' = RunWith(s, due, outcome)
    BY <1>3, <1>8
  <2>2. /\ runs' \in [Schedules -> [Dates -> RunSays]] /\ JobsAreWithinReach' /\ runs'[s][due] # Blank
        /\ \A t \in Schedules, d \in Dates : runs[t][d] # Blank => runs'[t][d] # Blank
    BY <1>7, <2>1, RunWritten
  <2> QED
    BY <1>3, <1>6, <2>2, ServiceTypes, MovesKeep
<1>9. CASE runs[s][due] # Blank
  <2>1. runs' = runs /\ JobsAreWithinReach'
    BY <1>3, <1>9 DEF JobsAreWithinReach, ServicesInv
  <2> QED
    BY <1>3, <1>6, <1>9, <2>1, ServiceTypes, MovesKeep
<1> QED
  BY <1>8, <1>9

LEMMA ReadingForCompletionKeeps ==
  ASSUME ServicesInv, NEW s \in Schedules, NEW due \in Dates, ReadForCompletion(s, due) PROVE ServicesInv'
<1>1. due \in DueDates
  BY DEF ReadForCompletion, ServicesInv, JobsAreWithinReach
<1>2. completing' \in Completion
  BY <1>1, ServiceTypes DEF ReadForCompletion, Completion, StillDue
<1> QED
  BY <1>2, ServiceTypes, NoRunWrittenKeeps DEF ReadForCompletion

\* The completion stamps its run before it moves the schedule on, whatever happened since it read.
LEMMA CompletionKeeps == ASSUME ServicesInv, MarkServiceJobCompleted PROVE ServicesInv'
<1>1. PICK c \in Completion : c = completing
  BY ServiceTypes DEF MarkServiceJobCompleted
<1>2. c.sched \in Schedules /\ c.due \in DueDates /\ c.due \in Dates /\ c.step \in 1..2
  BY DayRanges DEF Completion
<1>3. "done" \in RunSays /\ "done" # Blank /\ "done" \notin {"job", "binned"}
  BY DEF RunSays, Blank
<1>4. runs' = RunWith(c.sched, c.due, "done") /\ completing' = NoCompletion /\ UNCHANGED <<serviceDay, batch>>
  BY <1>1 DEF MarkServiceJobCompleted
<1>5. CASE c.waits
  <2>1. AdvanceNextDue(c.sched, c.due, NextDueAfter(c.step, c.due))
    BY <1>1, <1>5 DEF MarkServiceJobCompleted
  <2> QED
    BY <1>2, <1>3, <1>4, <2>1, ServiceTypes, AdvanceKeeps
<1>6. CASE ~c.waits
  <2>1. UNCHANGED <<sched, left>>
    BY <1>1, <1>6 DEF MarkServiceJobCompleted
  <2> QED
    BY <1>2, <1>3, <1>4, <2>1, ServiceTypes, RunWrittenKeeps
<1> QED
  BY <1>5, <1>6

LEMMA BinningKeeps ==
  ASSUME ServicesInv, NEW s \in Schedules, NEW due \in Dates, ArchiveServiceJob(s, due) \/ UnarchiveServiceJob(s, due)
  PROVE  ServicesInv'
<1>1. PICK what \in {"job", "binned"} : runs' = RunWith(s, due, what)
  BY DEF ArchiveServiceJob, UnarchiveServiceJob
<1>2. due \in DueDates /\ UNCHANGED <<left, serviceDay, sched, batch, completing>>
  BY DEF ArchiveServiceJob, UnarchiveServiceJob, ServicesInv, JobsAreWithinReach
<1>3. what \in RunSays /\ what # Blank
  BY DEF RunSays, Blank
<1> QED
  BY <1>1, <1>2, <1>3, ServiceTypes, RunWrittenKeeps

LEMMA StartRunKeeps == ASSUME ServicesInv, StartRun PROVE ServicesInv'
<1>1. batch' = {[sched |-> s, due |-> sched[s].next, step |-> sched[s].step, covered |-> "unread"] : s \in DueSchedules}
      /\ UNCHANGED <<serviceDay, sched, runs, completing, left>>
  BY DEF StartRun
<1>2. ASSUME NEW s \in DueSchedules
      PROVE  [sched |-> s, due |-> sched[s].next, step |-> sched[s].step, covered |-> "unread"] \in BatchRow
  <2>1. s \in Schedules /\ sched[s].next - LeadDays <= serviceDay
    BY DEF DueSchedules, IsGenerationDue
  <2>2. sched[s].next \in Dates /\ sched[s].step \in 1..2 /\ serviceDay \in Days
    BY <2>1, ServiceTypes
  <2>3. sched[s].next \in DueDates
    BY <2>1, <2>2, ServicesAssumption DEF Dates, LastDate, Days, DueDates
  <2> QED
    BY <2>1, <2>2, <2>3 DEF BatchRow
<1>3. batch' \subseteq BatchRow
  BY <1>1, <1>2
<1> QED
  BY <1>1, <1>3, ServiceTypes, NoRunWrittenKeeps

LEMMA ReadCoverKeeps == ASSUME ServicesInv, NEW b \in batch, ReadCover(b) PROVE ServicesInv'
<1>1. b \in BatchRow
  BY ServiceTypes
<1>2. \A c \in {"yes", "no"} : [b EXCEPT !.covered = c] \in BatchRow
  BY <1>1 DEF BatchRow
<1>3. PICK c \in {"yes", "no"} : batch' = (batch \ {b}) \cup {[b EXCEPT !.covered = c]}
  <2>1. CASE Covered(b.due)
    BY <2>1 DEF ReadCover
  <2>2. CASE ~Covered(b.due)
    BY <2>2 DEF ReadCover
  <2> QED
    BY <2>1, <2>2
<1>4. batch' \subseteq BatchRow
  BY <1>2, <1>3, ServiceTypes
<1> QED
  BY <1>4, ServiceTypes, NoRunWrittenKeeps DEF ReadCover

LEMMA GenerateKeeps == ASSUME ServicesInv, NEW b \in batch, GenerateOne(b) PROVE ServicesInv'
<1>1. b \in BatchRow
  BY ServiceTypes
<1>2. b.sched \in Schedules /\ b.due \in DueDates /\ b.due \in Dates /\ b.step \in 1..2
  BY <1>1, DayRanges DEF BatchRow
<1>3. batch' \subseteq BatchRow /\ serviceDay' = serviceDay /\ completing' = completing
  BY ServiceTypes DEF GenerateOne
<1>4. CASE UNCHANGED <<sched, runs, screens, left>>
  BY <1>3, <1>4, ServiceTypes, NoRunWrittenKeeps
<1>5. CASE /\ runs' = RunWith(b.sched, b.due, "skipped_defects")
           /\ AdvanceNextDue(b.sched, b.due, NextDueAfter(b.step, b.due))
  <2>1. "skipped_defects" \in RunSays /\ "skipped_defects" # Blank
    BY DEF RunSays, Blank
  <2> QED
    BY <1>2, <1>3, <1>5, <2>1, ServiceTypes, AdvanceKeeps
<1>6. CASE runs' = RunWith(b.sched, b.due, "job") /\ UNCHANGED <<sched, left>>
  <2>1. "job" \in RunSays /\ "job" # Blank
    BY DEF RunSays, Blank
  <2> QED
    BY <1>2, <1>3, <1>6, <2>1, ServiceTypes, RunWrittenKeeps
<1> QED
  BY <1>4, <1>5, <1>6 DEF GenerateOne, CreateScheduledJob

LEMMA ServicesStep == ServicesInv /\ [ServicesNext]_serviceVars => ServicesInv'
<1> SUFFICES ASSUME ServicesInv, [ServicesNext]_serviceVars PROVE ServicesInv'
  OBVIOUS
<1>1. ASSUME UNCHANGED <<runs, left, sched, batch, completing>>, serviceDay' \in Days PROVE ServicesInv'
  BY <1>1, ServiceTypes, NoRunWrittenKeeps
<1>2. CASE UNCHANGED serviceVars
  BY <1>1, <1>2, ServiceTypes DEF serviceVars
<1>3. CASE ServiceDayPasses
  BY <1>1, <1>3, ServiceTypes, ServicesAssumption DEF ServiceDayPasses, Days
<1>4. CASE ArchivePeriod \/ RestorePeriod \/ \E to \in Days, block \in BOOLEAN : SavePeriod(to, block)
  BY <1>1, <1>4, ServiceTypes DEF ArchivePeriod, RestorePeriod, SavePeriod
<1>5. CASE \E m \in Managers : CloseSchedule(m) \/ \E s \in Schedules : OpenSchedule(m, s)
  BY <1>1, <1>5, ServiceTypes DEF CloseSchedule, OpenSchedule
<1>6. CASE SchedulerStep
  BY <1>6, StartRunKeeps, ReadCoverKeeps, GenerateKeeps DEF SchedulerStep
<1>7. CASE \E s \in Schedules :
             \/ \E step \in Steps : CreateSchedule(s, step)
             \/ \E step \in Steps, last \in Days : ImportSchedule(s, step, last)
             \/ ArchiveSchedule(s) \/ RestoreSchedule(s)
             \/ \E d \in Dates : \/ ReadForCompletion(s, d)
                                 \/ ArchiveServiceJob(s, d) \/ UnarchiveServiceJob(s, d)
  BY <1>7, CreateKeeps, ImportKeeps, ArchivingKeeps, ReadingForCompletionKeeps, BinningKeeps
<1>8. CASE \E m \in Managers :
             \/ \E step \in Steps, d \in Dates, st \in {"live", "paused"} : UpsertSchedule(m, step, d, st)
             \/ \E o \in {"recorded", "skipped"} : RecordServiceOutcome(m, o)
  BY <1>8, UpsertKeeps, RecordKeeps
<1> QED
  BY <1>2, <1>3, <1>4, <1>5, <1>6, <1>7, <1>8, CompletionKeeps DEF ServicesNext

(* No date of a service drops out of its series unrecorded, for any schedules, managers, *)
(* lead time and length of the clock: the scheduler, the completion and the outcome each *)
(* close the run row of the date they move NextDue off, and advanceNextDue moves it off  *)
(* no other.                                                                             *)
THEOREM PassedDatesStayRecorded == ServicesSpec => []PassedDatesAreRecorded
<1>1. ServicesInv => PassedDatesAreRecorded
  BY DEF ServicesInv
<1> QED
  BY <1>1, ServicesStart, ServicesStep, PTL DEF ServicesSpec
-----------------------------------------------------------------------------
(* LeaseEvents: an option is exercised on a notice that was given in time. *)

IsEvent(r) ==
  r = [type |-> r.type, state |-> r.state, expiry |-> r.expiry, notice |-> r.notice,
       recorder |-> r.recorder, approver |-> r.approver]

\* What waits for approval was recorded within the window of the expiry it is dated for.
AwaitingIsInTime(r) == r.state = "awaiting_approval" => InWindow(r.expiry, r.notice)

EventIsSound(r) == IsEvent(r) /\ AwaitingIsInTime(r)

LeaseInv == evts = [e \in EventIds |-> evts[e]] /\ \A e \in EventIds : EventIsSound(evts[e])

\* How the handlers write an event.
Approved(r, u) == [r EXCEPT !.approver = u]
Moved(r, state) == [r EXCEPT !.state = state]
Rewritten(r, type, state, expiry) == [r EXCEPT !.type = type, !.state = state, !.expiry = expiry]

\* An event that is over, or that the generator moves or opens, does not wait for approval.
LEMMA OverIsSound ==
  ASSUME NEW r, NEW state \in {"rejected", "exercised", "cancelled"}
  PROVE  EventIsSound(EventOver(r, state)) /\ EventOver(r, state).state = state
<1>1. PICK row : row = EventOver(r, state)
  OBVIOUS
<1>2. row = [type |-> r.type, state |-> state, expiry |-> r.expiry, notice |-> 0, recorder |-> NoOne, approver |-> NoOne]
  BY <1>1 DEF EventOver, NoEvent
<1> QED
  BY <1>1, <1>2 DEF EventIsSound, IsEvent, AwaitingIsInTime

LEMMA ApprovedIsSound ==
  ASSUME NEW r, NEW u, EventIsSound(r), r.state = "exercised"
  PROVE  EventIsSound(Approved(r, u)) /\ Approved(r, u).state = "exercised" /\ Approved(r, u).approver = u
<1>1. PICK row : row = Approved(r, u)
  OBVIOUS
<1>2. row = [type |-> r.type, state |-> "exercised", expiry |-> r.expiry, notice |-> r.notice,
             recorder |-> r.recorder, approver |-> u]
  BY <1>1 DEF Approved, EventIsSound, IsEvent
<1>3. row.state = "exercised" /\ row.approver = u /\ IsEvent(row)
  BY <1>2 DEF IsEvent
<1> QED
  BY <1>1, <1>3 DEF EventIsSound, AwaitingIsInTime

LEMMA MovedIsSound ==
  ASSUME NEW r, NEW state \in {"lapsed", "window_open"}, EventIsSound(r)
  PROVE  EventIsSound(Moved(r, state)) /\ Moved(r, state).state = state
<1>1. PICK row : row = Moved(r, state)
  OBVIOUS
<1>2. row = [type |-> r.type, state |-> state, expiry |-> r.expiry, notice |-> r.notice,
             recorder |-> r.recorder, approver |-> r.approver]
  BY <1>1 DEF Moved, EventIsSound, IsEvent
<1> QED
  BY <1>1, <1>2 DEF EventIsSound, IsEvent, AwaitingIsInTime

LEMMA RewrittenIsSound ==
  ASSUME NEW r, NEW type, NEW expiry, EventIsSound(r),
         NEW state \in {"referred", "window_open", "window_not_open", "renewed", "vacating", "holdover"}
  PROVE  EventIsSound(Rewritten(r, type, state, expiry)) /\ Rewritten(r, type, state, expiry).state = state
<1>1. PICK row : row = Rewritten(r, type, state, expiry)
  OBVIOUS
<1>2. row = [type |-> type, state |-> state, expiry |-> expiry, notice |-> r.notice,
             recorder |-> r.recorder, approver |-> r.approver]
  BY <1>1 DEF Rewritten, EventIsSound, IsEvent
<1> QED
  BY <1>1, <1>2 DEF EventIsSound, IsEvent, AwaitingIsInTime

LEMMA NothingYetIsSound == EventIsSound(NoEvent)
BY DEF NoEvent, EventIsSound, IsEvent, AwaitingIsInTime

\* The states an option passes through, and the moment it is exercised.
ExercisedNow(e) ==
  evts[e].state # "exercised" /\ evts'[e].state = "exercised" =>
    LET u == evts'[e].approver IN
    \/ u \in Directors
    \/ InWindow(lse.expiry, evts[e].notice) /\ u # evts[e].recorder /\ u \in Approvers

LeaseKept == LeaseInv' /\ \A e \in EventIds : ExercisedNow(e)

\* One event is written, and not as an exercised one.
LEMMA OneEventWritten ==
  ASSUME LeaseInv, NEW e, NEW row, SetEvent(e, row), EventIsSound(row), row.state # "exercised"
  PROVE  LeaseKept
<1>1. evts' = [evts EXCEPT ![e] = row]
  BY DEF SetEvent
<1>2. evts' = [f \in EventIds |-> IF f = e THEN row ELSE evts[f]]
  BY <1>1 DEF LeaseInv
<1>3. \A f \in EventIds : evts'[f] = IF f = e THEN row ELSE evts[f]
  BY <1>2
<1>4. \A f \in EventIds : EventIsSound(evts'[f])
  BY <1>3 DEF LeaseInv
<1>5. evts' = [f \in EventIds |-> evts'[f]]
  BY <1>2
<1>6. \A f \in EventIds : ExercisedNow(f)
  BY <1>3 DEF ExercisedNow
<1> QED
  BY <1>4, <1>5, <1>6 DEF LeaseKept, LeaseInv

LEMMA NoEventWritten == ASSUME LeaseInv, UNCHANGED evts PROVE LeaseKept
BY DEF LeaseInv, LeaseKept, ExercisedNow

\* The generator's writes: a move or a new row; neither is an exercise.
LEMMA GeneratorKeeps == ASSUME LeaseInv, NEW a \in gen.todo, GenWrites(a) PROVE LeaseKept
<1>1. CASE WriteMove(a)
  <2>1. CASE UNCHANGED evts
    BY <2>1, NoEventWritten
  <2>2. CASE ~UNCHANGED evts
    <3>1. PICK state \in {"lapsed", "window_open"} : SetEvent(a.event, Moved(evts[a.event], state))
      BY <1>1, <2>2 DEF WriteMove, Moved
    <3>2. a.event \in EventIds
      BY <2>2, <3>1 DEF SetEvent, LeaseInv
    <3>3. EventIsSound(evts[a.event])
      BY <3>2 DEF LeaseInv
    <3> QED
      BY <3>1, <3>3, MovedIsSound, OneEventWritten
  <2> QED
    BY <2>1, <2>2
<1>2. CASE WriteInsert(a)
  <2>1. CASE UNCHANGED evts
    BY <2>1, NoEventWritten
  <2>2. CASE ~UNCHANGED evts
    <3>1. PICK e \in EventIds, type \in {"option", "renewal"}, state \in {"referred", "window_open", "window_not_open"} :
            SetEvent(e, Rewritten(NoEvent, type, state, gen.expiry))
      BY <1>2, <2>2 DEF WriteInsert, Rewritten
    <3> QED
      BY <3>1, RewrittenIsSound, NothingYetIsSound, OneEventWritten
  <2> QED
    BY <2>1, <2>2
<1>3. CASE UNCHANGED evts
  BY <1>3, NoEventWritten
<1> QED
  BY <1>1, <1>2, <1>3 DEF GenWrites

\* A notice waits for an approver only when it lay in the window, and for a director otherwise.
LEMMA NoticeKeeps == ASSUME LeaseInv, NEW u, NEW notice, RecordOptionNotice(u, notice) PROVE LeaseKept
<1>1. PICK e \in EventIds : SetEvent(e, NoticeRow(u, notice))
  BY DEF RecordOptionNotice, ToRecordOn, OpenOf, OfType, ForExpiry
<1>2. EventIsSound(NoticeRow(u, notice)) /\ NoticeRow(u, notice).state # "exercised"
  BY DEF NoticeRow, EventIsSound, IsEvent, AwaitingIsInTime
<1> QED
  BY <1>1, <1>2, OneEventWritten

LEMMA ApprovalKeeps ==
  ASSUME LeaseInv, NEW u, NEW e \in EventIds, NEW market, ApproveOptionExercise(u, e, market) PROVE LeaseKept
<1>1. PICK row : row = Approved(EventOver(evts[e], "exercised"), u)
  OBVIOUS
<1>2. EventIsSound(row) /\ row.state = "exercised" /\ row.approver = u
  BY <1>1, OverIsSound, ApprovedIsSound
<1>3. evts' = [f \in EventIds |-> IF f = e THEN row
                ELSE IF evts[f].state = "referred" THEN EventOver(evts[f], "cancelled") ELSE evts[f]]
  BY <1>1 DEF ApproveOptionExercise, Approved
<1>4. evts'[e] = row /\ evts' = [f \in EventIds |-> evts'[f]]
  BY <1>3
<1>5. \A f \in EventIds \ {e} : EventIsSound(evts'[f]) /\ (evts'[f].state = "exercised" => evts[f].state = "exercised")
  <2> TAKE f \in EventIds \ {e}
  <2>1. CASE evts[f].state = "referred"
    <3>1. evts'[f] = EventOver(evts[f], "cancelled")
      BY <1>3, <2>1
    <3> QED
      BY <3>1, OverIsSound
  <2>2. CASE evts[f].state # "referred"
    <3>1. evts'[f] = evts[f]
      BY <1>3, <2>2
    <3> QED
      BY <3>1 DEF LeaseInv
  <2> QED
    BY <2>1, <2>2
<1>6. u \in Directors \/ (InWindow(lse.expiry, evts[e].notice) /\ u # evts[e].recorder /\ u \in Approvers)
  <2>1. EventIsSound(evts[e]) /\ evts[e].expiry = lse.expiry /\ u \in Approvers
    BY DEF LeaseInv, ApproveOptionExercise, CanExercise, SameExpiry
  <2>2. u \in Directors \/ (u # evts[e].recorder /\ evts[e].state = "awaiting_approval")
    BY DEF ApproveOptionExercise
  <2> QED
    BY <2>1, <2>2 DEF EventIsSound, AwaitingIsInTime
<1>7. ExercisedNow(e)
  BY <1>2, <1>4, <1>6 DEF ExercisedNow
<1>8. \A f \in EventIds : ExercisedNow(f)
  BY <1>5, <1>7 DEF ExercisedNow
<1>9. LeaseInv'
  BY <1>2, <1>4, <1>5 DEF LeaseInv
<1> QED
  BY <1>8, <1>9 DEF LeaseKept

LEMMA RenewalKeeps ==
  ASSUME LeaseInv, NEW u, NEW e \in EventIds, NEW outcome \in {"renewed", "vacating", "holdover"}, DecideRenewal(u, e, outcome)
  PROVE  LeaseKept
<1>1. SetEvent(e, Rewritten(evts[e], "renewal", outcome, lse.expiry))
  BY DEF DecideRenewal, Rewritten
<1>2. EventIsSound(evts[e])
  BY DEF LeaseInv
<1> QED
  BY <1>1, <1>2, RewrittenIsSound, OneEventWritten

\* The register's edit cancels what was open for the old expiry.
LEMMA EditKeeps == ASSUME LeaseInv, NEW x, EditExpiry(x) PROVE LeaseKept
<1>1. evts' = [e \in EventIds |-> IF DatedFor(e) THEN EventOver(evts[e], "cancelled") ELSE evts[e]]
  BY DEF EditExpiry
<1>2. \A e \in EventIds : EventIsSound(evts'[e]) /\ (evts'[e].state = "exercised" => evts[e].state = "exercised")
  <2> TAKE e \in EventIds
  <2>1. CASE DatedFor(e)
    <3>1. evts'[e] = EventOver(evts[e], "cancelled")
      BY <1>1, <2>1
    <3> QED
      BY <3>1, OverIsSound
  <2>2. CASE ~DatedFor(e)
    <3>1. evts'[e] = evts[e]
      BY <1>1, <2>2
    <3> QED
      BY <3>1 DEF LeaseInv
  <2> QED
    BY <2>1, <2>2
<1>3. evts' = [e \in EventIds |-> evts'[e]]
  BY <1>1
<1> QED
  BY <1>2, <1>3 DEF LeaseKept, LeaseInv, ExercisedNow

LEMMA LeaseStart == LeaseInit => LeaseInv
BY NothingYetIsSound DEF LeaseInit, LeaseInv

LEMMA LeaseStep == LeaseInv /\ [LeaseNext]_leaseVars => LeaseKept
<1> SUFFICES ASSUME LeaseInv, [LeaseNext]_leaseVars PROVE LeaseKept
  OBVIOUS
<1>1. CASE UNCHANGED evts
  BY <1>1, NoEventWritten
<1>2. CASE \E a \in gen.todo : GenWrites(a)
  BY <1>2, GeneratorKeeps
<1>3. CASE \E u \in Staff : \E notice \in 0..day : RecordOptionNotice(u, notice)
  BY <1>3, NoticeKeeps
<1>4. ASSUME NEW u \in Staff, NEW e \in EventIds, RejectOptionNotice(u, e) PROVE LeaseKept
  BY <1>4, OverIsSound, OneEventWritten DEF RejectOptionNotice
<1>5. CASE \E u \in Staff, e \in EventIds, market \in BOOLEAN : ApproveOptionExercise(u, e, market)
  BY <1>5, ApprovalKeeps
<1>6. CASE \E u \in Staff, e \in EventIds, outcome \in {"renewed", "vacating", "holdover"} : DecideRenewal(u, e, outcome)
  BY <1>6, RenewalKeeps
<1>7. CASE \E x \in Expiries : EditExpiry(x)
  BY <1>7, EditKeeps
<1> QED
  BY <1>1, <1>2, <1>3, <1>4, <1>5, <1>6, <1>7
     DEF LeaseNext, GenStep, GenReadsTenancy, GenReadsEvents, GenEnds, GenDies, CorrectOptionsRemaining,
         HoldoverReset, RegisterMoves, NextDay, leaseVars

(* An option is exercised on a notice given within the window of the very expiry it       *)
(* extends and approved by somebody else than its recorder, or by a director, for any     *)
(* events, people, dates and windows (recordOptionNotice, approveOptionExercise,          *)
(* applyOptionExercise, closeEventsForEditedExpiry).                                      *)
THEOREM OptionsAreExercisedInTime == LeaseSpec => ExercisedInTime
<1>1. LeaseInv /\ [LeaseNext]_leaseVars =>
        [\A e \in EventIds : evts[e].state # "exercised" /\ evts'[e].state = "exercised" =>
           LET u == evts'[e].approver IN
           \/ u \in Directors
           \/ InWindow(lse.expiry, evts[e].notice) /\ u # evts[e].recorder /\ u \in Approvers]_leaseVars
  BY LeaseStep DEF LeaseKept, ExercisedNow
<1>2. LeaseInv /\ [LeaseNext]_leaseVars => LeaseInv'
  BY LeaseStep DEF LeaseKept
<1> QED
  BY <1>1, <1>2, LeaseStart, PTL DEF LeaseSpec, ExercisedInTime


=============================================================================
