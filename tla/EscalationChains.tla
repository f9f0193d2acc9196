-------------------------- MODULE EscalationChains --------------------------
(***************************************************************************)
(* What the escalation engine promises about dbo.Escalations, whoever calls *)
(* it and in whatever order: rows are raised, claimed, closed and moved up,  *)
(* one transaction each.  Escalations implements this specification.         *)
(***************************************************************************)
EXTENDS Integers

CONSTANTS
  Keys,     \* the <<subject, policy>> pairs
  NoKey,    \* the key of a row that does not exist yet
  MaxRows,  \* bound: rows ever written
  Top       \* the highest level of every ladder

Ids    == 1..MaxRows
Levels == 1..Top
NoRow  == 0

\* What is required of the constants; Escalations meets it (its ConstantsAssumption).
ChainAssumption == MaxRows \in Nat /\ Top \in Nat \ {0} /\ NoKey \notin Keys

LiveStatuses  == {"open", "acknowledged"}
EndedStatuses == {"resolved", "withdrawn", "superseded"}

\* Why a row was moved up (by the sweep's clock, or by a person), or how it ended.
SweepCodes == {"sla_breach", "reminder", "follow_up"}
MoveCodes  == SweepCodes \cup {"escalated"}
CloseCodes == {"action_taken", "withdrawn", "condition_cleared", "decided"}

Entry == [key : Keys \cup {NoKey}, status : LiveStatuses \cup EndedStatuses \cup {"unused"},
          level : Levels, parent : Ids \cup {NoRow}, claimed : BOOLEAN,
          code : MoveCodes \cup CloseCodes \cup {"live"}]
Unused == [key |-> NoKey, status |-> "unused", level |-> 1, parent |-> NoRow,
           claimed |-> FALSE, code |-> "live"]
Fresh(k, level, parent) ==
  [key |-> k, status |-> "open", level |-> level, parent |-> parent,
   claimed |-> FALSE, code |-> "live"]

\* Entry e with another status, owner and reason: the rest of a row never changes.
Changed(e, status, claimed, code) ==
  [key |-> e.key, status |-> status, level |-> e.level, parent |-> e.parent,
   claimed |-> claimed, code |-> code]

VARIABLES
  chain,   \* the rows
  nextId   \* the next EscalationId
vars == <<chain, nextId>>

IsLive(i)   == chain[i].status \in LiveStatuses
LiveFor(k)  == {i \in Ids : chain[i].key = k /\ IsLive(i)}
Children(i) == {j \in Ids : chain[j].parent = i}

Init ==
  /\ chain = [i \in Ids |-> Unused]
  /\ nextId = 1

\* A key with nothing live gets a row.
Raise(k, level) ==
  /\ nextId \in Ids /\ LiveFor(k) = {}
  /\ chain' = [chain EXCEPT ![nextId] = Fresh(k, level, NoRow)]
  /\ nextId' = nextId + 1

\* Somebody takes an open row on.
Claim(i) ==
  /\ chain[i].status = "open"
  /\ chain' = [chain EXCEPT ![i] = Changed(chain[i], "acknowledged", TRUE, chain[i].code)]
  /\ UNCHANGED nextId

\* A live row ends; whoever resolves it by hand is on record as having had it.
Close(i, status, code, claimed) ==
  /\ IsLive(i)
  /\ chain' = [chain EXCEPT ![i] = Changed(chain[i], status, chain[i].claimed \/ claimed, code)]
  /\ UNCHANGED nextId

\* A live row is replaced by one no lower on the ladder; the clock moves only what
\* nobody has claimed.
MoveUp(i, level, code) ==
  /\ nextId \in Ids /\ IsLive(i)
  /\ level >= chain[i].level
  /\ code \in SweepCodes => ~chain[i].claimed
  /\ chain' = [chain EXCEPT ![i] = Changed(chain[i], "superseded", chain[i].claimed, code),
                            ![nextId] = Fresh(chain[i].key, level, i)]
  /\ nextId' = nextId + 1

Next ==
  \/ \E k \in Keys, level \in Levels : Raise(k, level)
  \/ \E i \in Ids :
       \/ Claim(i)
       \/ \E status \in {"resolved", "withdrawn"}, code \in CloseCodes, claimed \in BOOLEAN :
            Close(i, status, code, claimed)
       \/ \E level \in Levels, code \in MoveCodes : MoveUp(i, level, code)

Spec == Init /\ [][Next]_vars

-----------------------------------------------------------------------------
TypeOK == chain \in [Ids -> Entry] /\ nextId \in 1..(MaxRows + 1)

\* Rows are written in order, and a row that does not exist says nothing.
Contiguous == \A i \in Ids : /\ i >= nextId <=> chain[i].status = "unused"
                             /\ i >= nextId => chain[i] = Unused

\* One live row per key (migration 098, UX_Escalations_Live).
OneLive == \A i, j \in Ids : IsLive(i) /\ IsLive(j) /\ chain[i].key = chain[j].key => i = j

\* A superseded row has exactly one successor, of the same key and no lower a level,
\* and no other row has one.
Succession ==
  \A i \in Ids :
    /\ chain[i].status = "superseded" <=> Children(i) # {}
    /\ \A j \in Children(i) : /\ i < j /\ chain[j].key = chain[i].key
                              /\ chain[j].level >= chain[i].level
    /\ \A j, m \in Children(i) : j = m
ChainsWhole == OneLive /\ Succession

\* An acknowledged row has an owner on record, an open one has none, and neither
\* carries a reason for having ended.
ClaimsOnRecord ==
  \A i \in Ids : /\ chain[i].status = "open" => ~chain[i].claimed
                 /\ chain[i].status = "acknowledged" => chain[i].claimed
                 /\ IsLive(i) => chain[i].code = "live"

\* What somebody has claimed, time does not take from them.
ClaimStopsTheClock == \A i \in Ids : chain[i].code \in SweepCodes => ~chain[i].claimed

\* All of it together is inductive: whatever state it holds in, every transaction of
\* the engine (raise, acknowledge, resolve, withdraw, escalateFurther) keeps it.
ChainInv ==
  TypeOK /\ Contiguous /\ OneLive /\ Succession /\ ClaimsOnRecord /\ ClaimStopsTheClock

\* An ended row is final.
EndedIsFinal == [][\A i \in Ids : chain[i].status \in EndedStatuses => chain'[i] = chain[i]]_vars
=============================================================================
