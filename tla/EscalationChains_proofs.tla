----------------------- MODULE EscalationChains_proofs -----------------------
(***************************************************************************)
(* ChainInv is an invariant of EscalationChains for every number of keys,   *)
(* levels and rows, and an ended row is final.                               *)
(***************************************************************************)
EXTENDS EscalationChains, TLAPS

(* The first row is as the table is created: empty. *)
LEMMA InitChainInv ==
  ASSUME ChainAssumption
  PROVE  Init => ChainInv
  <1> SUFFICES ASSUME Init PROVE ChainInv
    OBVIOUS
  <1>1. /\ nextId = 1 /\ nextId \in 1..(MaxRows + 1)
        /\ \A i \in Ids : chain[i] = Unused
    BY DEF ChainAssumption, Init, Ids
  <1>2. Unused \in Entry
    BY DEF ChainAssumption, Unused, Entry, Levels, NoRow
  <1>3. TypeOK
    BY <1>1, <1>2 DEF TypeOK, Init
  <1>4. \A i \in Ids : i >= nextId /\ i # NoRow
    BY <1>1 DEF Ids, NoRow
  <1>5. \A i \in Ids : Children(i) = {}
    BY <1>1, <1>4 DEF Children, Unused
  <1>6. \A i \in Ids : chain[i].status = "unused" /\ chain[i].code = "live"
    BY <1>1 DEF Unused
  <1>7. Contiguous
    BY <1>1, <1>4, <1>6 DEF Contiguous
  <1>8. OneLive /\ ClaimsOnRecord /\ ClaimStopsTheClock
    BY <1>6 DEF OneLive, ClaimsOnRecord, ClaimStopsTheClock, IsLive, LiveStatuses, SweepCodes
  <1>9. Succession
    BY <1>5, <1>6 DEF Succession
  <1> QED
    BY <1>3, <1>7, <1>8, <1>9 DEF ChainInv

(* Raising a row for a key that has nothing live keeps the invariant. *)
LEMMA RaiseKeeps ==
  ASSUME ChainAssumption, ChainInv, NEW k \in Keys, NEW level \in Levels, Raise(k, level)
  PROVE  ChainInv'
  <1> DEFINE n == nextId
  <1>1. /\ n \in Ids /\ n \in Int /\ chain \in [Ids -> Entry] /\ nextId' = n + 1
        /\ chain[n] = Unused /\ LiveFor(k) = {}
    BY DEF ChainAssumption, Raise, ChainInv, TypeOK, Contiguous, Ids
  <1>2. chain'[n] = Fresh(k, level, NoRow) /\ \A i \in Ids \ {n} : chain'[i] = chain[i]
    BY <1>1 DEF Raise
  <1>3. TypeOK'
    <2>1. Fresh(k, level, NoRow) \in Entry
      BY DEF Fresh, Entry, NoRow, LiveStatuses
    <2>2. chain' \in [Ids -> Entry]
      BY <1>1, <2>1 DEF Raise
    <2>3. nextId' \in 1..(MaxRows + 1)
      BY <1>1 DEF ChainAssumption, Ids
    <2> QED
      BY <2>2, <2>3 DEF TypeOK
  <1>4. Contiguous'
    <2> SUFFICES ASSUME NEW i \in Ids
                 PROVE  /\ i >= n + 1 <=> chain'[i].status = "unused"
                        /\ i >= n + 1 => chain'[i] = Unused
      BY <1>1 DEF Contiguous
    <2>1. CASE i = n
      BY <2>1, <1>1, <1>2 DEF Fresh
    <2>2. CASE i # n
      BY <2>2, <1>1, <1>2 DEF ChainInv, Contiguous, Ids
    <2> QED
      BY <2>1, <2>2
  <1>5. OneLive'
    BY <1>1, <1>2 DEF ChainInv, OneLive, LiveFor, IsLive, Fresh
  <1>6. Succession'
    <2>0. \A j \in Ids : chain'[j].parent = chain[j].parent
      BY <1>1, <1>2 DEF Fresh, Unused
    <2>1. \A i \in Ids : Children(i)' = Children(i)
      BY <2>0 DEF Children
    <2>2. \A i \in Ids : n \notin Children(i)
      BY <1>1 DEF Children, Unused, NoRow, Ids
    <2>3. Children(n) = {}
      BY <1>1 DEF ChainInv, Succession, Unused
    <2> SUFFICES ASSUME NEW i \in Ids
                 PROVE  /\ chain'[i].status = "superseded" <=> Children(i) # {}
                        /\ \A j \in Children(i) : /\ i < j /\ chain'[j].key = chain'[i].key
                                                  /\ chain'[j].level >= chain'[i].level
                        /\ \A j, m \in Children(i) : j = m
      BY <2>1 DEF Succession
    <2>4. CASE i = n
      BY <2>4, <2>3, <1>2 DEF Fresh
    <2>5. CASE i # n
      BY <2>5, <2>2, <1>2 DEF ChainInv, Succession, Children
    <2> QED
      BY <2>4, <2>5
  <1>7. ClaimsOnRecord' /\ ClaimStopsTheClock'
    BY <1>1, <1>2 DEF ChainInv, ClaimsOnRecord, ClaimStopsTheClock, IsLive, Fresh, LiveStatuses,
                      SweepCodes
  <1> QED
    BY <1>3, <1>4, <1>5, <1>6, <1>7 DEF ChainInv

(* Taking an open row on keeps it. *)
LEMMA ClaimKeeps ==
  ASSUME ChainInv, NEW n \in Ids, Claim(n)
  PROVE  ChainInv'
  <1>1. /\ chain \in [Ids -> Entry] /\ nextId' = nextId /\ chain[n].status = "open"
        /\ chain[n].code = "live"
    BY DEF Claim, ChainInv, TypeOK, ClaimsOnRecord, IsLive, LiveStatuses
  <1>2. /\ \A i \in Ids \ {n} : chain'[i] = chain[i]
        /\ chain'[n] = Changed(chain[n], "acknowledged", TRUE, chain[n].code)
    BY <1>1 DEF Claim
  <1>3. chain[n] \in Entry
    BY <1>1
  <1>4. /\ chain'[n].status = "acknowledged" /\ chain'[n].claimed = TRUE
        /\ chain'[n].key = chain[n].key /\ chain'[n].level = chain[n].level
        /\ chain'[n].parent = chain[n].parent /\ chain'[n].code = "live"
    BY <1>1, <1>2, <1>3 DEF Changed
  <1>5. TypeOK'
    <2>1. Changed(chain[n], "acknowledged", TRUE, chain[n].code) \in Entry
      BY <1>3 DEF Changed, Entry, LiveStatuses
    <2>2. chain' \in [Ids -> Entry]
      BY <1>1, <1>2, <2>1 DEF Claim
    <2> QED
      BY <1>1, <2>2 DEF TypeOK, ChainInv
  <1>6. Contiguous'
    BY <1>1, <1>2, <1>4 DEF ChainInv, Contiguous
  <1>6a. \A i \in Ids : /\ chain'[i].key = chain[i].key /\ chain'[i].level = chain[i].level
                        /\ chain'[i].parent = chain[i].parent
                        /\ IsLive(i)' <=> IsLive(i)
                        /\ chain'[i].code = chain[i].code
    BY <1>1, <1>2, <1>4 DEF IsLive, LiveStatuses
  <1>7. OneLive'
    BY <1>6a DEF ChainInv, OneLive
  <1>8. \A i \in Ids : Children(i)' = Children(i)
    BY <1>6a DEF Children
  <1>9. Succession'
    <2>1. \A i \in Ids : /\ chain'[i].key = chain[i].key /\ chain'[i].level = chain[i].level
                         /\ chain'[i].status = "superseded" <=> chain[i].status = "superseded"
      BY <1>1, <1>2, <1>4
    <2>2. \A i \in Ids : Children(i) \subseteq Ids
      BY DEF Children
    <2> QED
      BY <1>8, <2>1, <2>2 DEF ChainInv, Succession
  <1>10. ClaimsOnRecord' /\ ClaimStopsTheClock'
    <2> SUFFICES ASSUME NEW i \in Ids
                 PROVE  /\ chain'[i].status = "open" => ~chain'[i].claimed
                        /\ chain'[i].status = "acknowledged" => chain'[i].claimed
                        /\ IsLive(i)' => chain'[i].code = "live"
                        /\ chain'[i].code \in SweepCodes => ~chain'[i].claimed
      BY DEF ClaimsOnRecord, ClaimStopsTheClock
    <2>1. CASE i = n
      BY <2>1, <1>4 DEF SweepCodes
    <2>2. CASE i # n
      <3>1. chain'[i] = chain[i]
        BY <2>2, <1>2
      <3> QED
        BY <3>1 DEF ChainInv, ClaimsOnRecord, ClaimStopsTheClock, IsLive
    <2> QED
      BY <2>1, <2>2
  <1> QED
    BY <1>5, <1>6, <1>7, <1>9, <1>10 DEF ChainInv

(* Ending a live row keeps it: a live row has no successor, so it leaves none. *)
LEMMA CloseKeeps ==
  ASSUME ChainInv, NEW n \in Ids, NEW status \in {"resolved", "withdrawn"},
         NEW code \in CloseCodes, NEW claimed \in BOOLEAN, Close(n, status, code, claimed)
  PROVE  ChainInv'
  <1>1. /\ chain \in [Ids -> Entry] /\ nextId' = nextId /\ chain[n].status \in LiveStatuses
    BY DEF Close, ChainInv, TypeOK, IsLive
  <1>2. /\ \A i \in Ids \ {n} : chain'[i] = chain[i]
        /\ chain'[n] = Changed(chain[n], status, chain[n].claimed \/ claimed, code)
    BY <1>1 DEF Close
  <1>3. chain[n] \in Entry
    BY <1>1
  <1>4. /\ chain'[n].status = status /\ chain'[n].code = code
        /\ chain'[n].key = chain[n].key /\ chain'[n].level = chain[n].level
        /\ chain'[n].parent = chain[n].parent
    BY <1>1, <1>2, <1>3 DEF Changed
  <1>5. TypeOK'
    <2>1. (chain[n].claimed \/ claimed) \in BOOLEAN
      OBVIOUS
    <2>2. Changed(chain[n], status, chain[n].claimed \/ claimed, code) \in Entry
      BY <1>3, <2>1 DEF Changed, Entry, EndedStatuses
    <2>3. chain' \in [Ids -> Entry]
      BY <1>1, <1>2, <2>2 DEF Close
    <2> QED
      BY <1>1, <2>3 DEF TypeOK, ChainInv
  <1>6. Contiguous'
    BY <1>1, <1>2, <1>4 DEF ChainInv, Contiguous, LiveStatuses
  <1>6a. \A i \in Ids : /\ chain'[i].key = chain[i].key /\ chain'[i].level = chain[i].level
                        /\ chain'[i].parent = chain[i].parent
                        /\ IsLive(i)' => IsLive(i)
    BY <1>1, <1>2, <1>4 DEF IsLive, LiveStatuses
  <1>7. OneLive'
    BY <1>6a DEF ChainInv, OneLive
  <1>8. \A i \in Ids : Children(i)' = Children(i)
    BY <1>6a DEF Children
  <1>9. Succession'
    <2>1. \A i \in Ids : /\ chain'[i].key = chain[i].key /\ chain'[i].level = chain[i].level
                         /\ chain'[i].status = "superseded" <=> chain[i].status = "superseded"
      BY <1>1, <1>2, <1>4 DEF LiveStatuses
    <2>2. \A i \in Ids : Children(i) \subseteq Ids
      BY DEF Children
    <2> QED
      BY <1>8, <2>1, <2>2 DEF ChainInv, Succession
  <1>10. ClaimsOnRecord' /\ ClaimStopsTheClock'
    BY <1>2, <1>4 DEF ChainInv, ClaimsOnRecord, ClaimStopsTheClock, IsLive, LiveStatuses,
                      SweepCodes, CloseCodes
  <1> QED
    BY <1>5, <1>6, <1>7, <1>9, <1>10 DEF ChainInv

(* Moving a row up keeps it: the old row leaves the live set in the step that the  *)
(* new one enters it, and it had no successor before.                               *)
LEMMA MoveUpKeeps ==
  ASSUME ChainAssumption, ChainInv, NEW o \in Ids, NEW level \in Levels, NEW code \in MoveCodes,
         MoveUp(o, level, code)
  PROVE  ChainInv'
  <1> DEFINE n == nextId
  <1>1. /\ n \in Ids /\ n \in Int /\ chain \in [Ids -> Entry] /\ nextId' = n + 1
        /\ chain[n] = Unused /\ chain[o].status \in LiveStatuses /\ o # n /\ o < n
        /\ level >= chain[o].level
    BY DEF ChainAssumption, MoveUp, ChainInv, TypeOK, Contiguous, Ids, IsLive, Unused,
           LiveStatuses
  <1>2. /\ \A i \in Ids \ {n, o} : chain'[i] = chain[i]
        /\ chain'[n] = Fresh(chain[o].key, level, o)
        /\ chain'[o] = Changed(chain[o], "superseded", chain[o].claimed, code)
    BY <1>1 DEF MoveUp
  <1>3. chain[o] \in Entry
    BY <1>1
  <1>4. /\ chain'[o].status = "superseded" /\ chain'[o].code = code
        /\ chain'[o].key = chain[o].key /\ chain'[o].level = chain[o].level
        /\ chain'[o].parent = chain[o].parent /\ chain'[o].claimed = chain[o].claimed
    BY <1>1, <1>2, <1>3 DEF Changed
  <1>5. TypeOK'
    <2>1. Changed(chain[o], "superseded", chain[o].claimed, code) \in Entry
      BY <1>3 DEF Changed, Entry, EndedStatuses
    <2>2. Fresh(chain[o].key, level, o) \in Entry
      BY <1>3 DEF Fresh, Entry, LiveStatuses
    <2>3. chain' = [i \in Ids |-> IF i = n THEN Fresh(chain[o].key, level, o) ELSE
                                  IF i = o THEN Changed(chain[o], "superseded", chain[o].claimed, code)
                                  ELSE chain[i]]
      BY <1>1 DEF MoveUp
    <2>4. chain' \in [Ids -> Entry]
      BY <1>1, <2>1, <2>2, <2>3
    <2>5. nextId' \in 1..(MaxRows + 1)
      BY <1>1 DEF ChainAssumption, Ids
    <2> QED
      BY <2>4, <2>5 DEF TypeOK
  <1>6. Contiguous'
    <2> SUFFICES ASSUME NEW i \in Ids
                 PROVE  /\ i >= n + 1 <=> chain'[i].status = "unused"
                        /\ i >= n + 1 => chain'[i] = Unused
      BY <1>1 DEF Contiguous
    <2>1. CASE i = n
      BY <2>1, <1>1, <1>2 DEF Fresh
    <2>2. CASE i = o
      BY <2>2, <1>1, <1>4 DEF Ids
    <2>3. CASE i \notin {n, o}
      BY <2>3, <1>1, <1>2 DEF ChainInv, Contiguous, Ids
    <2> QED
      BY <2>1, <2>2, <2>3
  <1>4a. /\ chain'[n].key = chain[o].key /\ chain'[n].level = level /\ chain'[n].parent = o
         /\ chain'[n].status = "open" /\ ~chain'[n].claimed /\ chain'[n].code = "live"
    BY <1>1, <1>2 DEF Fresh
  <1>7. OneLive'
    <2>1. /\ \A i \in Ids \ {n} : IsLive(i)' => i # o /\ IsLive(i) /\ chain'[i].key = chain[i].key
          /\ IsLive(o) /\ chain'[n].key = chain[o].key
      BY <1>1, <1>2, <1>4, <1>4a DEF IsLive, LiveStatuses
    <2> SUFFICES ASSUME NEW i \in Ids, NEW j \in Ids, IsLive(i)', IsLive(j)',
                        chain'[i].key = chain'[j].key
                 PROVE  i = j
      BY DEF OneLive
    <2>2. CASE i # n /\ j # n
      BY <2>1, <2>2 DEF ChainInv, OneLive
    <2>3. CASE i = n /\ j # n
      BY <2>1, <2>3 DEF ChainInv, OneLive
    <2>4. CASE j = n /\ i # n
      BY <2>1, <2>4 DEF ChainInv, OneLive
    <2> QED
      BY <2>2, <2>3, <2>4
  <1>8. Succession'
    <2>0. /\ \A j \in Ids \ {n} : chain'[j].parent = chain[j].parent
          /\ chain'[n].parent = o /\ chain[n].parent \notin Ids
      <3>1. chain[n].parent = NoRow /\ NoRow \notin Ids
        BY <1>1 DEF Unused, NoRow, Ids
      <3>2. \A j \in Ids \ {n} : chain'[j].parent = chain[j].parent
        BY <1>2, <1>4
      <3> QED
        BY <3>1, <3>2, <1>4a
    <2>1. \A i \in Ids \ {o} : Children(i)' = Children(i)
      BY <1>1, <2>0 DEF Children
    <2>2. Children(o) = {}
      BY <1>1 DEF ChainInv, Succession, LiveStatuses
    <2>3. Children(o)' = {n}
      BY <1>1, <2>0, <2>2 DEF Children
    <2>4. \A i \in Ids : n \notin Children(i) /\ Children(i) \subseteq Ids
      BY <1>1 DEF Children, Unused, NoRow, Ids
    <2>5. Children(n) = {}
      BY <1>1 DEF ChainInv, Succession, Unused
    <2>6. \A i \in Ids \ {n} : chain'[i].key = chain[i].key /\ chain'[i].level = chain[i].level
      BY <1>2, <1>4
    <2> SUFFICES ASSUME NEW i \in Ids
                 PROVE  /\ chain'[i].status = "superseded" <=> Children(i)' # {}
                        /\ \A j \in Children(i)' : /\ i < j /\ chain'[j].key = chain'[i].key
                                                   /\ chain'[j].level >= chain'[i].level
                        /\ \A j, m \in Children(i)' : j = m
      BY DEF Succession
    <2>7. CASE i = n
      BY <2>7, <2>1, <2>5, <1>1, <1>2 DEF Fresh
    <2>8. CASE i = o
      BY <2>8, <2>3, <1>1, <1>2, <1>4 DEF Fresh
    <2>9. CASE i \notin {n, o}
      BY <2>9, <2>1, <2>4, <2>6, <1>2 DEF ChainInv, Succession
    <2> QED
      BY <2>7, <2>8, <2>9
  <1>9. ClaimsOnRecord'
    <2>1. \A i \in Ids : i \notin {n, o} => chain'[i] = chain[i]
      BY <1>2
    <2> QED
      BY <2>1, <1>4, <1>4a DEF ChainInv, ClaimsOnRecord, IsLive, LiveStatuses
  <1>10. ClaimStopsTheClock'
    BY <1>1, <1>2, <1>4 DEF MoveUp, ChainInv, ClaimStopsTheClock, Fresh, SweepCodes
  <1> QED
    BY <1>5, <1>6, <1>7, <1>8, <1>9, <1>10 DEF ChainInv

(* Every transaction of the engine keeps ChainInv. *)
LEMMA NextKeeps ==
  ASSUME ChainAssumption
  PROVE  ChainInv /\ [Next]_vars => ChainInv'
  <1> SUFFICES ASSUME ChainInv, [Next]_vars PROVE ChainInv'
    OBVIOUS
  <1>1. CASE UNCHANGED vars
    BY <1>1 DEF vars, ChainInv, TypeOK, Contiguous, OneLive, Succession, ClaimsOnRecord,
                ClaimStopsTheClock, IsLive, Children
  <1>2. CASE Next
    BY <1>2, RaiseKeeps, ClaimKeeps, CloseKeeps, MoveUpKeeps DEF Next
  <1> QED
    BY <1>1, <1>2

(* A row that exists goes on existing, for the same key and at the same level. *)
LEMMA RowsStay ==
  ChainInv /\ [Next]_vars =>
    \A e \in Ids : chain[e].status # "unused" =>
      /\ chain'[e].status # "unused" /\ chain'[e].level = chain[e].level
      /\ chain'[e].key = chain[e].key
  <1> SUFFICES ASSUME ChainInv, [Next]_vars, NEW e \in Ids, chain[e].status # "unused"
               PROVE  /\ chain'[e].status # "unused" /\ chain'[e].level = chain[e].level
                      /\ chain'[e].key = chain[e].key
    OBVIOUS
  <1>1. chain \in [Ids -> Entry] /\ (nextId \in Ids => e # nextId)
    BY DEF ChainInv, TypeOK, Contiguous, Ids
  <1>2. CASE UNCHANGED vars
    BY <1>2 DEF vars
  <1> DEFINE Stays == /\ chain'[e].status # "unused" /\ chain'[e].level = chain[e].level
                      /\ chain'[e].key = chain[e].key
  <1>a. ASSUME NEW status \in {"acknowledged", "resolved", "withdrawn", "superseded"}, NEW claimed, NEW code,
               chain'[e] = chain[e] \/ chain'[e] = Changed(chain[e], status, claimed, code)
        PROVE  Stays
    BY <1>a DEF Changed
  <1> HIDE DEF Stays
  <1>3. ASSUME NEW k \in Keys, NEW level \in Levels, Raise(k, level) PROVE Stays
    <2>1. chain'[e] = chain[e]
      BY <1>1, <1>3 DEF Raise
    <2> QED
      BY <1>a, <2>1
  <1>4. ASSUME NEW i \in Ids, Claim(i) PROVE Stays
    <2>1. chain'[e] = chain[e] \/ chain'[e] = Changed(chain[e], "acknowledged", TRUE, chain[e].code)
      BY <1>1, <1>4 DEF Claim
    <2> QED
      BY <1>a, <2>1
  <1>5. ASSUME NEW i \in Ids, NEW status \in {"resolved", "withdrawn"}, NEW code, NEW claimed,
               Close(i, status, code, claimed)
        PROVE  Stays
    <2> DEFINE c == chain[e].claimed \/ claimed
    <2>1. chain'[e] = chain[e] \/ chain'[e] = Changed(chain[e], status, c, code)
      BY <1>1, <1>5 DEF Close
    <2> HIDE DEF c
    <2> QED
      BY <1>a, <2>1
  <1>6. ASSUME NEW i \in Ids, NEW level, NEW code, MoveUp(i, level, code) PROVE Stays
    <2>1. chain'[e] = chain[e] \/ chain'[e] = Changed(chain[e], "superseded", chain[e].claimed, code)
      BY <1>1, <1>6 DEF MoveUp
    <2> QED
      BY <1>a, <2>1
  <1>7. ASSUME Next PROVE Stays
    BY <1>3, <1>4, <1>5, <1>6, <1>7 DEF Next
  <1> QED
    BY <1>2, <1>7 DEF Stays

(* Every state of the table has one live row per key, whole chains, and claims that *)
(* the clock never overrides: what raise, acknowledge, resolve, withdraw and         *)
(* escalateFurther keep true together.                                               *)
THEOREM ChainsInvariant ==
  ASSUME ChainAssumption
  PROVE  Spec => []ChainInv
  BY InitChainInv, NextKeeps, PTL DEF Spec

(* No transaction changes a row that has ended. *)
THEOREM EndedRowsAreFinal ==
  ASSUME ChainAssumption
  PROVE  Spec => EndedIsFinal
  <1>1. ChainInv /\ [Next]_vars =>
          [\A i \in Ids : chain[i].status \in EndedStatuses => chain'[i] = chain[i]]_vars
    <2> SUFFICES ASSUME ChainInv, Next, NEW e \in Ids, chain[e].status \in EndedStatuses
                 PROVE  chain'[e] = chain[e]
      OBVIOUS
    <2>1. chain \in [Ids -> Entry] /\ chain[e].status \notin LiveStatuses
      BY DEF ChainInv, TypeOK, EndedStatuses, LiveStatuses
    <2>2. nextId \in Ids => e # nextId
      BY DEF ChainInv, Contiguous, TypeOK, EndedStatuses, Ids
    <2>3. ASSUME NEW k \in Keys, NEW level \in Levels, Raise(k, level) PROVE chain'[e] = chain[e]
      BY <2>1, <2>2, <2>3 DEF Raise
    <2>4. ASSUME NEW i \in Ids, Claim(i) PROVE chain'[e] = chain[e]
      BY <2>1, <2>4 DEF Claim, LiveStatuses
    <2>5. ASSUME NEW i \in Ids, NEW status, NEW code, NEW claimed, Close(i, status, code, claimed)
          PROVE chain'[e] = chain[e]
      BY <2>1, <2>5 DEF Close, IsLive
    <2>6. ASSUME NEW i \in Ids, NEW level, NEW code, MoveUp(i, level, code)
          PROVE chain'[e] = chain[e]
      BY <2>1, <2>2, <2>6 DEF MoveUp, IsLive
    <2> QED
      BY <2>3, <2>4, <2>5, <2>6 DEF Next
  <1> QED
    BY <1>1, ChainsInvariant, PTL DEF Spec, EndedIsFinal
=============================================================================
