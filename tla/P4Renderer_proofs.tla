------------------------- MODULE P4Renderer_proofs -------------------------
(***************************************************************************)
(* Proofs about P4Renderer, for every depth of the access unit queue and    *)
(* every number of leases.                                                  *)
(***************************************************************************)
EXTENDS P4Renderer, FiniteSetTheorems, SequenceTheorems, WellFoundedInduction, TLAPS

\* A step the SMT encoding of Boolean variables needs spelled out.
LEMMA FalseIsBoolean == \A x : x = FALSE => x \in BOOLEAN
  BY Zenon

SlotTable == [1..Slots -> SlotRecord]

-----------------------------------------------------------------------------
(* The slot table, the queue and the first free slot. *)

\* A set of naturals that is not empty has a least element, and Min is it.
LEMMA LeastElement ==
  ASSUME NEW T, T \subseteq Nat, T # {}
  PROVE  Min(T) \in T
<1> DEFINE Less2 == {p \in Nat \X Nat : p[1] < p[2]}
<1>1. IsWellFoundedOn(Less2, Nat)
  BY NatLessThanWellFounded, Zenon DEF OpToRel
<1>2. PICK x \in T : \A y \in T : ~ (<<y, x>> \in Less2)
  <2> HIDE DEF Less2
  <2> QED
    BY <1>1, WFMin
<1>3. \A y \in T : x <= y
  <2> TAKE y \in T
  <2>1. x \in Nat /\ y \in Nat
    OBVIOUS
  <2>2. y < x => <<y, x>> \in Less2
    BY <2>1
  <2>3. QED
    BY <1>2, <2>1, <2>2
<1>4. QED
  BY <1>3 DEF Min

\* Giving a slot another state changes nothing else of it.
LEMMA StateChange ==
  ASSUME NEW r \in SlotRecord, NEW x \in 0..2
  PROVE  LET v == [r EXCEPT !.state = x]
         IN  v \in SlotRecord /\ v.state = x /\ v.lease = r.lease
  BY DEF SlotRecord

\* A record that bears generations of the past keeps its state and its lease.
LEMMA RevokedSlot ==
  ASSUME NEW r \in SlotRecord
  PROVE  LET v == [r EXCEPT !.session = FALSE, !.intact = FALSE]
         IN  v \in SlotRecord /\ v.state = r.state /\ v.lease = r.lease
  BY Zenon DEF SlotRecord

\* A record that bears a loss, too.
LEMMA LostSlot ==
  ASSUME NEW r \in SlotRecord
  PROVE  LET v == [r EXCEPT !.intact = FALSE]
         IN  v \in SlotRecord /\ v.state = r.state /\ v.lease = r.lease
  BY Zenon DEF SlotRecord

\* A loss marks every slot and leaves the states and the leases alone.
LEMMA LostSlots ==
  ASSUME NEW s \in SlotTable
  PROVE  /\ Lost(s) \in SlotTable
         /\ \A i \in 1..Slots : Lost(s)[i].state = s[i].state /\ Lost(s)[i].lease = s[i].lease
<1>1. \A i \in 1..Slots : Lost(s)[i] = [s[i] EXCEPT !.intact = FALSE] /\ s[i] \in SlotRecord
  BY DEF Lost, SlotTable
<1>2. \A i \in 1..Slots : /\ Lost(s)[i] \in SlotRecord
                          /\ Lost(s)[i].state = s[i].state /\ Lost(s)[i].lease = s[i].lease
  BY <1>1, LostSlot, Zenon
<1>3. Lost(s) = [i \in 1..Slots |-> Lost(s)[i]]
  BY DEF Lost
<1>4. QED
  BY <1>2, <1>3 DEF SlotTable

\* So does a new session.
LEMMA RevokedSlots ==
  ASSUME NEW s \in SlotTable
  PROVE  /\ Revoked(s) \in SlotTable
         /\ \A i \in 1..Slots : /\ Revoked(s)[i].state = s[i].state
                                /\ Revoked(s)[i].lease = s[i].lease
<1>1. \A i \in 1..Slots : /\ Revoked(s)[i] = [s[i] EXCEPT !.session = FALSE, !.intact = FALSE]
                          /\ s[i] \in SlotRecord
  BY DEF Revoked, SlotTable
<1>2. \A i \in 1..Slots : /\ Revoked(s)[i] \in SlotRecord
                          /\ Revoked(s)[i].state = s[i].state
                          /\ Revoked(s)[i].lease = s[i].lease
  BY <1>1, RevokedSlot, Zenon
<1>3. Revoked(s) = [i \in 1..Slots |-> Revoked(s)[i]]
  BY DEF Revoked
<1>4. QED
  BY <1>2, <1>3 DEF SlotTable

\* Taking a slot changes its state only.
LEMMA TakenSlot ==
  ASSUME NEW s \in SlotTable, NEW j \in 1..Slots
  PROVE  LET t == [s EXCEPT ![j].state = 2]
         IN  /\ t \in SlotTable
             /\ \A i \in 1..Slots : /\ t[i].state = IF i = j THEN 2 ELSE s[i].state
                                    /\ t[i].lease = s[i].lease
<1> DEFINE r == [s[j] EXCEPT !.state = 2]
           t == [s EXCEPT ![j].state = 2]
<1>1. r \in SlotRecord /\ r.state = 2 /\ r.lease = s[j].lease
  <2>1. s[j] \in SlotRecord /\ 2 \in 0..2
    BY DEF SlotTable
  <2>2. QED
    BY <2>1, StateChange, Zenon
<1>2. t = [s EXCEPT ![j] = r]
  OBVIOUS
<1> HIDE DEF r, t
<1>3. /\ t \in SlotTable
      /\ \A i \in 1..Slots : /\ t[i].state = IF i = j THEN 2 ELSE s[i].state
                             /\ t[i].lease = s[i].lease
  BY <1>1, <1>2 DEF SlotTable
<1>4. QED
  BY <1>3 DEF t

\* Storing a record in a slot leaves the other slots alone.
LEMMA StoredSlot ==
  ASSUME NEW s \in SlotTable, NEW j \in 1..Slots, NEW r \in SlotRecord
  PROVE  LET t == [s EXCEPT ![j] = r]
         IN  t \in SlotTable /\ \A i \in 1..Slots : t[i] = IF i = j THEN r ELSE s[i]
  BY SMT DEF SlotTable

\* The record of a slot that nobody uses, and of one whose lease went back.
LEMMA EmptySlots ==
  /\ EmptySlot \in SlotRecord /\ EmptySlot.lease = 0 /\ EmptySlot.state = 0
  /\ [EmptySlot EXCEPT !.state = 2] \in SlotRecord
  /\ [EmptySlot EXCEPT !.state = 2].lease = 0 /\ [EmptySlot EXCEPT !.state = 2].state = 2
  /\ [i \in 1..Slots |-> EmptySlot] \in SlotTable
<1>1. EmptySlot \in SlotRecord /\ EmptySlot.lease = 0 /\ EmptySlot.state = 0
  BY RendererAssumption, SMT DEF SlotRecord, EmptySlot
<1>2. /\ [EmptySlot EXCEPT !.state = 2] \in SlotRecord
      /\ [EmptySlot EXCEPT !.state = 2].lease = 0 /\ [EmptySlot EXCEPT !.state = 2].state = 2
  <2>1. 2 \in 0..2
    OBVIOUS
  <2>2. QED
    BY <1>1, <2>1, StateChange, Zenon
<1>3. [i \in 1..Slots |-> EmptySlot] \in SlotTable
  BY <1>1, Zenon DEF SlotTable
<1>4. QED
  BY <1>1, <1>2, <1>3

\* A queue without duplicates is no longer than there are slots.
LEMMA InjectiveLength ==
  ASSUME NEW q \in Seq(1..Slots), IsInjective(q)
  PROVE  Len(q) <= Slots
<1>1. Len(q) \in Nat /\ DOMAIN q = 1..Len(q) /\ q \in [1..Len(q) -> 1..Slots]
  BY LenProperties
<1>2. q \in Injection(1..Len(q), 1..Slots)
  BY <1>1 DEF Injection
<1>3. IsFiniteSet(1..Slots) /\ Cardinality(1..Slots) = Slots
  <2>1. Slots \in Nat /\ 1 \in Int /\ Slots \in Int
    BY RendererAssumption
  <2>2. IsFiniteSet(1..Slots) /\ Cardinality(1..Slots) = IF 1 > Slots THEN 0 ELSE Slots - 1 + 1
    BY <2>1, FS_Interval, Zenon
  <2>3. QED
    BY <2>1, <2>2
<1>4. Cardinality(1..Len(q)) = Len(q)
  <2>1. Cardinality(1..Len(q)) = IF 1 > Len(q) THEN 0 ELSE Len(q) - 1 + 1
    BY <1>1, FS_Interval
  <2>2. QED
    BY <1>1, <2>1
<1>5. QED
  BY <1>2, <1>3, <1>4, FS_Injection

\* Appending a slot that is not in the queue.
LEMMA AppendedSlot ==
  ASSUME NEW q \in Seq(1..Slots), IsInjective(q), NEW x \in 1..Slots, x \notin Range(q)
  PROVE  /\ Append(q, x) \in Seq(1..Slots) /\ Append(q, x) # <<>>
         /\ IsInjective(Append(q, x)) /\ Range(Append(q, x)) = Range(q) \cup {x}
<1> DEFINE r == Append(q, x)
<1>1. /\ r \in Seq(1..Slots) /\ Len(r) = Len(q) + 1
      /\ \A i \in 1..Len(q) : r[i] = q[i]
      /\ r[Len(r)] = x
  BY AppendProperties
<1>2. DOMAIN q = 1..Len(q) /\ DOMAIN r = 1..Len(r) /\ Len(q) \in Nat
  BY <1>1, LenProperties
<1> HIDE DEF r
<1>3. \A i \in DOMAIN r : i \in DOMAIN q \/ i = Len(r)
  BY <1>1, <1>2
<1>4. Range(r) = Range(q) \cup {x}
  <2>1. \A i \in DOMAIN q : i \in DOMAIN r /\ r[i] = q[i]
    BY <1>1, <1>2
  <2>2. Len(r) \in DOMAIN r
    BY <1>1, <1>2
  <2>3. QED
    BY <1>1, <1>3, <2>1, <2>2 DEF Range
<1>5. IsInjective(r)
  <2> SUFFICES ASSUME NEW a \in DOMAIN r, NEW b \in DOMAIN r, r[a] = r[b] PROVE a = b
    BY DEF IsInjective
  <2>1. \A i \in DOMAIN q : q[i] # x
    BY DEF Range
  <2>2. QED
    BY <1>1, <1>2, <1>3, <2>1 DEF IsInjective
<1>6. r # <<>>
  BY <1>1, <1>2
<1>7. QED
  BY <1>1, <1>4, <1>5, <1>6 DEF r

\* Taking the first slot of the queue.
LEMMA TakenHead ==
  ASSUME NEW q \in Seq(1..Slots), IsInjective(q), q # <<>>
  PROVE  /\ Head(q) \in 1..Slots /\ Head(q) \in Range(q)
         /\ Tail(q) \in Seq(1..Slots) /\ Len(Tail(q)) = Len(q) - 1
         /\ IsInjective(Tail(q)) /\ Range(Tail(q)) = Range(q) \ {Head(q)}
<1> DEFINE r == Tail(q)
<1>1. /\ r \in Seq(1..Slots) /\ Len(r) = Len(q) - 1 /\ Head(q) = q[1]
      /\ \A i \in 1..Len(r) : r[i] = q[i + 1]
  BY HeadTailProperties
<1>2. /\ DOMAIN q = 1..Len(q) /\ DOMAIN r = 1..Len(r) /\ Len(q) \in Nat /\ Len(q) >= 1
      /\ q \in [1..Len(q) -> 1..Slots]
  <2>1. Len(q) \in Nat \ {0}
    BY EmptySeq
  <2>2. DOMAIN q = 1..Len(q) /\ q \in [1..Len(q) -> 1..Slots]
    BY LenProperties
  <2>3. DOMAIN r = 1..Len(r)
    BY <1>1, LenProperties, Zenon
  <2>4. QED
    BY <2>1, <2>2, <2>3
<1> HIDE DEF r
<1>3. \A i \in DOMAIN r : i + 1 \in DOMAIN q /\ i + 1 # 1 /\ r[i] = q[i + 1]
  BY <1>1, <1>2
<1>4. \A i \in DOMAIN q : i = 1 \/ (i - 1 \in DOMAIN r /\ r[i - 1] = q[i])
  <2> TAKE i \in DOMAIN q
  <2> SUFFICES ASSUME i # 1 PROVE i - 1 \in DOMAIN r /\ r[i - 1] = q[i]
    OBVIOUS
  <2>1. i - 1 \in 1..Len(r) /\ (i - 1) + 1 = i
    BY <1>1, <1>2
  <2>2. QED
    BY <1>1, <1>2, <2>1
<1>5. 1 \in DOMAIN q /\ Head(q) \in 1..Slots /\ Head(q) \in Range(q)
  BY <1>1, <1>2 DEF Range
<1>6. Range(r) = Range(q) \ {Head(q)}
  <2>1. \A x \in Range(r) : x \in Range(q) /\ x # Head(q)
    BY <1>1, <1>3, <1>5 DEF Range, IsInjective
  <2>2. \A x \in Range(q) : x # Head(q) => x \in Range(r)
    BY <1>1, <1>4 DEF Range
  <2>3. QED
    BY <2>1, <2>2
<1>7. IsInjective(r)
  <2> SUFFICES ASSUME NEW a \in DOMAIN r, NEW b \in DOMAIN r, r[a] = r[b] PROVE a = b
    BY DEF IsInjective
  <2>1. a + 1 = b + 1
    BY <1>3 DEF IsInjective
  <2>2. QED
    BY <1>1, <1>2, <2>1
<1>8. QED
  BY <1>1, <1>5, <1>6, <1>7 DEF r

\* No step lets anything become pending while a surface is painted.
LEMMA BackSurfaceStep ==
  RendererInv /\ [Next]_vars => BackSurfaceReserved'
<1> SUFFICES ASSUME RendererInv, [Next]_vars PROVE BackSurfaceReserved'
  OBVIOUS
<1> USE DEF RendererInv, TypeOK, WorkerRecord, LoopRecord, BackSurfaceReserved, None,
        HoldingPlaces, WorkerPlaces, stateVars, slotVars, surfaceVars, uiVars
<1>1. ASSUME NEW key \in BOOLEAN, Claim(key) PROVE BackSurfaceReserved'
  BY <1>1, SMT DEF Claim, Admits
<1>2. ASSUME NEW key \in BOOLEAN, Overflow(key) PROVE BackSurfaceReserved'
  BY <1>2, SMT DEF Overflow, Admits, Lost
<1>3. CASE Send
  BY <1>3, SMT DEF Send
<1>4. CASE OpenAdmission
  BY <1>4, SMT DEF OpenAdmission
<1>5. CASE Notify
  BY <1>5, SMT DEF Notify, IdleRtp
<1>6. CASE WorkerWakes
  BY <1>6, SMT DEF WorkerWakes, Goes
<1>7. CASE WorkerTakes
  BY <1>7, SMT DEF WorkerTakes
<1>8. CASE WorkerDrained
  BY <1>8, SMT DEF WorkerDrained, Goes
<1>9. CASE WorkerResets
  BY <1>9, SMT DEF WorkerResets, Goes, Mine
<1>10. CASE WorkerDecodes
  BY <1>10, SMT DEF WorkerDecodes, Goes, Current, Mine
<1>11. CASE WorkerFails
  BY <1>11, SMT DEF WorkerFails, Goes, Lost
<1>12. CASE WorkerRenders
  <2>1. CASE pending = None
    <3>1. worker' = [worker EXCEPT !.at = "paint", !.target = 1 - front]
      BY <1>12, <2>1, SMT DEF WorkerRenders
    <3>2. UNCHANGED <<pending, front, loop>>
      BY <1>12, SMT DEF WorkerRenders
    <3>3. QED
      BY <2>1, <3>1, <3>2, SMT
  <2>2. CASE pending # None
    BY <1>12, <2>2, SMT DEF WorkerRenders, Goes
  <2>3. QED
    BY <2>1, <2>2
<1>13. CASE WorkerLocks
  <2>1. CASE worker'.at = "publish" /\ worker' = [worker EXCEPT !.at = "publish"]
    BY <1>13, <2>1, SMT DEF WorkerLocks
  <2>2. CASE worker' = [worker EXCEPT !.at = "settle", !.target = 0]
    BY <1>13, <2>2, SMT DEF WorkerLocks
  <2>3. QED
    BY <1>13, <2>1, <2>2, Zenon DEF WorkerLocks, Goes
<1>14. CASE WorkerPublishes
  BY <1>14, SMT DEF WorkerPublishes, Goes
<1>15. CASE WorkerPresents
  BY <1>15, SMT DEF WorkerPresents, Draw
<1>16. CASE WorkerSettles
  BY <1>16, SMT DEF WorkerSettles, Goes, Mine
<1>17. CASE WorkerAdmits
  BY <1>17, SMT DEF WorkerAdmits, Goes
<1>18. CASE WorkerReleases
  BY <1>18, SMT DEF WorkerReleases, Goes, Mine
<1>19. CASE WorkerFrees
  BY <1>19, SMT DEF WorkerFrees
<1>20. CASE WorkerExits
  BY <1>20, SMT DEF WorkerExits, Goes
<1>21. CASE LoopBegins
  BY <1>21, SMT DEF LoopBegins
<1>22. CASE LoopBlocked
  BY <1>22, SMT DEF LoopBlocked
<1>23. CASE LoopLocks
  <2>1. CASE running /\ active /\ pending # None
    <3>1. loop' = [loop EXCEPT !.at = "mark", !.index = pending]
      BY <1>23, <2>1, SMT DEF LoopLocks
    <3>2. UNCHANGED <<pending, front, worker>>
      BY <1>23, SMT DEF LoopLocks
    <3>3. QED
      BY <2>1, <3>1, <3>2, SMT
  <2>2. CASE ~(running /\ active /\ pending # None)
    BY <1>23, <2>2, SMT DEF LoopLocks
  <2>3. QED
    BY <2>1, <2>2
<1>24. CASE LoopMarks
  BY <1>24, SMT DEF LoopMarks
<1>25. CASE LoopDraws
  BY <1>25, SMT DEF LoopDraws, Draw
<1>26. CASE LoopEnds
  BY <1>26, SMT DEF LoopEnds
<1>27. CASE StartVideo
  BY <1>27, SMT DEF StartVideo
<1>28. CASE Activate
  BY <1>28, SMT DEF Activate, Does
<1>29. CASE AskKey
  BY <1>29, SMT DEF AskKey, Does
<1>30. CASE Deactivate
  BY <1>30, SMT DEF Deactivate
<1>31. CASE StopVideo
  BY <1>31, SMT DEF StopVideo
<1>32. CASE Revoke
  BY <1>32, SMT DEF Revoke
<1>33. CASE ClearBusy
  BY <1>33, SMT DEF ClearBusy, Does
<1>34. CASE Clear
  BY <1>34, SMT DEF Clear, Does
<1>35. CASE Finish
  BY <1>35, SMT DEF Finish
<1>36. CASE Shutdown
  BY <1>36, SMT DEF Shutdown
<1>37. CASE UNCHANGED vars
  BY <1>37, SMT DEF vars
<1>38. QED
  BY <1>1, <1>2, <1>3, <1>4, <1>5, <1>6, <1>7, <1>8, <1>9, <1>10, <1>11, <1>12, <1>13,
     <1>14, <1>15, <1>16, <1>17, <1>18, <1>19, <1>20, <1>21, <1>22, <1>23, <1>24, <1>25,
     <1>26, <1>27, <1>28, <1>29, <1>30, <1>31, <1>32, <1>33, <1>34, <1>35, <1>36, <1>37
  DEF Next, Consume, Worker, MainLoop, Control

\* Every step that ends a stream on the video page reports it or is on the way to.
LEMMA EndStep ==
  RendererInv /\ [Next]_vars => EndOnItsWay'
<1> SUFFICES ASSUME RendererInv, [Next]_vars PROVE EndOnItsWay'
  OBVIOUS
<1> USE DEF RendererInv, TypeOK, ControlRecord, LoopRecord, EndOnItsWay, ControlPlaces, None,
        stateVars, slotVars, surfaceVars, uiVars
<1>1. ASSUME NEW key \in BOOLEAN, Claim(key) PROVE EndOnItsWay'
  BY <1>1, SMT DEF Claim, Admits
<1>2. ASSUME NEW key \in BOOLEAN, Overflow(key) PROVE EndOnItsWay'
  BY <1>2, SMT DEF Overflow, Admits, Lost
<1>3. CASE Send
  BY <1>3, SMT DEF Send
<1>4. CASE OpenAdmission
  BY <1>4, SMT DEF OpenAdmission
<1>5. CASE Notify
  BY <1>5, SMT DEF Notify, IdleRtp
<1>6. CASE WorkerWakes
  BY <1>6, SMT DEF WorkerWakes, Goes
<1>7. CASE WorkerTakes
  BY <1>7, SMT DEF WorkerTakes
<1>8. CASE WorkerDrained
  BY <1>8, SMT DEF WorkerDrained, Goes
<1>9. CASE WorkerResets
  <2>1. CASE UNCHANGED <<running, worker>>
    BY <1>9, <2>1, SMT DEF WorkerResets
  <2>2. CASE running' = FALSE
    BY <1>9, <2>2, SMT DEF WorkerResets
  <2>3. QED
    BY <1>9, <2>1, <2>2, Zenon DEF WorkerResets
<1>10. CASE WorkerDecodes
  BY <1>10, SMT DEF WorkerDecodes, Goes, Current, Mine
<1>11. CASE WorkerFails
  BY <1>11, SMT DEF WorkerFails, Goes, Lost
<1>12. CASE WorkerRenders
  BY <1>12, SMT DEF WorkerRenders, Goes
<1>13. CASE WorkerLocks
  BY <1>13, SMT DEF WorkerLocks, Goes, Current, Mine
<1>14. CASE WorkerPublishes
  BY <1>14, SMT DEF WorkerPublishes, Goes
<1>15. CASE WorkerPresents
  BY <1>15, SMT DEF WorkerPresents, Draw
<1>16. CASE WorkerSettles
  BY <1>16, SMT DEF WorkerSettles, Goes, Mine
<1>17. CASE WorkerAdmits
  BY <1>17, SMT DEF WorkerAdmits, Goes
<1>18. CASE WorkerReleases
  BY <1>18, SMT DEF WorkerReleases, Goes, Mine
<1>19. CASE WorkerFrees
  BY <1>19, SMT DEF WorkerFrees
<1>20. CASE WorkerExits
  BY <1>20, SMT DEF WorkerExits, Goes
<1>21. CASE LoopBegins
  BY <1>21, SMT DEF LoopBegins
<1>22. CASE LoopBlocked
  BY <1>22, SMT DEF LoopBlocked
<1>23. CASE LoopLocks
  BY <1>23, SMT DEF LoopLocks
<1>24. CASE LoopMarks
  BY <1>24, SMT DEF LoopMarks
<1>25. CASE LoopDraws
  BY <1>25, SMT DEF LoopDraws, Draw
<1>26. CASE LoopEnds
  BY <1>26, SMT DEF LoopEnds
<1>27. CASE StartVideo
  BY <1>27, SMT DEF StartVideo
<1>28. CASE Activate
  BY <1>28, SMT DEF Activate, Does
<1>29. CASE AskKey
  BY <1>29, SMT DEF AskKey, Does
<1>30. CASE Deactivate
  BY <1>30, SMT DEF Deactivate
<1>31. CASE StopVideo
  BY <1>31, SMT DEF StopVideo
<1>32. CASE Revoke
  BY <1>32, SMT DEF Revoke
<1>33. CASE ClearBusy
  BY <1>33, SMT DEF ClearBusy, Does
<1>34. CASE Clear
  BY <1>34, SMT DEF Clear, Does
<1>35. CASE Finish
  BY <1>35, SMT DEF Finish
<1>36. CASE Shutdown
  BY <1>36, SMT DEF Shutdown
<1>37. CASE UNCHANGED vars
  BY <1>37, SMT DEF vars
<1>38. QED
  BY <1>1, <1>2, <1>3, <1>4, <1>5, <1>6, <1>7, <1>8, <1>9, <1>10, <1>11, <1>12, <1>13,
     <1>14, <1>15, <1>16, <1>17, <1>18, <1>19, <1>20, <1>21, <1>22, <1>23, <1>24, <1>25,
     <1>26, <1>27, <1>28, <1>29, <1>30, <1>31, <1>32, <1>33, <1>34, <1>35, <1>36, <1>37
  DEF Next, Consume, Worker, MainLoop, Control

\* Where the threads go next, their records stay well formed.
LEMMA WorkerUpdates ==
  ASSUME NEW w \in WorkerRecord, NEW p \in WorkerPlaces, NEW i \in 0..Slots, NEW x \in {0, 1}
  PROVE  /\ [w EXCEPT !.at = p, !.target = x] \in WorkerRecord
         /\ [w EXCEPT !.at = p, !.slot = i] \in WorkerRecord
         /\ [w EXCEPT !.slot = i, !.at = p] \in WorkerRecord
  BY DEF WorkerRecord

\* The same for the main loop.
LEMMA LoopUpdates ==
  ASSUME NEW l \in LoopRecord, NEW p \in LoopPlaces
  PROVE  /\ \A i \in {None, 0, 1} : [l EXCEPT !.at = p, !.index = i] \in LoopRecord
         /\ \A b \in BOOLEAN : [l EXCEPT !.at = p, !.first = b] \in LoopRecord
  BY Zenon DEF LoopRecord

\* The same for the RTP worker.
LEMMA RtpUpdates ==
  ASSUME NEW r \in RtpRecord, NEW p \in RtpPlaces
  PROVE  [r EXCEPT !.at = p, !.slot = 0, !.lease = 0] \in RtpRecord
<1>1. 0 \in 0..Slots /\ 0 \in 0..Leases
  BY RendererAssumption
<1>2. QED
  BY <1>1 DEF RtpRecord

\* The same for the media lock holder.
LEMMA ControlUpdates ==
  ASSUME NEW c \in ControlRecord, NEW p \in ControlPlaces, NEW b \in BOOLEAN
  PROVE  [c EXCEPT !.at = p, !.was = b] \in ControlRecord
  BY DEF ControlRecord

\* A unit that is queued.
LEMMA QueuedRecord ==
  ASSUME NEW l \in 1..Leases, NEW k \in BOOLEAN
  PROVE  [state |-> 1, lease |-> l, session |-> TRUE, intact |-> TRUE, key |-> k] \in SlotRecord
  BY SMT DEF SlotRecord

\* What a claim finds: a free slot, and a lease that is not lent.
LEMMA Claimed ==
  ASSUME NEW key \in BOOLEAN, Claim(key), TypeOK
  PROVE  /\ Min(FreeSlot) \in 1..Slots /\ slots[Min(FreeSlot)].state = 0
         /\ FreeLease \in (1..Leases) \ lent /\ running
<1>1. FreeSlot # {} /\ FreeSlot \subseteq 1..Slots /\ 1..Slots \subseteq Nat
  <2>1. FreeSlot # {} /\ FreeSlot \subseteq 1..Slots
    BY Zenon DEF Claim, FreeSlot
  <2>2. 1..Slots \subseteq Nat
    BY RendererAssumption
  <2>3. QED
    BY <2>1, <2>2
<1>2. Min(FreeSlot) \in FreeSlot
  BY <1>1, LeastElement
<1> DEFINE free == (1..Leases) \ lent
<1>3. free # {} /\ free \subseteq Nat
  <2>1. lent # 1..Leases /\ lent \subseteq 1..Leases
    BY Zenon DEF Claim, TypeOK
  <2>2. 1..Leases \subseteq Nat
    BY RendererAssumption
  <2>3. QED
    BY <2>1, <2>2
<1>4. Min(free) \in free
  <2> HIDE DEF free
  <2> QED
    BY <1>3, LeastElement
<1>5. running
  BY DEF Claim, Admits
<1>6. QED
  BY <1>2, <1>4, <1>5 DEF FreeLease, FreeSlot

\* Every step keeps the types, the room of the queue included.
LEMMA TypeStep ==
  RendererInv /\ [Next]_vars => TypeOK'
<1> SUFFICES ASSUME RendererInv, [Next]_vars PROVE TypeOK'
  OBVIOUS
<1> USE DEF RendererInv, TypeOK, RtpRecord, WorkerRecord, LoopRecord, ControlRecord, RtpPlaces,
        HoldingPlaces, WorkerPlaces, LoopPlaces, ControlPlaces, None, stateVars, slotVars,
        surfaceVars, uiVars
<1>1. ASSUME NEW key \in BOOLEAN, Claim(key) PROVE TypeOK'
  <2>1. Min(FreeSlot) \in 1..Slots /\ FreeLease \in 1..Leases
    BY <1>1, Claimed
  <2>2. slots' \in [1..Slots -> SlotRecord]
    BY <1>1, <2>1, TakenSlot, Zenon DEF Claim, SlotTable
  <2>3. rtp' \in RtpRecord
    BY <1>1, <2>1, SMT DEF Claim
  <2>4. QED
    BY <1>1, <2>2, <2>3, SMT DEF Claim
<1>2. ASSUME NEW key \in BOOLEAN, Overflow(key) PROVE TypeOK'
  <2>1. slots' \in [1..Slots -> SlotRecord]
    BY <1>2, LostSlots, Zenon DEF Overflow, SlotTable
  <2>2. QED
    BY <1>2, <2>1, FalseIsBoolean, SMT DEF Overflow
<1>3. CASE Send
  <2>1. /\ rtp.slot \in 1..Slots /\ rtp.lease \in 1..Leases
        /\ IsInjective(queue) /\ rtp.slot \notin Range(queue)
    BY <1>3, Zenon DEF Send, SlotsHaveOneOwner, Filling, Queued
  <2>2. /\ queue' \in Seq(1..Slots) /\ IsInjective(queue')
    BY <1>3, <2>1, AppendedSlot, Zenon DEF Send
  <2>3. Len(queue') <= Slots
    BY <2>2, InjectiveLength
  <2>4. slots' \in [1..Slots -> SlotRecord]
    <3> DEFINE r == [state |-> 1, lease |-> rtp.lease, session |-> TRUE, intact |-> TRUE,
                     key |-> rtp.key]
    <3>1. r \in SlotRecord
      <4>1. rtp.key \in BOOLEAN
        BY SMT
      <4>2. QED
        BY <2>1, <4>1, QueuedRecord, Zenon
    <3>2. slots' = [slots EXCEPT ![rtp.slot] = r]
      BY <1>3, Zenon DEF Send
    <3> HIDE DEF r
    <3>3. QED
      BY <2>1, <3>1, <3>2, StoredSlot, Zenon DEF SlotTable
  <2>5. rtp' \in RtpRecord
    <3>1. rtp' = [rtp EXCEPT !.at = "open", !.slot = 0, !.lease = 0]
      BY <1>3, Zenon DEF Send
    <3>2. rtp \in RtpRecord /\ "open" \in RtpPlaces
      OBVIOUS
    <3>3. QED
      BY <3>1, <3>2, RtpUpdates, Zenon
  <2>6. QED
    BY <1>3, <2>1, <2>2, <2>3, <2>4, <2>5, SMT DEF Send
<1>4. CASE OpenAdmission
  BY <1>4, FalseIsBoolean, SMT DEF OpenAdmission
<1>5. CASE Notify
  <2>1. rtp' \in RtpRecord
    BY <1>5, RendererAssumption, SMT DEF Notify, IdleRtp
  <2>2. QED
    BY <1>5, <2>1, FalseIsBoolean, SMT DEF Notify
<1>6. CASE WorkerWakes
  BY <1>6, FalseIsBoolean, SMT DEF WorkerWakes, Goes
<1>7. CASE WorkerTakes
  <2>1. IsInjective(queue) /\ queue # <<>>
    BY <1>7, Zenon DEF WorkerTakes, SlotsHaveOneOwner
  <2>2. /\ Head(queue) \in 1..Slots /\ queue' \in Seq(1..Slots) /\ IsInjective(queue')
    BY <1>7, <2>1, TakenHead, Zenon DEF WorkerTakes
  <2>3. Len(queue') <= Slots
    BY <2>2, InjectiveLength
  <2>4. slots' \in [1..Slots -> SlotRecord]
    BY <1>7, <2>2, TakenSlot, Zenon DEF WorkerTakes, SlotTable
  <2>5. worker' \in WorkerRecord
    <3>1. PICK p \in {"decode", "release"} :
            worker' = [worker EXCEPT !.slot = Head(queue), !.at = p]
      BY <1>7, Zenon DEF WorkerTakes
    <3>2. /\ worker \in WorkerRecord /\ p \in WorkerPlaces
          /\ Head(queue) \in 0..Slots /\ worker.target \in {0, 1}
      BY <2>2, SMT
    <3>3. QED
      BY <3>1, <3>2, WorkerUpdates, Zenon
  <2>6. QED
    BY <1>7, <2>2, <2>3, <2>4, <2>5, SMT DEF WorkerTakes
<1>8. CASE WorkerDrained
  BY <1>8, FalseIsBoolean, SMT DEF WorkerDrained, Goes
<1>9. CASE WorkerResets
  BY <1>9, FalseIsBoolean, SMT DEF WorkerResets, Goes, Mine
<1>10. CASE WorkerDecodes
  BY <1>10, FalseIsBoolean, SMT DEF WorkerDecodes, Goes, Current, Mine
<1>11. CASE WorkerFails
  <2>1. slots' \in [1..Slots -> SlotRecord]
    BY <1>11, LostSlots, Zenon DEF WorkerFails, SlotTable
  <2>2. worker' \in WorkerRecord
    BY <1>11, SMT DEF WorkerFails, Goes
  <2>3. QED
    BY <1>11, <2>1, <2>2, FalseIsBoolean, SMT DEF WorkerFails
<1>12. CASE WorkerRenders
  <2>1. worker' \in WorkerRecord
    <3>1. CASE worker' = [worker EXCEPT !.at = "paint", !.target = 1 - front]
      <4>1. 1 - front \in {0, 1} /\ "paint" \in WorkerPlaces /\ worker \in WorkerRecord
        BY SMT
      <4>2. worker.slot \in 0..Slots
        BY SMT
      <4>3. QED
        BY <3>1, <4>1, <4>2, WorkerUpdates, Zenon
    <3>2. CASE Goes("settle")
      BY <3>2, SMT DEF Goes
    <3>3. QED
      BY <1>12, <3>1, <3>2, Zenon DEF WorkerRenders
  <2>2. QED
    BY <1>12, <2>1, SMT DEF WorkerRenders
<1>13. CASE WorkerLocks
  <2>1. worker' \in WorkerRecord /\ mutex' \in {"none", "worker", "loop"}
    <3>1. CASE mutex' = "worker" /\ Goes("publish")
      BY <3>1, SMT DEF Goes
    <3>2. CASE worker' = [worker EXCEPT !.at = "settle", !.target = 0] /\ mutex' = mutex
      <4>1. 0 \in {0, 1} /\ "settle" \in WorkerPlaces /\ worker \in WorkerRecord
            /\ worker.slot \in 0..Slots
        BY SMT
      <4>2. QED
        BY <3>2, <4>1, WorkerUpdates, Zenon
    <3>3. QED
      BY <1>13, <3>1, <3>2, Zenon DEF WorkerLocks
  <2>2. QED
    BY <1>13, <2>1, SMT DEF WorkerLocks
<1>14. CASE WorkerPublishes
  BY <1>14, FalseIsBoolean, SMT DEF WorkerPublishes, Goes
<1>15. CASE WorkerPresents
  <2>1. worker' \in WorkerRecord
    <3>1. worker' = [worker EXCEPT !.at = "settle", !.target = 0]
      BY <1>15, Zenon DEF WorkerPresents
    <3>2. 0 \in {0, 1} /\ "settle" \in WorkerPlaces /\ worker \in WorkerRecord
          /\ worker.slot \in 0..Slots
      BY SMT
    <3>3. QED
      BY <3>1, <3>2, WorkerUpdates, Zenon
  <2>2. pending' \in {None, 0, 1} /\ front' \in {0, 1} /\ loopOn' \in BOOLEAN
    <3>1. CASE Draw(worker.target) /\ UNCHANGED loopOn
      BY <3>1, SMT DEF Draw
    <3>2. CASE loopOn' = TRUE /\ UNCHANGED <<pending, front>>
      BY <3>2, SMT
    <3>3. QED
      BY <1>15, <3>1, <3>2, Zenon DEF WorkerPresents
  <2>3. QED
    BY <1>15, <2>1, <2>2, SMT DEF WorkerPresents
<1>16. CASE WorkerSettles
  BY <1>16, FalseIsBoolean, SMT DEF WorkerSettles, Goes, Mine
<1>17. CASE WorkerAdmits
  BY <1>17, FalseIsBoolean, SMT DEF WorkerAdmits, Goes
<1>18. CASE WorkerReleases
  <2>0. worker.slot \in 1..Slots
    BY <1>18, SMT DEF WorkerReleases, SlotsHaveOneOwner
  <2>1. slots' \in [1..Slots -> SlotRecord]
    BY <1>18, <2>0, EmptySlots, StoredSlot, Zenon DEF WorkerReleases, SlotTable
  <2>2. worker' \in WorkerRecord
    BY <1>18, SMT DEF WorkerReleases, Goes
  <2>3. QED
    BY <1>18, <2>1, <2>2, FalseIsBoolean, SMT DEF WorkerReleases
<1>19. CASE WorkerFrees
  <2>0. worker.slot \in 1..Slots
    BY <1>19, SMT DEF WorkerFrees, SlotsHaveOneOwner
  <2>1. slots' \in [1..Slots -> SlotRecord]
    BY <1>19, <2>0, EmptySlots, StoredSlot, Zenon DEF WorkerFrees, SlotTable
  <2>2. worker' \in WorkerRecord
    <3>1. worker' = [worker EXCEPT !.at = "take", !.slot = 0]
      BY <1>19, Zenon DEF WorkerFrees
    <3>2. 0 \in 0..Slots /\ "take" \in WorkerPlaces /\ worker \in WorkerRecord
          /\ worker.target \in {0, 1}
      BY RendererAssumption, SMT
    <3>3. QED
      BY <3>1, <3>2, WorkerUpdates, Zenon
  <2>3. QED
    BY <1>19, <2>1, <2>2, FalseIsBoolean, SMT DEF WorkerFrees
<1>20. CASE WorkerExits
  <2>1. slots' \in [1..Slots -> SlotRecord]
    BY <1>20, EmptySlots, Zenon DEF WorkerExits, SlotTable
  <2>2. worker' \in WorkerRecord
    BY <1>20, SMT DEF WorkerExits, Goes
  <2>3. lent' \subseteq 1..Leases
    BY <1>20, Zenon DEF WorkerExits
  <2>4. UNCHANGED <<stateVars, queue, note, rtp, surfaceVars, uiVars, control>>
    BY <1>20, Zenon DEF WorkerExits
  <2>5. QED
    BY <2>1, <2>2, <2>3, <2>4, SMT
<1>21. CASE LoopBegins
  BY <1>21, FalseIsBoolean, SMT DEF LoopBegins
<1>22. CASE LoopBlocked
  BY <1>22, FalseIsBoolean, SMT DEF LoopBlocked
<1>23. CASE LoopLocks
  <2>1. loop' \in LoopRecord /\ mutex' \in {"none", "worker", "loop"}
    <3>1. CASE mutex' = "loop" /\ loop' = [loop EXCEPT !.at = "mark", !.index = pending]
      <4>1. "mark" \in LoopPlaces /\ loop \in LoopRecord /\ pending \in {None, 0, 1}
        BY Zenon
      <4> HIDE DEF LoopPlaces, LoopRecord
      <4>2. QED
        BY <3>1, <4>1, LoopUpdates, Zenon
    <3>2. CASE loop' = [loop EXCEPT !.at = "idle"] /\ mutex' = mutex
      BY <3>2, SMT
    <3>3. QED
      BY <1>23, <3>1, <3>2, Zenon DEF LoopLocks
  <2>2. QED
    BY <1>23, <2>1, SMT DEF LoopLocks
<1>24. CASE LoopMarks
  <2>1. loop' \in LoopRecord
    <3>1. PICK first \in BOOLEAN : loop' = [loop EXCEPT !.at = "draw", !.first = first]
      BY <1>24, Zenon DEF LoopMarks
    <3>2. "draw" \in LoopPlaces /\ loop \in LoopRecord /\ loop.index \in {None, 0, 1}
      BY SMT
    <3> HIDE DEF LoopPlaces, LoopRecord
    <3>3. QED
      BY <3>1, <3>2, LoopUpdates, Zenon
  <2>2. pageActive' \in BOOLEAN
    BY <1>24, Zenon DEF LoopMarks
  <2>3. QED
    BY <1>24, <2>1, <2>2, SMT DEF LoopMarks
<1>25. CASE LoopDraws
  <2>1. loop' \in LoopRecord
    <3>1. loop' = [loop EXCEPT !.at = "trigger"]
      BY <1>25, Zenon DEF LoopDraws
    <3>2. QED
      BY <3>1, SMT
  <2>2. pending' \in {None, 0, 1} /\ front' \in {0, 1}
    BY <1>25, SMT DEF LoopDraws, Draw, BackSurfaceReserved
  <2>3. QED
    BY <1>25, <2>1, <2>2, SMT DEF LoopDraws
<1>26. CASE LoopEnds
  BY <1>26, FalseIsBoolean, SMT DEF LoopEnds
<1>27. CASE StartVideo
  <2>1. slots' \in [1..Slots -> SlotRecord]
    BY <1>27, RevokedSlots, Zenon DEF StartVideo, NewSession, SlotTable
  <2>2. control' \in ControlRecord
    BY <1>27, FalseIsBoolean, SMT DEF StartVideo
  <2>3. QED
    BY <1>27, <2>1, <2>2, FalseIsBoolean, SMT DEF StartVideo
<1>28. CASE Activate
  BY <1>28, FalseIsBoolean, SMT DEF Activate, Does
<1>29. CASE AskKey
  BY <1>29, FalseIsBoolean, SMT DEF AskKey, Does
<1>30. CASE Deactivate
  BY <1>30, FalseIsBoolean, SMT DEF Deactivate
<1>31. CASE StopVideo
  BY <1>31, FalseIsBoolean, SMT DEF StopVideo
<1>32. CASE Revoke
  <2>1. slots' \in [1..Slots -> SlotRecord]
    BY <1>32, RevokedSlots, Zenon DEF Revoke, NewSession, SlotTable
  <2>2. control' \in ControlRecord
    <3>1. control' = [control EXCEPT !.at = "clear", !.was = visible]
      BY <1>32, Zenon DEF Revoke
    <3>2. "clear" \in ControlPlaces /\ control \in ControlRecord /\ visible \in BOOLEAN
      OBVIOUS
    <3> HIDE DEF ControlPlaces, ControlRecord
    <3>3. QED
      BY <3>1, <3>2, ControlUpdates, Zenon
  <2>3. QED
    BY <1>32, <2>1, <2>2, FalseIsBoolean, SMT DEF Revoke
<1>33. CASE ClearBusy
  BY <1>33, FalseIsBoolean, SMT DEF ClearBusy, Does
<1>34. CASE Clear
  <2>1. control' \in ControlRecord
    BY <1>34, SMT DEF Clear, Does
  <2>2. endPending' \in BOOLEAN /\ loopOn' \in BOOLEAN
    BY <1>34, Zenon DEF Clear
  <2>3. QED
    BY <1>34, <2>1, <2>2, SMT DEF Clear
<1>35. CASE Finish
  BY <1>35, FalseIsBoolean, SMT DEF Finish
<1>36. CASE Shutdown
  <2>1. slots' \in [1..Slots -> SlotRecord]
    BY <1>36, RevokedSlots, Zenon DEF Shutdown, NewSession, SlotTable
  <2>2. QED
    BY <1>36, <2>1, FalseIsBoolean, SMT DEF Shutdown
<1>37. CASE UNCHANGED vars
  BY <1>37, FalseIsBoolean, SMT DEF vars
<1>38. QED
  BY <1>1, <1>2, <1>3, <1>4, <1>5, <1>6, <1>7, <1>8, <1>9, <1>10, <1>11, <1>12, <1>13,
     <1>14, <1>15, <1>16, <1>17, <1>18, <1>19, <1>20, <1>21, <1>22, <1>23, <1>24, <1>25,
     <1>26, <1>27, <1>28, <1>29, <1>30, <1>31, <1>32, <1>33, <1>34, <1>35, <1>36, <1>37
  DEF Next, Consume, Worker, MainLoop, Control

\* Every step that queues a unit or sends the worker to sleep leaves a notification.
LEMMA QueueStep ==
  RendererInv /\ [Next]_vars => QueueWakesWorker'
<1> SUFFICES ASSUME RendererInv, [Next]_vars PROVE QueueWakesWorker'
  OBVIOUS
<1> USE DEF RendererInv, TypeOK, WorkerRecord, RtpRecord, QueueWakesWorker, WorkerPlaces,
        HoldingPlaces, stateVars, slotVars, surfaceVars, uiVars
<1>1. ASSUME NEW key \in BOOLEAN, Claim(key) PROVE QueueWakesWorker'
  BY <1>1, SMT DEF Claim, Admits
<1>2. ASSUME NEW key \in BOOLEAN, Overflow(key) PROVE QueueWakesWorker'
  BY <1>2, SMT DEF Overflow, Admits, Lost
<1>3. CASE Send
  BY <1>3, SMT DEF Send
<1>4. CASE OpenAdmission
  BY <1>4, SMT DEF OpenAdmission
<1>5. CASE Notify
  BY <1>5, SMT DEF Notify, IdleRtp
<1>6. CASE WorkerWakes
  BY <1>6, SMT DEF WorkerWakes, Goes
<1>7. CASE WorkerTakes
  BY <1>7, SMT DEF WorkerTakes
<1>8. CASE WorkerDrained
  BY <1>8, SMT DEF WorkerDrained, Goes
<1>9. CASE WorkerResets
  BY <1>9, SMT DEF WorkerResets, Goes, Mine
<1>10. CASE WorkerDecodes
  BY <1>10, SMT DEF WorkerDecodes, Goes, Current, Mine
<1>11. CASE WorkerFails
  BY <1>11, SMT DEF WorkerFails, Goes, Lost
<1>12. CASE WorkerRenders
  <2>1. worker'.at # "wait" /\ queue' = queue
    <3>1. CASE worker' = [worker EXCEPT !.at = "paint", !.target = 1 - front]
      BY <1>12, <3>1, SMT DEF WorkerRenders
    <3>2. CASE Goes("settle")
      BY <1>12, <3>2, SMT DEF WorkerRenders, Goes
    <3>3. QED
      BY <1>12, <3>1, <3>2, Zenon DEF WorkerRenders
  <2>2. QED
    BY <1>12, <2>1, SMT DEF WorkerRenders
<1>13. CASE WorkerLocks
  <2>1. worker'.at # "wait" /\ queue' = queue
    <3>0. queue' = queue
      BY <1>13, Zenon DEF WorkerLocks
    <3>1. CASE Goes("publish")
      BY <3>0, <3>1, SMT DEF Goes
    <3>2. CASE worker' = [worker EXCEPT !.at = "settle", !.target = 0]
      BY <3>0, <3>2, SMT
    <3>3. QED
      BY <1>13, <3>1, <3>2, Zenon DEF WorkerLocks
  <2>2. QED
    BY <1>13, <2>1, SMT DEF WorkerLocks
<1>14. CASE WorkerPublishes
  BY <1>14, SMT DEF WorkerPublishes, Goes
<1>15. CASE WorkerPresents
  BY <1>15, SMT DEF WorkerPresents, Draw
<1>16. CASE WorkerSettles
  BY <1>16, SMT DEF WorkerSettles, Goes, Mine
<1>17. CASE WorkerAdmits
  BY <1>17, SMT DEF WorkerAdmits, Goes
<1>18. CASE WorkerReleases
  BY <1>18, SMT DEF WorkerReleases, Goes, Mine
<1>19. CASE WorkerFrees
  BY <1>19, SMT DEF WorkerFrees
<1>20. CASE WorkerExits
  BY <1>20, SMT DEF WorkerExits, Goes
<1>21. CASE LoopBegins
  BY <1>21, SMT DEF LoopBegins
<1>22. CASE LoopBlocked
  BY <1>22, SMT DEF LoopBlocked
<1>23. CASE LoopLocks
  BY <1>23, SMT DEF LoopLocks
<1>24. CASE LoopMarks
  BY <1>24, SMT DEF LoopMarks
<1>25. CASE LoopDraws
  BY <1>25, SMT DEF LoopDraws, Draw
<1>26. CASE LoopEnds
  BY <1>26, SMT DEF LoopEnds
<1>27. CASE StartVideo
  BY <1>27, SMT DEF StartVideo
<1>28. CASE Activate
  BY <1>28, SMT DEF Activate, Does
<1>29. CASE AskKey
  BY <1>29, SMT DEF AskKey, Does
<1>30. CASE Deactivate
  BY <1>30, SMT DEF Deactivate
<1>31. CASE StopVideo
  BY <1>31, SMT DEF StopVideo
<1>32. CASE Revoke
  BY <1>32, SMT DEF Revoke
<1>33. CASE ClearBusy
  BY <1>33, SMT DEF ClearBusy, Does
<1>34. CASE Clear
  BY <1>34, SMT DEF Clear, Does
<1>35. CASE Finish
  BY <1>35, SMT DEF Finish
<1>36. CASE Shutdown
  BY <1>36, SMT DEF Shutdown
<1>37. CASE UNCHANGED vars
  BY <1>37, SMT DEF vars
<1>38. QED
  BY <1>1, <1>2, <1>3, <1>4, <1>5, <1>6, <1>7, <1>8, <1>9, <1>10, <1>11, <1>12, <1>13,
     <1>14, <1>15, <1>16, <1>17, <1>18, <1>19, <1>20, <1>21, <1>22, <1>23, <1>24, <1>25,
     <1>26, <1>27, <1>28, <1>29, <1>30, <1>31, <1>32, <1>33, <1>34, <1>35, <1>36, <1>37
  DEF Next, Consume, Worker, MainLoop, Control

-----------------------------------------------------------------------------
(* One owner for every slot, one slot for every lease. *)

\* A step that moves no slot and no lease: the slots keep their state and lease, the
\* queue and the leases that are out stay, and so do both tasks' holds.
OwnersKept ==
    /\ \A i \in 1..Slots : slots'[i].state = slots[i].state /\ slots'[i].lease = slots[i].lease
    /\ queue' = queue /\ lent' = lent
    /\ rtp'.at = "fill" <=> rtp.at = "fill"
    /\ rtp'.at = "fill" => rtp'.slot = rtp.slot /\ rtp'.lease = rtp.lease
    /\ worker'.at \in HoldingPlaces <=> worker.at \in HoldingPlaces
    /\ worker'.at = "free" <=> worker.at = "free"
    /\ worker'.at = "done" <=> worker.at = "done"
    /\ worker'.slot = worker.slot
    /\ running' => running
    /\ worker'.at = "exit" => worker.at = "exit" \/ ~running'

\* Such a step keeps the owners.
LEMMA KeptOwners ==
  RendererInv /\ OwnersKept => SlotsHaveOneOwner' /\ LeasesInSlots'
<1> SUFFICES ASSUME RendererInv, OwnersKept PROVE SlotsHaveOneOwner' /\ LeasesInSlots'
  OBVIOUS
<1>1. SlotsHaveOneOwner'
  BY SMT DEF RendererInv, OwnersKept, SlotsHaveOneOwner, Filling, Holding, Queued
<1>2. LeasesInSlots'
  BY SMT DEF RendererInv, OwnersKept, LeasesInSlots
<1>3. QED
  BY <1>1, <1>2

\* Six actions move a slot or a lease.
LEMMA OtherStep ==
  ASSUME RendererInv, Next
  PROVE  \/ OwnersKept
         \/ \E key \in BOOLEAN : Claim(key)
         \/ Send \/ WorkerTakes \/ WorkerReleases \/ WorkerFrees \/ WorkerExits
<1> USE DEF RendererInv, TypeOK, WorkerRecord, RtpRecord, HoldingPlaces, WorkerPlaces,
        OwnersKept,
        stateVars, slotVars, surfaceVars, uiVars
<1>1. ASSUME NEW key \in BOOLEAN, Overflow(key) PROVE OwnersKept
  <2>1. slots \in SlotTable
    BY DEF SlotTable
  <2>2. \A i \in 1..Slots : slots'[i].state = slots[i].state /\ slots'[i].lease = slots[i].lease
    BY <1>1, <2>1, LostSlots, Zenon DEF Overflow, NewSession
  <2>3. QED
    BY <1>1, <2>2, SMT DEF Overflow
<1>2. ASSUME OpenAdmission PROVE OwnersKept
  BY <1>2, SMT DEF OpenAdmission
<1>3. ASSUME Notify PROVE OwnersKept
  BY <1>3, SMT DEF Notify, IdleRtp
<1>4. ASSUME WorkerWakes PROVE OwnersKept
  BY <1>4, SMT DEF WorkerWakes, Goes
<1>5. ASSUME WorkerDrained PROVE OwnersKept
  BY <1>5, SMT DEF WorkerDrained, Goes
<1>6. ASSUME WorkerResets PROVE OwnersKept
  BY <1>6, SMT DEF WorkerResets, Goes, Mine
<1>7. ASSUME WorkerDecodes PROVE OwnersKept
  BY <1>7, SMT DEF WorkerDecodes, Goes, Current, Mine
<1>8. ASSUME WorkerFails PROVE OwnersKept
  <2>1. slots \in SlotTable
    BY DEF SlotTable
  <2>2. \A i \in 1..Slots : slots'[i].state = slots[i].state /\ slots'[i].lease = slots[i].lease
    BY <1>8, <2>1, LostSlots, Zenon DEF WorkerFails, NewSession
  <2>3. QED
    BY <1>8, <2>2, SMT DEF WorkerFails, Goes
<1>9. ASSUME WorkerRenders PROVE OwnersKept
  <2>1. CASE worker' = [worker EXCEPT !.at = "paint", !.target = 1 - front]
    BY <1>9, <2>1, SMT DEF WorkerRenders
  <2>2. CASE Goes("settle")
    BY <1>9, <2>2, SMT DEF WorkerRenders, Goes
  <2>3. QED
    BY <1>9, <2>1, <2>2, Zenon DEF WorkerRenders
<1>10. ASSUME WorkerLocks PROVE OwnersKept
  <2>1. UNCHANGED <<slots, queue, lent, rtp, running>> /\ worker.at = "paint"
    BY <1>10, Zenon DEF WorkerLocks
  <2>2. CASE Goes("publish")
    BY <2>1, <2>2, SMT DEF Goes
  <2>3. CASE worker' = [worker EXCEPT !.at = "settle", !.target = 0]
    BY <2>1, <2>3, SMT
  <2>4. QED
    BY <1>10, <2>2, <2>3, Zenon DEF WorkerLocks
<1>11. ASSUME WorkerPublishes PROVE OwnersKept
  BY <1>11, SMT DEF WorkerPublishes, Goes
<1>12. ASSUME WorkerPresents PROVE OwnersKept
  BY <1>12, SMT DEF WorkerPresents, Draw
<1>13. ASSUME WorkerSettles PROVE OwnersKept
  BY <1>13, SMT DEF WorkerSettles, Goes, Mine
<1>14. ASSUME WorkerAdmits PROVE OwnersKept
  BY <1>14, SMT DEF WorkerAdmits, Goes
<1>15. ASSUME LoopBegins PROVE OwnersKept
  BY <1>15, SMT DEF LoopBegins
<1>16. ASSUME LoopBlocked PROVE OwnersKept
  BY <1>16, SMT DEF LoopBlocked
<1>17. ASSUME LoopLocks PROVE OwnersKept
  BY <1>17, SMT DEF LoopLocks
<1>18. ASSUME LoopMarks PROVE OwnersKept
  BY <1>18, SMT DEF LoopMarks
<1>19. ASSUME LoopDraws PROVE OwnersKept
  BY <1>19, SMT DEF LoopDraws, Draw
<1>20. ASSUME LoopEnds PROVE OwnersKept
  BY <1>20, SMT DEF LoopEnds
<1>21. ASSUME StartVideo PROVE OwnersKept
  <2>1. slots \in SlotTable
    BY DEF SlotTable
  <2>2. \A i \in 1..Slots : slots'[i].state = slots[i].state /\ slots'[i].lease = slots[i].lease
    BY <1>21, <2>1, RevokedSlots, Zenon DEF StartVideo, NewSession
  <2>3. QED
    BY <1>21, <2>2, SMT DEF StartVideo
<1>22. ASSUME Activate PROVE OwnersKept
  BY <1>22, SMT DEF Activate, Does
<1>23. ASSUME AskKey PROVE OwnersKept
  BY <1>23, SMT DEF AskKey, Does
<1>24. ASSUME Deactivate PROVE OwnersKept
  BY <1>24, SMT DEF Deactivate
<1>25. ASSUME StopVideo PROVE OwnersKept
  BY <1>25, SMT DEF StopVideo
<1>26. ASSUME Revoke PROVE OwnersKept
  <2>1. slots \in SlotTable
    BY DEF SlotTable
  <2>2. \A i \in 1..Slots : slots'[i].state = slots[i].state /\ slots'[i].lease = slots[i].lease
    BY <1>26, <2>1, RevokedSlots, Zenon DEF Revoke, NewSession
  <2>3. QED
    BY <1>26, <2>2, SMT DEF Revoke
<1>27. ASSUME ClearBusy PROVE OwnersKept
  BY <1>27, SMT DEF ClearBusy, Does
<1>28. ASSUME Clear PROVE OwnersKept
  BY <1>28, SMT DEF Clear, Does
<1>29. ASSUME Finish PROVE OwnersKept
  BY <1>29, SMT DEF Finish
<1>30. ASSUME Shutdown PROVE OwnersKept
  <2>1. slots \in SlotTable
    BY DEF SlotTable
  <2>2. \A i \in 1..Slots : slots'[i].state = slots[i].state /\ slots'[i].lease = slots[i].lease
    BY <1>30, <2>1, RevokedSlots, Zenon DEF Shutdown, NewSession
  <2>3. QED
    BY <1>30, <2>2, SMT DEF Shutdown
<1>31. QED
  BY <1>1, <1>2, <1>3, <1>4, <1>5, <1>6, <1>7, <1>8, <1>9, <1>10, <1>11, <1>12, <1>13,
     <1>14, <1>15, <1>16, <1>17, <1>18, <1>19, <1>20, <1>21, <1>22, <1>23, <1>24, <1>25,
     <1>26, <1>27, <1>28, <1>29, <1>30
  DEF Next, Consume, Worker, MainLoop, Control

\* A claim takes a slot that nobody has, for a lease that is in no slot.
LEMMA ClaimStep ==
  ASSUME RendererInv, NEW key \in BOOLEAN, Claim(key)
  PROVE  SlotsHaveOneOwner' /\ LeasesInSlots'
<1> DEFINE j == Min(FreeSlot)
<1>1. /\ j \in 1..Slots /\ slots[j].state = 0
      /\ FreeLease \in (1..Leases) \ lent /\ running
  BY Claimed, Zenon DEF RendererInv
<1>2. \A i \in 1..Slots : /\ slots'[i].state = IF i = j THEN 2 ELSE slots[i].state
                          /\ slots'[i].lease = slots[i].lease
  <2>1. slots \in SlotTable /\ slots' = [slots EXCEPT ![j].state = 2]
    BY Zenon DEF Claim, RendererInv, TypeOK, SlotTable
  <2> DEFINE t == [slots EXCEPT ![j].state = 2]
  <2> HIDE DEF j
  <2>2. \A i \in 1..Slots : /\ t[i].state = IF i = j THEN 2 ELSE slots[i].state
                            /\ t[i].lease = slots[i].lease
    BY <1>1, <2>1, TakenSlot
  <2>3. QED
    BY <2>1, <2>2, Zenon
<1>3. /\ rtp.at = "idle" /\ rtp' = [at |-> "fill", slot |-> j, lease |-> FreeLease, key |-> key]
      /\ UNCHANGED <<queue, lent, running, worker>>
  BY Zenon DEF Claim, stateVars
<1>4. rtp'.at = "fill" /\ rtp'.slot = j /\ rtp'.lease = FreeLease
  BY <1>3
<1> HIDE DEF j
<1>5. SlotsHaveOneOwner'
  BY <1>1, <1>2, <1>3, <1>4, SMT
  DEF RendererInv, SlotsHaveOneOwner, Filling, Holding, Queued
<1>6. LeasesInSlots'
  BY <1>2, <1>3, SMT DEF RendererInv, LeasesInSlots
<1>7. QED
  BY <1>5, <1>6

\* Sending gives the slot and its lease to the queue.
LEMMA SendStep ==
  ASSUME RendererInv, Send
  PROVE  SlotsHaveOneOwner' /\ LeasesInSlots'
<1> DEFINE j == rtp.slot
<1>1. /\ j \in 1..Slots /\ rtp.lease \in (1..Leases) \ lent /\ Filling(j)
      /\ ~Queued(j) /\ ~Holding(j) /\ rtp.at = "fill"
  BY Zenon DEF Send, RendererInv, SlotsHaveOneOwner, Filling
<1>2. /\ Range(queue') = Range(queue) \cup {j} /\ IsInjective(queue')
  BY <1>1, AppendedSlot, Zenon DEF Send, RendererInv, TypeOK, SlotsHaveOneOwner, Queued
<1>3. \A i \in 1..Slots : /\ slots'[i].state = IF i = j THEN 1 ELSE slots[i].state
                          /\ slots'[i].lease = IF i = j THEN rtp.lease ELSE slots[i].lease
  BY <1>1, SMT DEF Send, RendererInv, TypeOK, SlotRecord
<1>4. /\ rtp'.at = "open" /\ lent' = lent \cup {rtp.lease}
      /\ UNCHANGED <<running, worker>>
  BY SMT DEF Send, stateVars, RendererInv, TypeOK, RtpRecord
<1>5. rtp.lease # 0
  BY <1>1, RendererAssumption
<1> HIDE DEF j
<1>6. SlotsHaveOneOwner'
  BY <1>1, <1>2, <1>3, <1>4, <1>5, SMT
  DEF RendererInv, SlotsHaveOneOwner, Filling, Holding, Queued
<1>7. LeasesInSlots'
  <2> SUFFICES ASSUME worker.at # "done" PROVE LeasesInSlots'
    BY <1>4 DEF LeasesInSlots
  <2>1. slots[j].lease = 0
    BY <1>1, SMT DEF RendererInv, TypeOK, SlotRecord, SlotsHaveOneOwner
  <2>2. /\ \A l \in lent : \E i \in 1..Slots : slots[i].lease = l
        /\ \A i \in 1..Slots : slots[i].lease # 0 => slots[i].lease \in lent
        /\ \A i, k \in 1..Slots : slots[i].lease # 0 /\ slots[i].lease = slots[k].lease => i = k
    BY DEF RendererInv, LeasesInSlots
  <2>3. \A l \in lent' : \E i \in 1..Slots : slots'[i].lease = l
    <3> TAKE l \in lent'
    <3>1. CASE l = rtp.lease
      BY <1>1, <1>3, <3>1
    <3>2. CASE l \in lent
      <4>1. PICK i \in 1..Slots : slots[i].lease = l
        BY <2>2, <3>2
      <4>2. l # 0
        BY <3>2, RendererAssumption DEF RendererInv, TypeOK
      <4>3. QED
        BY <1>3, <2>1, <4>1, <4>2
    <3>3. QED
      BY <1>4, <3>1, <3>2
  <2>4. \A i \in 1..Slots : slots'[i].lease # 0 => slots'[i].lease \in lent'
    BY <1>1, <1>3, <1>4, <2>2
  <2>5. \A i, k \in 1..Slots :
            slots'[i].lease # 0 /\ slots'[i].lease = slots'[k].lease => i = k
    BY <1>1, <1>3, <2>2
  <2>6. QED
    BY <2>3, <2>4, <2>5 DEF LeasesInSlots
<1>8. QED
  BY <1>6, <1>7

\* The worker takes the first slot of the queue, and with it its lease.
LEMMA TakeStep ==
  ASSUME RendererInv, WorkerTakes
  PROVE  SlotsHaveOneOwner' /\ LeasesInSlots'
<1> DEFINE j == Head(queue)
<1>1. /\ j \in 1..Slots /\ j \in Range(queue)
      /\ Range(queue') = Range(queue) \ {j} /\ IsInjective(queue')
  BY TakenHead, Zenon DEF WorkerTakes, RendererInv, TypeOK, SlotsHaveOneOwner
<1>2. \A i \in 1..Slots : /\ slots'[i].state = IF i = j THEN 2 ELSE slots[i].state
                          /\ slots'[i].lease = slots[i].lease
  <2>1. slots \in SlotTable /\ slots' = [slots EXCEPT ![j].state = 2]
    BY Zenon DEF WorkerTakes, RendererInv, TypeOK, SlotTable
  <2> DEFINE t == [slots EXCEPT ![j].state = 2]
  <2> HIDE DEF j
  <2>2. \A i \in 1..Slots : /\ t[i].state = IF i = j THEN 2 ELSE slots[i].state
                            /\ t[i].lease = slots[i].lease
    BY <1>1, <2>1, TakenSlot
  <2>3. QED
    BY <2>1, <2>2, Zenon
<1>3. /\ worker.at = "take" /\ worker \in WorkerRecord
      /\ UNCHANGED <<lent, rtp, running>>
  BY Zenon DEF WorkerTakes, stateVars, RendererInv, TypeOK
<1>4. PICK p \in {"decode", "release"} : worker' = [worker EXCEPT !.slot = j, !.at = p]
  BY Zenon DEF WorkerTakes
<1>5. worker'.at \in {"decode", "release"} /\ worker'.slot = j
  BY <1>3, <1>4 DEF WorkerRecord
<1> HIDE DEF j
<1>6. SlotsHaveOneOwner'
  BY <1>1, <1>2, <1>3, <1>5, SMT
  DEF RendererInv, SlotsHaveOneOwner, Filling, Holding, Queued, HoldingPlaces
<1>7. LeasesInSlots'
  BY <1>2, <1>3, <1>5, SMT DEF RendererInv, LeasesInSlots
<1>8. QED
  BY <1>6, <1>7

\* The lease goes back, the slot stays the worker's.
LEMMA ReleaseStep ==
  ASSUME RendererInv, WorkerReleases
  PROVE  SlotsHaveOneOwner' /\ LeasesInSlots'
<1> DEFINE j == worker.slot
<1>1. j \in 1..Slots /\ worker.at = "release" /\ worker \in WorkerRecord
  BY Zenon DEF WorkerReleases, RendererInv, TypeOK, SlotsHaveOneOwner, HoldingPlaces
<1>2. \A i \in 1..Slots : /\ slots'[i].state = IF i = j THEN 2 ELSE slots[i].state
                          /\ slots'[i].lease = IF i = j THEN 0 ELSE slots[i].lease
  <2>1. slots \in SlotTable
    BY DEF RendererInv, TypeOK, SlotTable
  <2> DEFINE r == [EmptySlot EXCEPT !.state = 2]
  <2>0. r \in SlotRecord /\ slots' = [slots EXCEPT ![j] = r]
    BY EmptySlots, Zenon DEF WorkerReleases
  <2>2. \A i \in 1..Slots : slots'[i] = IF i = j THEN r ELSE slots[i]
    <3> HIDE DEF r, j
    <3> DEFINE t == [slots EXCEPT ![j] = r]
    <3>1. \A i \in 1..Slots : t[i] = IF i = j THEN r ELSE slots[i]
      BY <1>1, <2>1, <2>0, StoredSlot
    <3>2. QED
      BY <2>0, <3>1, Zenon
  <2>3. QED
    BY <2>2, EmptySlots, Zenon
<1>3. /\ lent' = lent \ {slots[j].lease} /\ worker' = [worker EXCEPT !.at = "free"]
      /\ UNCHANGED <<queue, rtp, running>>
  BY Zenon DEF WorkerReleases, Mine, Goes, stateVars
<1>4. worker'.at = "free" /\ worker'.slot = j
  BY <1>1, <1>3 DEF WorkerRecord
<1> HIDE DEF j
<1>5. slots[j].state = 2 /\ slots[j].lease # 0
  BY <1>1, SMT DEF RendererInv, TypeOK, SlotRecord, SlotsHaveOneOwner, Filling, Holding, Queued,
     HoldingPlaces, j
<1>6. SlotsHaveOneOwner'
  BY <1>1, <1>2, <1>3, <1>4, <1>5, SMT
  DEF RendererInv, SlotsHaveOneOwner, Filling, Holding, Queued, HoldingPlaces, j
<1>7. LeasesInSlots'
  BY <1>1, <1>2, <1>3, <1>4, <1>5, SMT DEF RendererInv, LeasesInSlots
<1>8. QED
  BY <1>6, <1>7

\* The slot becomes nobody's.
LEMMA FreeStep ==
  ASSUME RendererInv, WorkerFrees
  PROVE  SlotsHaveOneOwner' /\ LeasesInSlots'
<1> DEFINE j == worker.slot
<1>1. j \in 1..Slots /\ worker.at = "free" /\ worker \in WorkerRecord
  BY Zenon DEF WorkerFrees, RendererInv, TypeOK, SlotsHaveOneOwner, HoldingPlaces
<1>2. \A i \in 1..Slots : /\ slots'[i].state = IF i = j THEN 0 ELSE slots[i].state
                          /\ slots'[i].lease = IF i = j THEN 0 ELSE slots[i].lease
  <2>1. slots \in SlotTable
    BY DEF RendererInv, TypeOK, SlotTable
  <2> DEFINE r == EmptySlot
  <2>0. r \in SlotRecord /\ slots' = [slots EXCEPT ![j] = r]
    BY EmptySlots, Zenon DEF WorkerFrees
  <2>2. \A i \in 1..Slots : slots'[i] = IF i = j THEN r ELSE slots[i]
    <3> HIDE DEF r, j
    <3> DEFINE t == [slots EXCEPT ![j] = r]
    <3>1. \A i \in 1..Slots : t[i] = IF i = j THEN r ELSE slots[i]
      BY <1>1, <2>1, <2>0, StoredSlot
    <3>2. QED
      BY <2>0, <3>1, Zenon
  <2>3. QED
    BY <2>2, EmptySlots, Zenon
<1>3. /\ worker' = [worker EXCEPT !.at = "take", !.slot = 0]
      /\ UNCHANGED <<queue, lent, rtp, running>>
  BY Zenon DEF WorkerFrees, stateVars
<1>4. worker'.at = "take"
  BY <1>1, <1>3 DEF WorkerRecord
<1> HIDE DEF j
<1>5. slots[j].lease = 0
  BY <1>1, SMT DEF RendererInv, TypeOK, SlotRecord, SlotsHaveOneOwner, Filling, Holding, Queued,
     HoldingPlaces, j
<1>6. SlotsHaveOneOwner'
  BY <1>1, <1>2, <1>3, <1>4, <1>5, SMT
  DEF RendererInv, SlotsHaveOneOwner, Filling, Holding, Queued, HoldingPlaces, j
<1>7. LeasesInSlots'
  BY <1>1, <1>2, <1>3, <1>4, <1>5, SMT DEF RendererInv, LeasesInSlots
<1>8. QED
  BY <1>6, <1>7

\* With the worker gone nothing is claimed of the slots: what the RTP worker still
\* fills stays out of the queue.
LEMMA ExitStep ==
  ASSUME RendererInv, WorkerExits
  PROVE  SlotsHaveOneOwner' /\ LeasesInSlots'
<1>1. worker.at = "exit" /\ worker \in WorkerRecord
  BY Zenon DEF WorkerExits, RendererInv, TypeOK
<1>2. /\ worker' = [worker EXCEPT !.at = "done"] /\ lent' \subseteq lent
      /\ UNCHANGED <<queue, rtp, running>>
  BY Zenon DEF WorkerExits, Goes, stateVars
<1>3. worker'.at = "done"
  BY <1>1, <1>2 DEF WorkerRecord
<1>4. SlotsHaveOneOwner'
  BY <1>1, <1>2, <1>3, SMT
  DEF RendererInv, SlotsHaveOneOwner, Filling, Holding, Queued, HoldingPlaces
<1>5. LeasesInSlots'
  BY <1>3 DEF LeasesInSlots
<1>6. QED
  BY <1>4, <1>5

\* Every step keeps one owner for a slot and one slot for a lease.
LEMMA OwnerStep ==
  RendererInv /\ [Next]_vars => SlotsHaveOneOwner' /\ LeasesInSlots'
<1> SUFFICES ASSUME RendererInv, [Next]_vars PROVE SlotsHaveOneOwner' /\ LeasesInSlots'
  OBVIOUS
<1>1. CASE Next
  BY <1>1, OtherStep, KeptOwners, ClaimStep, SendStep, TakeStep, ReleaseStep, FreeStep, ExitStep
<1>2. CASE UNCHANGED vars
  <2>1. UNCHANGED <<slots, queue, lent, rtp, worker, running>>
    BY <1>2, Zenon DEF vars, stateVars, slotVars
  <2>2. OwnersKept
    BY <2>1 DEF OwnersKept
  <2>3. QED
    BY <2>2, KeptOwners
<1>3. QED
  BY <1>1, <1>2

-----------------------------------------------------------------------------
(* The theorems. *)

\* RendererInv holds after setup.
LEMMA RendererInvInit == Init => RendererInv
<1> SUFFICES ASSUME Init PROVE RendererInv
  OBVIOUS
<1>1. queue \in Seq(1..Slots) /\ Len(queue) = 0 /\ DOMAIN queue = {}
  BY DEF Init
<1>2. slots \in SlotTable /\ \A i \in 1..Slots : slots[i].state = 0 /\ slots[i].lease = 0
  BY EmptySlots, Zenon DEF Init
<1>3. TypeOK
  <2>1. /\ rtp \in RtpRecord /\ worker \in WorkerRecord /\ loop \in LoopRecord
        /\ control \in ControlRecord
    <3>1. 0 \in 0..Slots /\ 0 \in 0..Leases
      BY RendererAssumption
    <3>2. QED
      BY <3>1, SMT DEF Init, IdleRtp, RtpRecord, WorkerRecord, LoopRecord, ControlRecord,
         RtpPlaces, WorkerPlaces, HoldingPlaces, LoopPlaces, ControlPlaces, None
  <2>2. /\ {running, active, prepared, waiting, resetPending, note, visible, pageActive, endPending,
            loopOn} \subseteq BOOLEAN
    BY FalseIsBoolean, SMT DEF Init
  <2>3. QED
    BY <1>1, <1>2, <2>1, <2>2, RendererAssumption DEF Init, TypeOK, SlotTable, None
<1>4. SlotsHaveOneOwner
  <2>1. Range(queue) = {} /\ IsInjective(queue)
    BY <1>1 DEF Range, IsInjective
  <2>2. rtp.at = "idle" /\ worker.at = "wait" /\ running
    BY DEF Init, IdleRtp
  <2>3. QED
    BY <1>2, <2>1, <2>2, SMT DEF SlotsHaveOneOwner, Filling, Holding, Queued, HoldingPlaces
<1>5. LeasesInSlots
  BY <1>2, SMT DEF Init, LeasesInSlots
<1>6. BackSurfaceReserved /\ EndOnItsWay /\ QueueWakesWorker
  BY SMT DEF Init, BackSurfaceReserved, EndOnItsWay, QueueWakesWorker
<1>7. QED
  BY <1>3, <1>4, <1>5, <1>6 DEF RendererInv

\* Every step keeps RendererInv.
LEMMA RendererInvStep == RendererInv /\ [Next]_vars => RendererInv'
  BY TypeStep, OwnerStep, BackSurfaceStep, EndStep, QueueStep DEF RendererInv

\* What the slots, the queue and the two tasks' places say about each other holds in
\* every state (h264_au_slots_, h264_au_queue_, video_ended_pending_).
THEOREM RendererInvariant == Spec => []RendererInv
  BY RendererInvInit, RendererInvStep, PTL DEF Spec

\* A lease that is in one slot only is counted once.
LEMMA LeasesCounted == RendererInv => LeasesHeldOnce
<1> SUFFICES ASSUME RendererInv, worker.at # "done" PROVE LeasesHeldOnce
  BY DEF LeasesHeldOnce
<1>1. ASSUME NEW l \in lent
      PROVE  Cardinality({i \in 1..Slots : slots[i].lease = l}) = 1
  <2>1. l # 0
    BY RendererAssumption DEF RendererInv, TypeOK
  <2>2. PICK k \in 1..Slots : slots[k].lease = l
    BY DEF RendererInv, LeasesInSlots
  <2>3. {i \in 1..Slots : slots[i].lease = l} = {k}
    BY <2>1, <2>2 DEF RendererInv, LeasesInSlots
  <2>4. QED
    BY <2>3, FS_Singleton
<1>2. QED
  BY <1>1 DEF RendererInv, LeasesInSlots, LeasesHeldOnce

\* Every access unit has one place and none waits unnoticed (consume_video_access_unit,
\* the decoder worker), whatever the depth of the queue and the number of leases.
THEOREM UnitsPass == Spec => []UnitsPassThrough
<1>1. RendererInv => UnitsPassThrough
  BY LeasesCounted DEF RendererInv, UnitsPassThrough
<1>2. QED
  BY <1>1, RendererInvariant, PTL

\* The decoder never paints the surface that is shown or about to be (render_i420_,
\* publish_surface_).
THEOREM BackSurfacePainted == Spec => []PaintsBackSurface
<1>1. RendererInv => PaintsBackSurface
  BY SMT DEF RendererInv, TypeOK, BackSurfaceReserved, PaintsBackSurface, None
<1>2. QED
  BY <1>1, RendererInvariant, PTL

\* A video page that shows no active stream is about to be left
\* (clear_presented_frame_, loop).
THEOREM EndReported == Spec => []EndIsReported
<1>1. RendererInv => EndIsReported
  BY SMT DEF RendererInv, TypeOK, ControlRecord, EndOnItsWay, EndIsReported
<1>2. QED
  BY <1>1, RendererInvariant, PTL

=============================================================================
