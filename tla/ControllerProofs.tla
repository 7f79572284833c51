-------------------------- MODULE ControllerProofs --------------------------
(***************************************************************************)
(* Proofs about Controller, for every number of workers, of threads and of  *)
(* rounds: the barrier of ControllerBarrier keeps the broadcasts and the    *)
(* sessions of different rounds apart.                                      *)
(***************************************************************************)
EXTENDS Controller, FiniteSetTheorems, TLAPS

USE DEF RpcStates

----------------------------------------------------------------------------
(* The barrier on its own, for every number of barrier operations.         *)

\* Sets of workers are finite; one as large as all of them is all of them.
LEMMA WorkerSets ==
  ASSUME NEW S \in SUBSET Workers
  PROVE  /\ IsFiniteSet(S)
         /\ Cardinality(S) \in 0 .. NumWorkers
         /\ NumWorkers \in Nat
         /\ Cardinality(S) >= NumWorkers => S = Workers
         /\ S # Workers => Cardinality(S) < NumWorkers
<1>1. /\ IsFiniteSet(S) /\ Cardinality(S) <= Cardinality(Workers)
      /\ Cardinality(Workers) = Cardinality(S) => Workers = S
  BY FS_Subset, WorkersAssumption DEF WorkersAssumption
<1>2. Cardinality(S) \in Nat /\ Cardinality(Workers) \in Nat
  BY <1>1, FS_CardinalityType, WorkersAssumption DEF WorkersAssumption
<1>3. QED
  BY <1>1, <1>2 DEF NumWorkers

\* The first operation is open and counts nobody.
LEMMA BarrierInitInv == BarrierInit => BarrierInv
<1> SUFFICES ASSUME BarrierInit PROVE BarrierInv
  OBVIOUS
<1> USE BarrierAssumption, WorkersAssumption
    DEF BarrierAssumption, WorkersAssumption, BarrierInit, OpIds
<1>1. Cardinality({}) = 0
  BY FS_EmptySet
<1>2. NumWorkers \in Nat
  BY WorkerSets
<1>3. BarrierTypeOK
  BY <1>2 DEF BarrierTypeOK
<1>4. CounterInv
  <2>1. \A id \in OpIds : IF id \in DOMAIN barrier_ctrs
                          THEN barrier_ctrs[id] = Cardinality(counted[id])
                          ELSE counted[id] = {}
    BY <1>1
  <2>2. QED
    BY <2>1 DEF CounterInv
<1>5. QED
  BY <1>3, <1>4 DEF BarrierInv

\* The arrival of a worker keeps the invariant, whether it is the last one
\* or not.
LEMMA ArriveKeepsInv ==
  ASSUME BarrierInv, NEW w \in Workers, Arrive(w)
  PROVE  BarrierInv'
<1> USE BarrierAssumption, WorkersAssumption
    DEF BarrierAssumption, WorkersAssumption, OpIds
<1> DEFINE id == barrier_op_id
           n == barrier_ctrs[id] + 1
           now == counted[id] \union {w}
<1>1. /\ id \in 0 .. MaxBarriers /\ id < MaxBarriers
      /\ id \in DOMAIN barrier_ctrs
      /\ counted[id] \in SUBSET Workers
      /\ barrier_ctrs[id] = Cardinality(counted[id])
  BY DEF BarrierInv, BarrierTypeOK, CounterInv, Arrive, EventSet
<1>2. w \notin counted[id] /\ arrivals[w] = id /\ departures[w] = id
  BY <1>1 DEF BarrierInv, BarrierTypeOK, CounterInv, Arrive, EventSet
<1>3. now \in SUBSET Workers /\ Cardinality(now) = n
  BY <1>1, <1>2, WorkerSets, FS_AddElement
<1>4. n \in 0 .. NumWorkers /\ NumWorkers \in Nat
  BY <1>3, WorkerSets
<1>5. IsLastArrival(n) <=> now = Workers
  <2>1. n >= NumWorkers => now = Workers
    BY <1>3, WorkerSets
  <2>2. now = Workers => n = NumWorkers
    BY <1>3 DEF NumWorkers
  <2>3. QED
    BY <1>4, <2>1, <2>2 DEF IsLastArrival
<1>6. /\ current_op_id' \in [Workers -> 0 .. MaxBarriers]
      /\ bpc' \in [Workers -> {"out", "recheck", "waiting"}]
      /\ counted' \in [0 .. MaxBarriers -> SUBSET Workers]
      /\ arrivals' \in [Workers -> 0 .. MaxBarriers]
      /\ departures' = departures
      /\ \A v \in Workers :
           /\ current_op_id'[v] = IF v = w THEN id ELSE current_op_id[v]
           /\ bpc'[v] = IF v = w THEN "recheck" ELSE bpc[v]
           /\ arrivals'[v] = IF v = w THEN id + 1 ELSE arrivals[v]
      /\ \A i \in 0 .. MaxBarriers : counted'[i] = IF i = id THEN now ELSE counted[i]
  <2>1. /\ current_op_id' \in [Workers -> 0 .. MaxBarriers]
        /\ \A v \in Workers : current_op_id'[v] = IF v = w THEN id ELSE current_op_id[v]
    BY <1>1 DEF BarrierInv, BarrierTypeOK, Arrive, EventSet
  <2>2. /\ bpc' \in [Workers -> {"out", "recheck", "waiting"}]
        /\ \A v \in Workers : bpc'[v] = IF v = w THEN "recheck" ELSE bpc[v]
    BY DEF BarrierInv, BarrierTypeOK, Arrive, EventSet
  <2>3. /\ counted' \in [0 .. MaxBarriers -> SUBSET Workers]
        /\ \A i \in 0 .. MaxBarriers : counted'[i] = IF i = id THEN now ELSE counted[i]
    BY <1>1, <1>3 DEF BarrierInv, BarrierTypeOK, Arrive, EventSet
  <2>4. /\ arrivals' \in [Workers -> 0 .. MaxBarriers]
        /\ \A v \in Workers : arrivals'[v] = IF v = w THEN id + 1 ELSE arrivals[v]
    BY <1>1, <1>2 DEF BarrierInv, BarrierTypeOK, Arrive, EventSet
  <2>5. departures' = departures
    BY DEF Arrive, EventSet
  <2>6. QED
    BY <2>1, <2>2, <2>3, <2>4, <2>5
<1>7. CASE now = Workers
  <2>1. /\ barrier_events' = barrier_events \union {id}
        /\ barrier_op_id' = id + 1
        /\ DOMAIN barrier_ctrs' = DOMAIN barrier_ctrs \union {id, id + 1}
        /\ \A i \in DOMAIN barrier_ctrs' :
             barrier_ctrs'[i] = IF i = id + 1 THEN 0
                                ELSE IF i = id THEN n ELSE barrier_ctrs[i]
    <3> DEFINE ctrs == With(barrier_ctrs, id, n)
    <3>1. /\ barrier_events' = barrier_events \union {id}
          /\ barrier_op_id' = id + 1
          /\ barrier_ctrs' = With(ctrs, id + 1, 0)
      BY <1>5, <1>7 DEF Arrive, EventSet
    <3>2. /\ DOMAIN ctrs = DOMAIN barrier_ctrs \union {id}
          /\ \A i \in DOMAIN ctrs : ctrs[i] = IF i = id THEN n ELSE barrier_ctrs[i]
      BY DEF With
    <3> HIDE DEF ctrs
    <3>3. /\ DOMAIN barrier_ctrs' = DOMAIN ctrs \union {id + 1}
          /\ \A i \in DOMAIN barrier_ctrs' :
               barrier_ctrs'[i] = IF i = id + 1 THEN 0 ELSE ctrs[i]
      BY <3>1 DEF With
    <3>4. QED
      BY <3>1, <3>2, <3>3
  <2>2. counted[id + 1] = {} /\ id + 1 \in 0 .. MaxBarriers
    BY <1>1 DEF BarrierInv, BarrierTypeOK, CounterInv
  <2>3. BarrierTypeOK'
    BY <1>1, <1>4, <1>6, <2>1, <2>2 DEF BarrierInv, BarrierTypeOK
  <2>4. \A i \in 0 .. MaxBarriers : IF i \in DOMAIN barrier_ctrs'
                                    THEN barrier_ctrs'[i] = Cardinality(counted'[i])
                                    ELSE counted'[i] = {}
    <3> SUFFICES ASSUME NEW i \in 0 .. MaxBarriers
                 PROVE  IF i \in DOMAIN barrier_ctrs'
                        THEN barrier_ctrs'[i] = Cardinality(counted'[i])
                        ELSE counted'[i] = {}
      OBVIOUS
    <3>1. CASE i = id
      <4>1. i \in DOMAIN barrier_ctrs' /\ barrier_ctrs'[i] = n
        BY <1>1, <2>1, <3>1
      <4>2. counted'[i] = now
        BY <1>6, <3>1
      <4>3. QED
        BY <1>3, <4>1, <4>2
    <3>2. CASE i = id + 1
      <4>1. i \in DOMAIN barrier_ctrs' /\ barrier_ctrs'[i] = 0
        BY <2>1, <3>2
      <4>2. counted'[i] = {}
        BY <1>1, <1>6, <2>2, <3>2
      <4>3. QED
        BY <4>1, <4>2, FS_EmptySet
    <3>3. CASE i # id /\ i # id + 1
      <4>1. counted'[i] = counted[i]
        BY <1>6, <3>3
      <4>2. i \in DOMAIN barrier_ctrs' <=> i \in DOMAIN barrier_ctrs
        BY <2>1, <3>3
      <4>3. i \in DOMAIN barrier_ctrs => barrier_ctrs'[i] = barrier_ctrs[i]
        BY <2>1, <3>3, <4>2
      <4>4. QED
        BY <4>1, <4>2, <4>3 DEF BarrierInv, CounterInv
    <3>4. QED
      BY <3>1, <3>2, <3>3
  <2>5. /\ barrier_op_id' \in DOMAIN barrier_ctrs'
        /\ \A i \in DOMAIN barrier_ctrs' : i <= barrier_op_id'
        /\ barrier_events' = {i \in 0 .. MaxBarriers : i < barrier_op_id'}
    BY <1>1, <2>1 DEF BarrierInv, BarrierTypeOK, CounterInv
  <2>6. counted'[barrier_op_id'] = {}
    BY <1>1, <1>6, <2>1, <2>2
  <2>7. \A v \in Workers : arrivals'[v] = id + 1
    BY <1>1, <1>6, <1>7 DEF BarrierInv, CounterInv
  <2>8. ASSUME NEW v \in Workers
        PROVE  /\ arrivals'[v] = barrier_op_id' +
                                 (IF v \in counted'[barrier_op_id'] THEN 1 ELSE 0)
               /\ departures'[v] = IF bpc'[v] = "out" THEN arrivals'[v]
                                   ELSE arrivals'[v] - 1
               /\ bpc'[v] # "out" => /\ v \in counted'[current_op_id'[v]]
                                     /\ arrivals'[v] = current_op_id'[v] + 1
               /\ bpc'[v] = "out" => departures'[v] <= barrier_op_id'
    <3>1. CASE v = w
      BY <1>1, <1>2, <1>6, <2>1, <2>6, <2>7, <3>1
    <3>2. CASE v # w
      BY <1>1, <1>6, <2>1, <2>6, <2>7, <3>2 DEF BarrierInv, BarrierTypeOK, CounterInv
    <3>3. QED
      BY <3>1, <3>2
  <2>9. CounterInv'
    BY <2>4, <2>5, <2>6, <2>8 DEF CounterInv
  <2>10. QED
    BY <2>3, <2>9 DEF BarrierInv
<1>8. CASE now # Workers
  <2>1. /\ UNCHANGED <<barrier_events, barrier_op_id>>
        /\ DOMAIN barrier_ctrs' = DOMAIN barrier_ctrs
        /\ \A i \in DOMAIN barrier_ctrs :
             barrier_ctrs'[i] = IF i = id THEN n ELSE barrier_ctrs[i]
    BY <1>1, <1>5, <1>8 DEF Arrive, EventSet, With
  <2>2. BarrierTypeOK'
    BY <1>1, <1>4, <1>6, <2>1 DEF BarrierInv, BarrierTypeOK
  <2>3. \A i \in 0 .. MaxBarriers : IF i \in DOMAIN barrier_ctrs'
                                    THEN barrier_ctrs'[i] = Cardinality(counted'[i])
                                    ELSE counted'[i] = {}
    <3> SUFFICES ASSUME NEW i \in 0 .. MaxBarriers
                 PROVE  IF i \in DOMAIN barrier_ctrs'
                        THEN barrier_ctrs'[i] = Cardinality(counted'[i])
                        ELSE counted'[i] = {}
      OBVIOUS
    <3>1. CASE i = id
      BY <1>1, <1>3, <1>6, <2>1, <3>1
    <3>2. CASE i # id
      <4>1. counted'[i] = counted[i]
        BY <1>6, <3>2
      <4>2. i \in DOMAIN barrier_ctrs => barrier_ctrs'[i] = barrier_ctrs[i]
        BY <2>1, <3>2
      <4>3. QED
        BY <2>1, <4>1, <4>2 DEF BarrierInv, CounterInv
    <3>3. QED
      BY <3>1, <3>2
  <2>4. counted'[barrier_op_id'] = now
    BY <1>1, <1>6, <2>1
  <2>5. ASSUME NEW v \in Workers
        PROVE  /\ arrivals'[v] = barrier_op_id' +
                                 (IF v \in counted'[barrier_op_id'] THEN 1 ELSE 0)
               /\ departures'[v] = IF bpc'[v] = "out" THEN arrivals'[v]
                                   ELSE arrivals'[v] - 1
               /\ bpc'[v] # "out" => /\ v \in counted'[current_op_id'[v]]
                                     /\ arrivals'[v] = current_op_id'[v] + 1
               /\ bpc'[v] = "out" => departures'[v] <= barrier_op_id'
    <3>1. CASE v = w
      BY <1>1, <1>2, <1>6, <2>1, <2>4, <3>1
    <3>2. CASE v # w
      <4>1. v \in now <=> v \in counted[id]
        BY <3>2
      <4>2. arrivals'[v] = arrivals[v] /\ bpc'[v] = bpc[v]
            /\ current_op_id'[v] = current_op_id[v]
            /\ current_op_id[v] \in 0 .. MaxBarriers
        BY <1>6, <3>2 DEF BarrierInv, BarrierTypeOK
      <4>3. v \in counted[current_op_id[v]] => v \in counted'[current_op_id'[v]]
        BY <1>6, <4>1, <4>2
      <4>4. QED
        BY <1>6, <2>1, <2>4, <4>1, <4>2, <4>3 DEF BarrierInv, CounterInv
    <3>3. QED
      BY <3>1, <3>2
  <2>6. CounterInv'
    BY <1>8, <2>1, <2>3, <2>4, <2>5 DEF BarrierInv, CounterInv
  <2>7. QED
    BY <2>2, <2>6 DEF BarrierInv
<1>9. QED
  BY <1>7, <1>8

\* A call that leaves the barrier belongs to an operation all have entered.
LEMMA DepartKeepsInv ==
  ASSUME BarrierInv, NEW w \in Workers, bpc[w] # "out",
         current_op_id[w] < barrier_op_id,
         Depart(w),
         UNCHANGED <<barrier_op_id, barrier_events, current_op_id, arrivals>>,
         DOMAIN barrier_ctrs' \subseteq DOMAIN barrier_ctrs,
         barrier_op_id \in DOMAIN barrier_ctrs',
         counted' \in [OpIds -> SUBSET Workers],
         \A id \in OpIds : IF id \in DOMAIN barrier_ctrs'
                           THEN barrier_ctrs'[id] = Cardinality(counted'[id])
                           ELSE counted'[id] = {},
         counted'[barrier_op_id] = counted[barrier_op_id],
         \A id \in OpIds, v \in Workers : v # w => (v \in counted'[id] <=> v \in counted[id])
  PROVE  BarrierInv'
<1> USE BarrierAssumption, WorkersAssumption
    DEF BarrierAssumption, WorkersAssumption, OpIds
<1>1. /\ bpc' \in [Workers -> {"out", "recheck", "waiting"}]
      /\ departures' \in [Workers -> 0 .. MaxBarriers]
      /\ \A v \in Workers :
           /\ bpc'[v] = IF v = w THEN "out" ELSE bpc[v]
           /\ departures'[v] = IF v = w THEN arrivals[w] ELSE departures[v]
  <2>1. /\ bpc' \in [Workers -> {"out", "recheck", "waiting"}]
        /\ \A v \in Workers : bpc'[v] = IF v = w THEN "out" ELSE bpc[v]
    BY DEF Depart, BarrierInv, BarrierTypeOK
  <2>2. departures[w] + 1 = arrivals[w] /\ arrivals[w] \in 0 .. MaxBarriers
    BY DEF BarrierInv, BarrierTypeOK, CounterInv
  <2>3. /\ departures' \in [Workers -> 0 .. MaxBarriers]
        /\ \A v \in Workers :
             departures'[v] = IF v = w THEN arrivals[w] ELSE departures[v]
    BY <2>2 DEF Depart, BarrierInv, BarrierTypeOK
  <2>4. QED
    BY <2>1, <2>3
<1>2. \A id \in DOMAIN barrier_ctrs' : barrier_ctrs'[id] \in 0 .. NumWorkers
  BY WorkerSets DEF BarrierInv, BarrierTypeOK
<1>3. BarrierTypeOK'
  BY <1>1, <1>2 DEF BarrierInv, BarrierTypeOK
<1>4. arrivals[w] <= barrier_op_id
  BY DEF BarrierInv, BarrierTypeOK, CounterInv
<1>5. ASSUME NEW v \in Workers
      PROVE  /\ arrivals'[v] = barrier_op_id' +
                               (IF v \in counted'[barrier_op_id'] THEN 1 ELSE 0)
             /\ departures'[v] = IF bpc'[v] = "out" THEN arrivals'[v]
                                 ELSE arrivals'[v] - 1
             /\ bpc'[v] # "out" => /\ v \in counted'[current_op_id'[v]]
                                   /\ arrivals'[v] = current_op_id'[v] + 1
             /\ bpc'[v] = "out" => departures'[v] <= barrier_op_id'
  <2>1. CASE v = w
    BY <1>1, <1>4, <2>1 DEF BarrierInv, CounterInv
  <2>2. CASE v # w
    BY <1>1, <2>2 DEF BarrierInv, BarrierTypeOK, CounterInv
  <2>3. QED
    BY <2>1, <2>2
<1>6. CounterInv'
  <2>1. /\ \A id \in DOMAIN barrier_ctrs' : id <= barrier_op_id'
        /\ barrier_op_id' \in DOMAIN barrier_ctrs'
        /\ barrier_events' = {id \in OpIds : id < barrier_op_id'}
        /\ barrier_op_id' < MaxBarriers => counted'[barrier_op_id'] # Workers
    BY DEF BarrierInv, CounterInv
  <2>2. QED
    BY <1>5, <2>1 DEF CounterInv
<1>7. QED
  BY <1>3, <1>6 DEF BarrierInv

\* A call that finds the counter full leaves a complete operation.
LEMMA RecheckReturnsKeepsInv ==
  ASSUME BarrierInv, NEW w \in Workers, RecheckReturns(w)
  PROVE  BarrierInv'
<1> USE BarrierAssumption, WorkersAssumption
    DEF BarrierAssumption, WorkersAssumption, OpIds
<1> DEFINE id == current_op_id[w]
<1>1. /\ id \in 0 .. MaxBarriers /\ w \in counted[id]
      /\ counted[id] \in SUBSET Workers /\ arrivals[w] = id + 1
      /\ arrivals[w] \in 0 .. MaxBarriers
  BY DEF BarrierInv, BarrierTypeOK, CounterInv, RecheckReturns
<1>2. id \in DOMAIN barrier_ctrs /\ barrier_ctrs[id] = Cardinality(counted[id])
  BY <1>1 DEF BarrierInv, CounterInv
<1>3. counted[id] = Workers
  BY <1>1, <1>2, WorkerSets DEF RecheckReturns
<1>4. id < barrier_op_id
  BY <1>1, <1>2, <1>3 DEF BarrierInv, BarrierTypeOK, CounterInv
<1>5. UNCHANGED <<barrier_op_id, barrier_ctrs, barrier_events, current_op_id, counted,
                  arrivals>> /\ Depart(w) /\ bpc[w] # "out"
  BY DEF RecheckReturns
<1>6. counted' \in [OpIds -> SUBSET Workers] /\ barrier_op_id \in DOMAIN barrier_ctrs
  BY <1>5 DEF BarrierInv, BarrierTypeOK, CounterInv
<1>7. \A i \in OpIds : IF i \in DOMAIN barrier_ctrs'
                       THEN barrier_ctrs'[i] = Cardinality(counted'[i])
                       ELSE counted'[i] = {}
  BY <1>5 DEF BarrierInv, CounterInv
<1>8. QED
  BY <1>4, <1>5, <1>6, <1>7, DepartKeepsInv

\* A call that was woken leaves a complete operation, and deletes it only
\* when its counter counts nobody else.
LEMMA LeaveKeepsInv ==
  ASSUME BarrierInv, NEW w \in Workers, Leave(w)
  PROVE  BarrierInv'
<1> USE BarrierAssumption, WorkersAssumption
    DEF BarrierAssumption, WorkersAssumption, OpIds
<1> DEFINE id == current_op_id[w]
           rest == counted[id] \ {w}
<1>1. /\ id \in 0 .. MaxBarriers /\ w \in counted[id] /\ id < barrier_op_id
      /\ counted[id] \in SUBSET Workers /\ rest \in SUBSET Workers
  BY DEF BarrierInv, BarrierTypeOK, CounterInv, Leave
<1>2. id \in DOMAIN barrier_ctrs /\ barrier_ctrs[id] = Cardinality(counted[id])
  BY <1>1 DEF BarrierInv, CounterInv
<1>3. /\ Cardinality(rest) = barrier_ctrs[id] - 1 /\ barrier_ctrs[id] \in Nat
      /\ barrier_ctrs[id] = 1 <=> rest = {}
  <2>1. /\ IsFiniteSet(counted[id]) /\ Cardinality(counted[id]) \in Nat
        /\ IsFiniteSet(rest)
    BY <1>1, WorkerSets
  <2>2. Cardinality(rest) = Cardinality(counted[id]) - 1
    BY <1>1, <2>1, FS_RemoveElement
  <2>3. Cardinality(rest) = 0 <=> rest = {}
    BY <2>1, FS_EmptySet
  <2>4. QED
    BY <1>2, <2>1, <2>2, <2>3
<1>4. /\ counted' \in [OpIds -> SUBSET Workers]
      /\ \A i \in OpIds : counted'[i] = IF i = id THEN rest ELSE counted[i]
  BY <1>1 DEF Leave, BarrierInv, BarrierTypeOK
<1>5. /\ UNCHANGED <<barrier_op_id, barrier_events, current_op_id, arrivals>>
      /\ Depart(w) /\ bpc[w] # "out"
  BY DEF Leave
<1>6. /\ DOMAIN barrier_ctrs' \subseteq DOMAIN barrier_ctrs
      /\ barrier_op_id \in DOMAIN barrier_ctrs'
      /\ \A i \in OpIds : IF i \in DOMAIN barrier_ctrs'
                          THEN barrier_ctrs'[i] = Cardinality(counted'[i])
                          ELSE counted'[i] = {}
  <2>1. CASE barrier_ctrs[id] = 1
    <3>1. /\ DOMAIN barrier_ctrs' = DOMAIN barrier_ctrs \ {id}
          /\ \A i \in DOMAIN barrier_ctrs' : barrier_ctrs'[i] = barrier_ctrs[i]
      BY <2>1 DEF Leave, LastToLeave, Without
    <3>2. QED
      BY <1>1, <1>3, <1>4, <2>1, <3>1 DEF BarrierInv, CounterInv
  <2>2. CASE barrier_ctrs[id] # 1
    <3>1. /\ DOMAIN barrier_ctrs' = DOMAIN barrier_ctrs
          /\ \A i \in DOMAIN barrier_ctrs' :
               barrier_ctrs'[i] = IF i = id THEN barrier_ctrs[id] - 1 ELSE barrier_ctrs[i]
      BY <1>2, <2>2 DEF Leave, LastToLeave, With
    <3>2. QED
      <4> SUFFICES ASSUME NEW i \in OpIds
                   PROVE  IF i \in DOMAIN barrier_ctrs'
                          THEN barrier_ctrs'[i] = Cardinality(counted'[i])
                          ELSE counted'[i] = {}
        BY <3>1 DEF BarrierInv, CounterInv
      <4>1. CASE i = id
        BY <1>2, <1>3, <1>4, <3>1, <4>1
      <4>2. CASE i # id
        <5>1. counted'[i] = counted[i]
          BY <1>4, <4>2
        <5>2. QED
          BY <3>1, <4>2, <5>1 DEF BarrierInv, CounterInv
      <4>3. QED
        BY <4>1, <4>2
  <2>3. QED
    BY <2>1, <2>2
<1>7. counted'[barrier_op_id] = counted[barrier_op_id]
  BY <1>1, <1>4 DEF BarrierInv, BarrierTypeOK
<1>8. \A i \in OpIds, v \in Workers : v # w => (v \in counted'[i] <=> v \in counted[i])
  BY <1>4
<1>9. QED
  BY <1>1, <1>4, <1>5, <1>6, <1>7, <1>8, DepartKeepsInv

\* Every step keeps the invariant.
LEMMA BarrierNextInv ==
  ASSUME BarrierInv, [BarrierNext]_barrierVars PROVE BarrierInv'
<1>1. CASE UNCHANGED barrierVars
  BY <1>1 DEF barrierVars, BarrierInv, BarrierTypeOK, CounterInv
<1>2. ASSUME NEW w \in Workers, RecheckWaits(w) PROVE BarrierInv'
  <2>1. /\ bpc' \in [Workers -> {"out", "recheck", "waiting"}]
        /\ \A v \in Workers : bpc'[v] = "out" <=> bpc[v] = "out"
    BY <1>2 DEF RecheckWaits, BarrierInv, BarrierTypeOK
  <2>2. BarrierTypeOK'
    BY <1>2, <2>1 DEF RecheckWaits, BarrierInv, BarrierTypeOK
  <2>3. CounterInv'
    BY <1>2, <2>1 DEF RecheckWaits, BarrierInv, CounterInv
  <2>4. QED
    BY <2>2, <2>3 DEF BarrierInv
<1>3. QED
  BY <1>1, <1>2, ArriveKeepsInv, RecheckReturnsKeepsInv, LeaveKeepsInv
  DEF BarrierNext, HandlerStep

\* Counters count what they should, whatever the handlers' interleaving.
THEOREM BarrierInvariance == BarrierSpec => []BarrierInv
  BY BarrierInitInv, BarrierNextInv, PTL DEF BarrierSpec

\* No worker has left more barriers than another has entered.
LEMMA Lockstep == BarrierInv => BarrierHolds
<1> SUFFICES ASSUME BarrierInv, NEW v \in Workers, NEW w \in Workers
             PROVE  departures[w] <= arrivals[v]
  BY DEF BarrierHolds
<1> USE BarrierAssumption DEF BarrierAssumption, OpIds
<1>1. departures[w] <= barrier_op_id
  <2>1. CASE bpc[w] = "out"
    BY <2>1 DEF BarrierInv, CounterInv
  <2>2. CASE bpc[w] # "out"
    <3>1. departures[w] = arrivals[w] - 1
      BY <2>2 DEF BarrierInv, CounterInv
    <3>2. arrivals[w] = barrier_op_id \/ arrivals[w] = barrier_op_id + 1
      BY DEF BarrierInv, BarrierTypeOK, CounterInv
    <3>3. QED
      BY <3>1, <3>2 DEF BarrierInv, BarrierTypeOK
  <2>3. QED
    BY <2>1, <2>2
<1>2. barrier_op_id <= arrivals[v]
  <2>1. arrivals[v] = barrier_op_id \/ arrivals[v] = barrier_op_id + 1
    BY DEF BarrierInv, BarrierTypeOK, CounterInv
  <2>2. QED
    BY <2>1 DEF BarrierInv, BarrierTypeOK
<1>3. QED
  BY <1>1, <1>2 DEF BarrierInv, BarrierTypeOK

\* No call of Barrier returns before every worker has made its own call.
THEOREM BarrierIsBarrier == BarrierSpec => []BarrierHolds
  BY Lockstep, BarrierInvariance, PTL

\* No handler of a reachable state looks up a missing counter.
LEMMA CounterFound == BarrierInv => NoKeyError
  BY DEF BarrierInv, BarrierTypeOK, CounterInv, NoKeyError

\* No handler looks up a counter that another one has deleted.
THEOREM CountersPresent == BarrierSpec => []NoKeyError
  BY CounterFound, BarrierInvariance, PTL

----------------------------------------------------------------------------
(* The barrier inside the controller.                                      *)

\* A step of the controller is a step of the barrier or leaves it alone.
LEMMA StepOfBarrier == [Next]_vars => [BarrierNext]_barrierVars
<1> SUFFICES ASSUME [Next]_vars PROVE [BarrierNext]_barrierVars
  OBVIOUS
<1>1. CASE UNCHANGED vars
  BY <1>1 DEF vars
<1>2. ASSUME NEW w \in Workers, WorkerStep(w) \/ Restart(w)
      PROVE  [BarrierNext]_barrierVars
  BY <1>2 DEF WorkerStep, BarrierStart, BarrierStep, BroadcastStart,
              BroadcastWake, BroadcastReturn, SessionStart, SessionStore,
              SessionReturn, SessionFails, Restart, BarrierNext
<1>3. QED
  BY <1>1, <1>2 DEF Next

\* The handlers of all calls together use the barrier as its specification
\* allows.
THEOREM ControllerUsesBarrier == Spec => BarrierSpec
<1>1. Init => BarrierInit
  BY DEF Init
<1>2. QED
  BY <1>1, StepOfBarrier, PTL DEF Spec, BarrierSpec

\* Where two workers can be at the same time.
LEMMA Apart ==
  ASSUME BarrierInv, ProgramInv, NEW v \in Workers, NEW w \in Workers
  PROVE  /\ round[v] \in Nat /\ round[w] \in Nat
         /\ nextCall[w] # "Barrier" => round[v] >= round[w]
         /\ nextCall[w] # "Barrier" /\ round[v] = round[w] /\ nextCall[v] = "Barrier"
              => rpc[v] = "running"
         /\ rpc[w] = "reading" =>
              Submitted(v) = round[w] + IF rpc[v] = "storing" THEN 0 ELSE 1
         /\ nextCall[w] = "Broadcast" => round[v] = round[w]
<1>1. departures[w] <= arrivals[v] /\ departures[v] <= arrivals[w]
  BY Lockstep DEF BarrierHolds
<1>2. /\ departures[v] \in Nat /\ arrivals[v] \in Nat /\ departures[w] \in Nat
      /\ arrivals[w] \in Nat
      /\ arrivals[v] = departures[v] + (IF bpc[v] = "out" THEN 0 ELSE 1)
      /\ arrivals[w] = departures[w] + (IF bpc[w] = "out" THEN 0 ELSE 1)
  BY BarrierAssumption DEF BarrierInv, BarrierTypeOK, CounterInv, OpIds, BarrierAssumption
<1>3. /\ round[v] \in Nat /\ round[w] \in Nat
      /\ rpc[v] \in RpcStates
      /\ nextCall[v] \in {"Barrier", "Broadcast", "RdmaSession"}
      /\ nextCall[w] \in {"Barrier", "Broadcast", "RdmaSession"}
      /\ bpc[v] # "out" <=> rpc[v] \in {"running", "storing"} /\ nextCall[v] # "Broadcast"
      /\ bpc[w] # "out" <=> rpc[w] \in {"running", "storing"} /\ nextCall[w] # "Broadcast"
      /\ rpc[v] \in {"storing", "reading"} => nextCall[v] = "RdmaSession"
      /\ rpc[w] \in {"storing", "reading"} => nextCall[w] = "RdmaSession"
      /\ departures[v] = 2 * round[v] + (IF nextCall[v] = "Barrier" THEN 0
                                         ELSE IF rpc[v] = "reading" THEN 2 ELSE 1)
      /\ departures[w] = 2 * round[w] + (IF nextCall[w] = "Barrier" THEN 0
                                         ELSE IF rpc[w] = "reading" THEN 2 ELSE 1)
  BY DEF ProgramInv
<1>4. QED
  BY <1>1, <1>2, <1>3 DEF Submitted

----------------------------------------------------------------------------
(* What steps leave alone.                                                 *)

\* The part of the broadcasts only depends on their variables.
LEMMA BroadcastUntouched ==
  ASSUME BroadcastInv, UNCHANGED broadcastVars PROVE BroadcastInv'
  BY DEF BroadcastInv, broadcastVars

\* The session only depends on how many requests have been stored.
LEMMA SessionUntouched ==
  ASSUME SessionInv, UNCHANGED <<session, peer>>,
         \A v \in Workers :
           /\ Submitted(v)' = Submitted(v)
           /\ round'[v] = round[v]
  PROVE  SessionInv'
<1>1. \A v \in Workers : Entry(v)' = Entry(v)
  BY DEF Entry
<1>2. session' = [root |-> Entry(SessionRoot)',
                  workers |-> [w \in Workers |-> IF w = SessionRoot THEN None
                                                                    ELSE Entry(w)'],
                  first |-> session'.first]
  BY <1>1, ControllerAssumption DEF SessionInv, ControllerAssumption
<1>3. \A v \in Workers : Fresh(v)' = Fresh(v)
  BY DEF Fresh
<1>4. SessionRoot \in Workers
  BY ControllerAssumption DEF ControllerAssumption
<1>5. SessionLag'
  BY <1>3, <1>4 DEF SessionInv, SessionLag
<1>6. \A v, w \in Workers \ {SessionRoot} :
        round'[w] > 0 /\ ~Fresh(w)' => Submitted(v)' >= round'[w]
  BY <1>3 DEF SessionInv
<1>7. QED
  BY <1>2, <1>5, <1>6 DEF SessionInv

----------------------------------------------------------------------------
(* One lemma per action.                                                   *)

\* What the start of a handler does to the call.
LEMMA StartedCall ==
  ASSUME ProgramInv, NEW w \in Workers, NEW name, NEW state \in {"running", "storing"},
         StartHandler(w, name, state)
  PROVE  /\ rpc' \in [Workers -> RpcStates]
         /\ rpc[w] = "none" /\ rpc'[w] = state /\ nextCall[w] = name
         /\ \A v \in Workers : rpc[v] # "storing"
         /\ \A v \in Workers : v # w => rpc'[v] = rpc[v]
         /\ UNCHANGED <<nextCall, round, peer>>
  BY DEF StartHandler, LockFree, ProgramInv

\* What the start of Barrier and RdmaSession does to the barrier.
LEMMA Arrived ==
  ASSUME BarrierInv, NEW w \in Workers, Arrive(w)
  PROVE  /\ bpc[w] = "out" /\ bpc'[w] = "recheck"
         /\ \A v \in Workers : v # w => bpc'[v] = bpc[v]
         /\ departures' = departures
  BY DEF Arrive, BarrierInv, BarrierTypeOK

LEMMA BarrierStartKeepsInv ==
  ASSUME ControllerInv, NEW w \in Workers, BarrierStart(w)
  PROVE  ProgramInv' /\ BroadcastInv' /\ SessionInv'
<1> USE DEF ControllerInv
<1>1. /\ rpc' \in [Workers -> RpcStates]
      /\ rpc[w] = "none" /\ rpc'[w] = "running" /\ nextCall[w] = "Barrier"
      /\ \A v \in Workers : v # w => rpc'[v] = rpc[v]
      /\ UNCHANGED <<nextCall, round, peer, session, broadcastVars>>
  BY StartedCall DEF BarrierStart
<1>2. /\ bpc[w] = "out" /\ bpc'[w] = "recheck"
      /\ \A v \in Workers : v # w => bpc'[v] = bpc[v]
      /\ departures' = departures
  BY Arrived DEF BarrierStart
<1>3. ProgramInv'
  BY <1>1, <1>2 DEF ProgramInv, broadcastVars
<1>4. BroadcastInv'
  BY <1>1, BroadcastUntouched
<1>5. \A v \in Workers : Submitted(v)' = Submitted(v)
  BY <1>1 DEF Submitted
<1>6. SessionInv'
  BY <1>1, <1>5, SessionUntouched
<1>7. QED
  BY <1>3, <1>4, <1>6

\* What the other steps of a handler do to the barrier.
LEMMA Stepped ==
  ASSUME BarrierInv, NEW w \in Workers, HandlerStep(w)
  PROVE  /\ bpc[w] # "out"
         /\ \A v \in Workers : v # w => bpc'[v] = bpc[v] /\ departures'[v] = departures[v]
         /\ \/ bpc'[w] = "out" /\ departures'[w] = departures[w] + 1
            \/ bpc'[w] # "out" /\ departures'[w] = departures[w]
  BY DEF HandlerStep, RecheckWaits, RecheckReturns, Leave, Depart, BarrierInv, BarrierTypeOK

\* What the end of a call does.
LEMMA Responded ==
  ASSUME ProgramInv, NEW w \in Workers, Respond(w)
  PROVE  /\ rpc' \in [Workers -> RpcStates]
         /\ nextCall' \in [Workers -> {"Barrier", "Broadcast", "RdmaSession"}]
         /\ round' \in [Workers -> Nat]
         /\ rpc'[w] = "none"
         /\ nextCall'[w] = Successor[nextCall[w]]
         /\ round'[w] = round[w] + IF nextCall[w] = "RdmaSession" THEN 1 ELSE 0
         /\ \A v \in Workers : v # w => /\ rpc'[v] = rpc[v]
                                        /\ nextCall'[v] = nextCall[v]
                                        /\ round'[v] = round[v]
<1>1. \A c \in {"Barrier", "Broadcast", "RdmaSession"} :
        Successor[c] \in {"Barrier", "Broadcast", "RdmaSession"}
  BY DEF Successor
<1>2. Successor[nextCall[w]] \in {"Barrier", "Broadcast", "RdmaSession"}
  BY <1>1 DEF ProgramInv
<1>3. round[w] \in Nat
  BY DEF ProgramInv
<1>4. QED
  BY <1>2, <1>3 DEF Respond, ProgramInv

LEMMA BarrierStepKeepsInv ==
  ASSUME ControllerInv, NEW w \in Workers, BarrierStep(w)
  PROVE  ProgramInv' /\ BroadcastInv' /\ SessionInv'
<1> USE DEF ControllerInv
<1>1. /\ bpc[w] # "out"
      /\ \A v \in Workers : v # w => bpc'[v] = bpc[v] /\ departures'[v] = departures[v]
      /\ \/ bpc'[w] = "out" /\ departures'[w] = departures[w] + 1
         \/ bpc'[w] # "out" /\ departures'[w] = departures[w]
  BY Stepped DEF BarrierStep
<1>2. rpc[w] = "running" /\ nextCall[w] \in {"Barrier", "RdmaSession"} /\ cpc[w] = "out"
  BY <1>1 DEF BarrierStep, ProgramInv
<1>3. UNCHANGED <<broadcastVars, session, peer>>
  BY DEF BarrierStep
<1>4. BroadcastInv'
  BY <1>3, BroadcastUntouched
<1>5. CASE bpc'[w] # "out"
  <2>1. UNCHANGED <<rpc, nextCall, round>>
    BY <1>5 DEF BarrierStep
  <2>2. ProgramInv'
    BY <1>1, <1>2, <1>3, <1>5, <2>1 DEF ProgramInv, broadcastVars
  <2>3. SessionInv'
    BY <1>3, <2>1, SessionUntouched DEF Submitted
  <2>4. QED
    BY <1>4, <2>2, <2>3
<1>6. CASE bpc'[w] = "out" /\ nextCall[w] = "Barrier"
  <2>1. Respond(w)
    BY <1>6 DEF BarrierStep
  <2>2. /\ rpc' \in [Workers -> RpcStates]
        /\ nextCall' \in [Workers -> {"Barrier", "Broadcast", "RdmaSession"}]
        /\ round' \in [Workers -> Nat]
        /\ rpc'[w] = "none" /\ nextCall'[w] = "Broadcast" /\ round'[w] = round[w]
        /\ \A v \in Workers : v # w => /\ rpc'[v] = rpc[v]
                                       /\ nextCall'[v] = nextCall[v]
                                       /\ round'[v] = round[v]
    BY <1>6, <2>1, Responded DEF Successor, ProgramInv
  <2>3. ProgramInv'
    BY <1>1, <1>2, <1>3, <1>6, <2>2 DEF ProgramInv, broadcastVars
  <2>4. \A v \in Workers : Submitted(v)' = Submitted(v)
    BY <1>6, <2>2 DEF Submitted
  <2>5. SessionInv'
    BY <1>3, <2>2, <2>4, SessionUntouched
  <2>6. QED
    BY <1>4, <2>3, <2>5
<1>7. CASE bpc'[w] = "out" /\ nextCall[w] = "RdmaSession"
  <2>1. /\ rpc' \in [Workers -> RpcStates]
        /\ rpc'[w] = "reading" /\ \A v \in Workers : v # w => rpc'[v] = rpc[v]
        /\ UNCHANGED <<nextCall, round>>
    BY <1>7 DEF BarrierStep, ProgramInv
  <2>2. ProgramInv'
    BY <1>1, <1>2, <1>3, <1>7, <2>1 DEF ProgramInv, broadcastVars
  <2>3. \A v \in Workers : Submitted(v)' = Submitted(v)
    BY <1>2, <2>1 DEF Submitted
  <2>4. SessionInv'
    BY <1>3, <2>1, <2>3, SessionUntouched
  <2>5. QED
    BY <1>4, <2>2, <2>4
<1>8. QED
  BY <1>2, <1>5, <1>6, <1>7

\* RdmaSession is counted and stores its request in the next step.
LEMMA SessionStartKeepsInv ==
  ASSUME ControllerInv, NEW w \in Workers, SessionStart(w)
  PROVE  ProgramInv' /\ BroadcastInv' /\ SessionInv'
<1> USE DEF ControllerInv
<1>1. /\ rpc' \in [Workers -> RpcStates]
      /\ rpc[w] = "none" /\ rpc'[w] = "storing" /\ nextCall[w] = "RdmaSession"
      /\ \A v \in Workers : rpc[v] # "storing"
      /\ \A v \in Workers : v # w => rpc'[v] = rpc[v]
      /\ UNCHANGED <<nextCall, round, peer, session, broadcastVars>>
  BY StartedCall DEF SessionStart
<1>2. /\ bpc[w] = "out" /\ bpc'[w] = "recheck"
      /\ \A v \in Workers : v # w => bpc'[v] = bpc[v]
      /\ departures' = departures
  BY Arrived DEF SessionStart
<1>3. ProgramInv'
  BY <1>1, <1>2 DEF ProgramInv, broadcastVars
<1>4. BroadcastInv'
  BY <1>1, BroadcastUntouched
<1>5. \A v \in Workers : Submitted(v)' = Submitted(v)
  BY <1>1 DEF Submitted
<1>6. SessionInv'
  BY <1>1, <1>5, SessionUntouched
<1>7. QED
  BY <1>3, <1>4, <1>6

\* The request replaces that of the worker's earlier round.
LEMMA SessionStoreKeepsInv ==
  ASSUME ControllerInv, NEW w \in Workers, SessionStore(w)
  PROVE  ProgramInv' /\ BroadcastInv' /\ SessionInv'
<1> USE DEF ControllerInv
<1>1. /\ rpc' \in [Workers -> RpcStates]
      /\ rpc[w] = "storing" /\ rpc'[w] = "running" /\ nextCall[w] = "RdmaSession"
      /\ \A v \in Workers : v # w => rpc'[v] = rpc[v]
      /\ UNCHANGED <<barrierVars, broadcastVars, nextCall, round, peer>>
  BY DEF SessionStore, ProgramInv
<1>2. ProgramInv'
  BY <1>1 DEF ProgramInv, barrierVars, broadcastVars
<1>3. BroadcastInv'
  BY <1>1, BroadcastUntouched
<1>4. /\ round[w] \in Nat /\ Submitted(w) = round[w] /\ Submitted(w)' = round[w] + 1
      /\ \A v \in Workers : v # w => Submitted(v)' = Submitted(v)
  BY <1>1 DEF Submitted, ProgramInv
<1>5. /\ Entry(w)' = QpInfo(w)
      /\ \A v \in Workers : v # w => Entry(v)' = Entry(v)
  BY <1>4 DEF Entry, QpInfo
<1>6. SessionRoot \in Workers
  BY ControllerAssumption DEF ControllerAssumption
<1>7. session' = Stored(w)
  BY DEF SessionStore
<1>8. /\ \A v \in Workers : Fresh(v)' = Fresh(v)
      /\ SessionLag'
      /\ peer' \in [Workers -> {None} \union [rank : Workers, round : Nat]]
  BY <1>1, <1>6 DEF SessionInv, SessionLag, Fresh
<1>9. \A u, v \in Workers \ {SessionRoot} :
        round'[u] > 0 /\ ~Fresh(u)' => Submitted(v)' >= round'[u]
  <2> SUFFICES ASSUME NEW u \in Workers \ {SessionRoot}, NEW v \in Workers \ {SessionRoot},
                      round'[u] > 0, ~Fresh(u)'
               PROVE  Submitted(v)' >= round'[u]
    OBVIOUS
  <2>1. Submitted(v) >= round[u] /\ round[u] \in Nat
    BY <1>1, <1>8 DEF SessionInv, ProgramInv
  <2>2. CASE v = w
    BY <1>1, <1>4, <2>1, <2>2
  <2>3. CASE v # w
    BY <1>1, <1>4, <2>1, <2>3
  <2>4. QED
    BY <2>2, <2>3
<1>10. None \notin Workers
  BY BroadcastAssumption DEF BroadcastAssumption
<1>11. CASE w = SessionRoot
  <2>1. session' = [session EXCEPT !.root = QpInfo(w)]
    BY <1>7, <1>11 DEF Stored
  <2>2. session' = [root |-> QpInfo(w), workers |-> session.workers, first |-> session.first]
    BY <2>1 DEF SessionInv
  <2>3. session.workers = [v \in Workers |-> IF v = SessionRoot THEN None ELSE Entry(v)]
    BY DEF SessionInv
  <2>4. session.workers = [v \in Workers |-> IF v = SessionRoot THEN None ELSE Entry(v)']
    BY <1>5, <1>11, <2>3
  <2>5. session'.first = session.first
    BY <2>2
  <2>6. \A v \in Workers \ {SessionRoot} : Submitted(v)' = Submitted(v)
    BY <1>4, <1>11
  <2>7. session' = [root |-> Entry(SessionRoot)',
                    workers |-> [v \in Workers |-> IF v = SessionRoot THEN None
                                                                      ELSE Entry(v)'],
                    first |-> session'.first]
    BY <1>5, <1>11, <2>2, <2>4, <2>5
  <2>8. SessionInv'
    BY <1>8, <1>9, <2>5, <2>6, <2>7 DEF SessionInv
  <2>9. QED
    BY <1>2, <1>3, <2>8
<1>12. CASE w # SessionRoot
  <2> DEFINE one == IF session.first = None THEN w ELSE session.first
  <2>1. session' = [session EXCEPT !.workers[w] = QpInfo(w), !.first = one]
    BY <1>7, <1>12 DEF Stored
  <2>2. session' = [root |-> session.root, workers |-> [session.workers EXCEPT ![w] = QpInfo(w)],
                    first |-> one]
    BY <2>1 DEF SessionInv
  <2>3. session.workers = [v \in Workers |-> IF v = SessionRoot THEN None ELSE Entry(v)]
    BY DEF SessionInv
  <2>4. [session.workers EXCEPT ![w] = QpInfo(w)]
          = [v \in Workers |-> IF v = SessionRoot THEN None ELSE Entry(v)']
    BY <1>5, <1>12, <2>3
  <2>5. session.root = Entry(SessionRoot)'
    BY <1>5, <1>6, <1>12 DEF SessionInv
  <2>6. session'.first = one /\ one \in Workers \ {SessionRoot} /\ one # None
    BY <1>10, <1>12, <2>2 DEF SessionInv
  <2>7. session' = [root |-> Entry(SessionRoot)',
                    workers |-> [v \in Workers |-> IF v = SessionRoot THEN None
                                                                      ELSE Entry(v)'],
                    first |-> session'.first]
    BY <2>2, <2>4, <2>5, <2>6
  <2>8. SessionInv'
    BY <1>8, <1>9, <2>6, <2>7 DEF SessionInv
  <2>9. QED
    BY <1>2, <1>3, <2>8
<1>13. QED
  BY <1>11, <1>12

\* What a lookup finds: the request of this round of a worker of the other
\* side, or that of the round before, if this worker is the one that holds
\* the lock to store its request.
LEMMA Looked ==
  ASSUME ControllerInv, NEW w \in Workers, rpc[w] = "reading"
  PROVE  \E v \in Workers :
           /\ (v = SessionRoot) = (w # SessionRoot)
           /\ Found(w) = None => rpc[v] = "storing" /\ round[w] = 0
           /\ Found(w) # None =>
                Found(w) = [rank |-> v, round |->
                              IF rpc[v] = "storing" THEN round[w] ELSE round[w] + 1]
<1> USE DEF ControllerInv
<1>1. round[w] \in Nat
  BY DEF ProgramInv
<1>2. SessionRoot \in Workers /\ \E v \in Workers : v # SessionRoot
  BY ControllerAssumption, WorkersAssumption DEF ControllerAssumption, WorkersAssumption
<1>3. \A v \in Workers : Submitted(v) = IF rpc[v] = "storing" THEN round[w] ELSE round[w] + 1
  BY <1>1, Apart
<1>4. \A v \in Workers :
        /\ Entry(v) = None => rpc[v] = "storing" /\ round[w] = 0
        /\ Entry(v) # None =>
             Entry(v) = [rank |-> v, round |->
                           IF rpc[v] = "storing" THEN round[w] ELSE round[w] + 1]
  <2> SUFFICES ASSUME NEW v \in Workers
               PROVE  /\ Entry(v) = None => rpc[v] = "storing" /\ round[w] = 0
                      /\ Entry(v) # None =>
                           Entry(v) = [rank |-> v, round |->
                             IF rpc[v] = "storing" THEN round[w] ELSE round[w] + 1]
    OBVIOUS
  <2>1. CASE Submitted(v) = 0
    <3>1. Entry(v) = None
      BY <2>1 DEF Entry
    <3>2. rpc[v] = "storing" /\ round[w] = 0
      BY <1>1, <1>3, <2>1
    <3>3. QED
      BY <3>1, <3>2
  <2>2. CASE Submitted(v) # 0
    <3>1. Entry(v) = [rank |-> v, round |-> Submitted(v)]
      BY <2>2 DEF Entry
    <3>2. [rank |-> v, round |-> Submitted(v)] # None
      BY <1>1, <1>3, ControllerAssumption DEF ControllerAssumption
    <3>3. QED
      BY <1>3, <3>1, <3>2
  <2>3. QED
    BY <2>1, <2>2
<1>5. CASE w # SessionRoot
  <2>1. Found(w) = Entry(SessionRoot)
    BY <1>5 DEF Found, SessionInv
  <2>2. QED
    BY <1>2, <1>4, <1>5, <2>1
<1>6. CASE w = SessionRoot /\ session.first = None
  <2>1. PICK v \in Workers : v # SessionRoot
    BY <1>2
  <2>2. Submitted(v) = 0
    BY <1>6, <2>1 DEF SessionInv
  <2>3. Found(w) = None
    BY <1>6 DEF Found
  <2>4. rpc[v] = "storing" /\ round[w] = 0
    BY <1>1, <1>3, <2>2
  <2>5. QED
    BY <1>6, <2>1, <2>3, <2>4
<1>7. CASE w = SessionRoot /\ session.first # None
  <2>1. session.first \in Workers \ {SessionRoot}
    BY <1>7 DEF SessionInv
  <2>2. Found(w) = Entry(session.first)
    BY <1>7, <2>1 DEF Found, SessionInv
  <2>3. QED
    BY <1>4, <1>7, <2>1, <2>2
<1>8. QED
  BY <1>5, <1>6, <1>7

\* The end of a session: what the lookup has found, or None, is the peer.
LEMMA SessionEnds ==
  ASSUME ControllerInv, NEW w \in Workers, rpc[w] = "reading",
         UNCHANGED <<barrierVars, broadcastVars, session>>,
         peer' = [peer EXCEPT ![w] = Found(w)],
         NEW state \in {"none", "aborted"},
         rpc' \in [Workers -> RpcStates],
         nextCall' \in [Workers -> {"Barrier", "Broadcast", "RdmaSession"}],
         round' \in [Workers -> Nat],
         rpc'[w] = state, nextCall'[w] = "Barrier", round'[w] = round[w] + 1,
         \A v \in Workers : v # w => /\ rpc'[v] = rpc[v]
                                     /\ nextCall'[v] = nextCall[v]
                                     /\ round'[v] = round[v]
  PROVE  ProgramInv' /\ BroadcastInv' /\ SessionInv'
<1> USE DEF ControllerInv
<1>1. /\ nextCall[w] = "RdmaSession" /\ round[w] \in Nat
      /\ bpc[w] = "out" /\ cpc[w] = "out"
      /\ \A u, v \in Workers : rpc[u] = "storing" /\ rpc[v] = "storing" => u = v
      /\ \A v \in Workers : round[v] \in Nat
  BY DEF ProgramInv
<1>2. ProgramInv'
  <2>1. departures' = departures /\ calls' = calls /\ bpc' = bpc /\ cpc' = cpc
    BY DEF barrierVars, broadcastVars
  <2>2. \A u, v \in Workers : rpc'[u] = "storing" /\ rpc'[v] = "storing" => u = v
    BY <1>1
  <2>3. ASSUME NEW v \in Workers
        PROVE  /\ bpc'[v] # "out" <=> rpc'[v] \in {"running", "storing"}
                                      /\ nextCall'[v] # "Broadcast"
               /\ cpc'[v] # "out" <=> rpc'[v] = "running" /\ nextCall'[v] = "Broadcast"
               /\ rpc'[v] \in {"storing", "reading"} => nextCall'[v] = "RdmaSession"
               /\ rpc'[v] = "aborted" => nextCall'[v] = "Barrier"
               /\ departures'[v] = 2 * round'[v] + (IF nextCall'[v] = "Barrier" THEN 0
                                                    ELSE IF rpc'[v] = "reading" THEN 2 ELSE 1)
               /\ calls'[v] = round'[v] + (IF nextCall'[v] = "RdmaSession" \/ cpc'[v] # "out"
                                           THEN 1 ELSE 0)
    <3>1. CASE v = w
      <4>1. departures[w] = 2 * round[w] + 2 /\ calls[w] = round[w] + 1
        BY <1>1 DEF ProgramInv
      <4>2. rpc'[v] \in {"none", "aborted"}
        BY <3>1
      <4>3. QED
        BY <1>1, <2>1, <3>1, <4>1, <4>2
    <3>2. CASE v # w
      BY <2>1, <3>2 DEF ProgramInv
    <3>3. QED
      BY <3>1, <3>2
  <2>4. calls' \in [Workers -> Nat]
    BY <2>1 DEF ProgramInv
  <2>5. QED
    BY <2>2, <2>3, <2>4 DEF ProgramInv
<1>3. BroadcastInv'
  BY BroadcastUntouched
<1>4. \A v \in Workers : Submitted(v)' = Submitted(v)
  BY <1>1 DEF Submitted
<1>5. \A v \in Workers : Submitted(v) = IF rpc[v] = "storing" THEN round[w] ELSE round[w] + 1
  BY <1>1, Apart
<1>6. SessionRoot \in Workers
  BY ControllerAssumption DEF ControllerAssumption
<1>7. PICK p \in Workers :
        /\ (p = SessionRoot) = (w # SessionRoot)
        /\ Found(w) = None => rpc[p] = "storing" /\ round[w] = 0
        /\ Found(w) # None =>
             Found(w) = [rank |-> p, round |->
                           IF rpc[p] = "storing" THEN round[w] ELSE round[w] + 1]
  BY Looked
<1>8. /\ peer' \in [Workers -> {None} \union [rank : Workers, round : Nat]]
      /\ peer'[w] = Found(w)
      /\ \A v \in Workers : v # w => peer'[v] = peer[v]
  <2>1. Found(w) \in {None} \union [rank : Workers, round : Nat]
    BY <1>1, <1>7
  <2>2. QED
    BY <2>1 DEF SessionInv
<1>9. /\ ~Fresh(w)' => rpc[p] = "storing"
      /\ \A v \in Workers : v # w => Fresh(v)' = Fresh(v)
  <2>1. ~Fresh(w)' => rpc[p] = "storing"
    BY <1>1, <1>7, <1>8 DEF Fresh
  <2>2. QED
    BY <1>8, <2>1 DEF Fresh
<1>10. \A u, v \in Workers \ {SessionRoot} :
         round'[u] > 0 /\ ~Fresh(u)' => Submitted(v)' >= round'[u]
  <2> SUFFICES ASSUME NEW u \in Workers \ {SessionRoot}, NEW v \in Workers \ {SessionRoot},
                      round'[u] > 0, ~Fresh(u)'
               PROVE  Submitted(v) >= round'[u]
    BY <1>4
  <2>1. CASE u = w
    <3>1. rpc[v] # "storing"
      BY <1>1, <1>7, <1>9, <2>1
    <3>2. QED
      BY <1>1, <1>5, <2>1, <3>1
  <2>2. CASE u # w
    BY <1>9, <2>2 DEF SessionInv
  <2>3. QED
    BY <2>1, <2>2
<1>11. ASSUME NEW v \in Workers, round'[v] > 0
       PROVE  \/ peer'[v] = None /\ round'[v] = 1
              \/ /\ peer'[v] # None
                 /\ peer'[v].round = round'[v] \/ peer'[v].round = round'[v] - 1
                 /\ (peer'[v].rank = SessionRoot) = (v # SessionRoot)
  <2>1. CASE v = w
    BY <1>1, <1>7, <1>8, <2>1
  <2>2. CASE v # w
    BY <1>8, <1>11, <2>2 DEF SessionInv, SessionLag
  <2>3. QED
    BY <2>1, <2>2
<1>12. ASSUME NEW v \in Workers \ {SessionRoot},
              round'[v] = round'[SessionRoot], round'[v] > 0
       PROVE  Fresh(v)' \/ Fresh(SessionRoot)'
  <2>1. CASE v = w
    <3>1. SUFFICES ASSUME rpc[SessionRoot] = "storing" PROVE FALSE
      BY <1>7, <1>9, <2>1
    <3>2. Submitted(SessionRoot) = round[SessionRoot]
      BY <1>6, <3>1 DEF Submitted, ProgramInv
    <3>3. QED
      BY <1>1, <1>5, <1>6, <1>12, <2>1, <3>1, <3>2
  <2>2. CASE v # w /\ w = SessionRoot
    <3>1. SUFFICES ASSUME ~Fresh(v), rpc[p] = "storing" PROVE FALSE
      BY <1>9, <2>2
    <3>2. Submitted(p) >= round[v]
      BY <1>7, <1>12, <2>2, <3>1 DEF SessionInv
    <3>3. Submitted(p) = round[w]
      BY <1>5, <3>1
    <3>4. QED
      BY <1>1, <1>12, <2>2, <3>2, <3>3
  <2>3. CASE v # w /\ w # SessionRoot
    BY <1>6, <1>9, <1>12, <2>3 DEF SessionInv, SessionLag
  <2>4. QED
    BY <2>1, <2>2, <2>3
<1>13. SessionLag'
  BY <1>11, <1>12 DEF SessionLag
<1>14. session' = [root |-> Entry(SessionRoot)',
                   workers |-> [v \in Workers |-> IF v = SessionRoot THEN None
                                                                     ELSE Entry(v)'],
                   first |-> session'.first]
  <2>1. \A v \in Workers : Entry(v)' = Entry(v)
    BY <1>4 DEF Entry
  <2>2. QED
    BY <1>6, <2>1 DEF SessionInv
<1>15. SessionInv'
  BY <1>4, <1>8, <1>10, <1>13, <1>14 DEF SessionInv
<1>16. QED
  BY <1>2, <1>3, <1>15

LEMMA SessionReturnKeepsInv ==
  ASSUME ControllerInv, NEW w \in Workers, SessionReturn(w)
  PROVE  ProgramInv' /\ BroadcastInv' /\ SessionInv'
<1>1. rpc[w] = "reading" /\ nextCall[w] = "RdmaSession" /\ ProgramInv
  BY DEF SessionReturn, ControllerInv, ProgramInv
<1>2. /\ rpc' \in [Workers -> RpcStates]
      /\ nextCall' \in [Workers -> {"Barrier", "Broadcast", "RdmaSession"}]
      /\ round' \in [Workers -> Nat]
      /\ rpc'[w] = "none" /\ nextCall'[w] = "Barrier" /\ round'[w] = round[w] + 1
      /\ \A v \in Workers : v # w => /\ rpc'[v] = rpc[v]
                                     /\ nextCall'[v] = nextCall[v]
                                     /\ round'[v] = round[v]
  BY <1>1, Responded DEF SessionReturn, Successor
<1>3. QED
  BY <1>1, <1>2, SessionEnds DEF SessionReturn

LEMMA SessionFailsKeepsInv ==
  ASSUME ControllerInv, NEW w \in Workers, SessionFails(w)
  PROVE  ProgramInv' /\ BroadcastInv' /\ SessionInv'
<1>1. rpc[w] = "reading" /\ round[w] \in Nat
  BY DEF SessionFails, ControllerInv, ProgramInv
<1>2. /\ rpc' \in [Workers -> RpcStates]
      /\ nextCall' \in [Workers -> {"Barrier", "Broadcast", "RdmaSession"}]
      /\ round' \in [Workers -> Nat]
      /\ rpc'[w] = "aborted" /\ nextCall'[w] = "Barrier" /\ round'[w] = round[w] + 1
      /\ \A v \in Workers : v # w => /\ rpc'[v] = rpc[v]
                                     /\ nextCall'[v] = nextCall[v]
                                     /\ round'[v] = round[v]
  BY <1>1 DEF SessionFails, ControllerInv, ProgramInv
<1>3. peer' = [peer EXCEPT ![w] = Found(w)]
  BY DEF SessionFails
<1>4. UNCHANGED <<barrierVars, broadcastVars, session>>
  BY DEF SessionFails
<1>5. QED
  BY <1>1, <1>2, <1>3, <1>4, SessionEnds

LEMMA RestartKeepsInv ==
  ASSUME ControllerInv, NEW w \in Workers, Restart(w)
  PROVE  ProgramInv' /\ BroadcastInv' /\ SessionInv'
<1> USE DEF ControllerInv
<1>1. /\ rpc' \in [Workers -> RpcStates]
      /\ rpc[w] = "aborted" /\ rpc'[w] = "none"
      /\ \A v \in Workers : v # w => rpc'[v] = rpc[v]
      /\ UNCHANGED <<barrierVars, broadcastVars, session, nextCall, round, peer>>
  BY DEF Restart, ProgramInv
<1>2. ProgramInv'
  BY <1>1 DEF ProgramInv, barrierVars, broadcastVars
<1>3. BroadcastInv'
  BY <1>1, BroadcastUntouched
<1>4. \A v \in Workers : Submitted(v)' = Submitted(v)
  BY <1>1 DEF Submitted
<1>5. SessionInv'
  BY <1>1, <1>4, SessionUntouched
<1>6. QED
  BY <1>2, <1>3, <1>5

----------------------------------------------------------------------------
(* The broadcasts.                                                         *)

\* The clean-up of a list of at most one operation.
LEMMA CleanedLists ==
  /\ Cleaned(<<>>) = <<>>
  /\ \A o : Cleaned(<<o>>) = IF o.bitmap = Workers THEN <<>> ELSE <<o>>
<1>1. Picked(<<>>, {}) = <<>> /\ \A o : Picked(<<o>>, {}) = <<>>
  BY FS_EmptySet DEF Picked
<1>2. ASSUME NEW o PROVE Picked(<<o>>, {1}) = <<o>>
  <2>1. Cardinality({1}) = 1 /\ {j \in {1} : j <= 1} = {1}
    BY FS_Singleton
  <2>2. (CHOOSE k \in {1} : Cardinality({j \in {1} : j <= k}) = 1) = 1
    BY <2>1
  <2>3. Picked(<<o>>, {1}) = [n \in 1 .. 1 |-> o]
    BY <2>1, <2>2 DEF Picked
  <2>4. QED
    BY <2>3
<1>3. DOMAIN <<>> = {} /\ \A o : DOMAIN <<o>> = {1}
  OBVIOUS
<1>4. ASSUME NEW o
      PROVE  {k \in DOMAIN <<o>> : <<o>>[k].bitmap # Workers} =
               IF o.bitmap = Workers THEN {} ELSE {1}
  BY <1>3
<1>5. QED
  BY <1>1, <1>2, <1>3, <1>4 DEF Cleaned

\* The first open operation in such a list.
LEMMA FirstOpenLists ==
  ASSUME NEW w
  PROVE  /\ FirstOpen(<<>>, w) = 1
         /\ \A o : w \notin o.bitmap => FirstOpen(<<o>>, w) = 1
<1>1. FirstOpen(<<>>, w) = 1
  BY DEF FirstOpen
<1>2. ASSUME NEW o, w \notin o.bitmap PROVE FirstOpen(<<o>>, w) = 1
  <2>1. /\ 1 \in 1 .. Len(<<o>>) + 1
        /\ w \notin <<o>>[1].bitmap
        /\ \A j \in 1 .. 1 - 1 : w \in <<o>>[j].bitmap
    BY <1>2
  <2>2. ASSUME NEW i \in 1 .. Len(<<o>>) + 1, \A j \in 1 .. i - 1 : w \in <<o>>[j].bitmap
        PROVE  i = 1
    <3>1. i \in {1, 2}
      OBVIOUS
    <3>2. i = 2 => w \in o.bitmap
      BY <2>2
    <3>3. QED
      BY <1>2, <3>1, <3>2
  <2>3. QED
    BY <2>1, <2>2 DEF FirstOpen
<1>3. QED
  BY <1>1, <1>2

\* A worker that enters a broadcast finds the list empty or all done, and
\* then opens the operation, or finds the operation and is not marked in it.
LEMMA BroadcastStartKeepsInv ==
  ASSUME ControllerInv, NEW w \in Workers, BroadcastStart(w)
  PROVE  ProgramInv' /\ BroadcastInv' /\ SessionInv'
<1> USE DEF ControllerInv
<1> DEFINE call == calls[w] + 1
           marked == {v \in Workers : calls[v] = call /\ cpc[v] # "waiting"}
           op(value) == [value |-> value, event |-> call, bitmap |-> marked]
           isRoot == roots[call] = w
           cleaned == Cleaned(bcast_ops)
           pos == FirstOpen(cleaned, w)
           isNew == pos > Len(cleaned)
           new == [value |-> None, bitmap |-> {}, event |-> created + 1]
           ops == IF isNew THEN Append(cleaned, new) ELSE cleaned
<1>1. /\ rpc' \in [Workers -> RpcStates]
      /\ rpc[w] = "none" /\ rpc'[w] = "running" /\ nextCall[w] = "Broadcast"
      /\ \A v \in Workers : v # w => rpc'[v] = rpc[v]
      /\ UNCHANGED <<nextCall, round, peer, session, barrierVars>>
  BY StartedCall DEF BroadcastStart
<1>2. /\ cpc[w] = "out" /\ calls[w] = round[w] /\ calls[w] \in Nat
      /\ created \in 0 .. MaxBroadcasts /\ created \in Nat
      /\ MaxBroadcasts \in Nat /\ call \in 1 .. MaxBroadcasts /\ call \in Nat
      /\ calls[w] <= created /\ created <= call
      /\ None \notin Nat /\ Roots \subseteq Workers
  <2>1. cpc[w] = "out" /\ calls[w] < MaxBroadcasts
    BY DEF BroadcastStart, EnterBroadcast
  <2>2. calls[w] = round[w] /\ calls[w] \in Nat
    BY <1>1, <2>1 DEF ProgramInv
  <2>3. MaxBroadcasts \in Nat /\ None \notin Nat /\ Roots \subseteq Workers
    BY BroadcastAssumption DEF BroadcastAssumption
  <2>4. /\ created \in 0 .. MaxBroadcasts
        /\ calls[w] <= created /\ created <= calls[w] + 1
    BY DEF BroadcastInv
  <2>5. QED
    BY <2>1, <2>2, <2>3, <2>4
<1>3. \A v \in Workers : /\ calls[v] \in Nat /\ calls[v] >= calls[w] /\ calls[v] <= call
                         /\ calls[v] = calls[w] => cpc[v] = "out"
  <2> SUFFICES ASSUME NEW v \in Workers
               PROVE  /\ calls[v] \in Nat /\ calls[v] >= calls[w] /\ calls[v] <= call
                      /\ calls[v] = calls[w] => cpc[v] = "out"
    OBVIOUS
  <2>1. round[v] = round[w]
    BY <1>1, Apart
  <2>2. QED
    BY <1>2, <2>1 DEF ProgramInv
<1>4. roots[call] \in Workers
  BY <1>2 DEF BroadcastInv
<1>5. /\ created' = IF isNew THEN created + 1 ELSE created
      /\ set_events' = IF isRoot THEN set_events \union {ops[pos].event} ELSE set_events
      /\ bcast_ops' = IF MustWait(isRoot, ops[pos].value) THEN ops
                      ELSE [ops EXCEPT ![pos].value = IF isRoot THEN call ELSE @,
                                       ![pos].bitmap = @ \union {w}]
      /\ cpc' = [cpc EXCEPT ![w] = IF MustWait(isRoot, ops[pos].value) THEN "waiting"
                                                                      ELSE "returning"]
      /\ idx' = [idx EXCEPT ![w] = pos]
      /\ current_event' = [current_event EXCEPT ![w] = ops[pos].event]
      /\ calls' = [calls EXCEPT ![w] = call]
      /\ UNCHANGED <<roots, result>>
  BY DEF BroadcastStart, EnterBroadcast
<1>6. PICK value \in {None, call} :
        /\ pos = 1 /\ ops = <<op(value)>>
        /\ (IF isNew THEN created + 1 ELSE created) = call
        /\ value = call <=> calls[roots[call]] = call
        /\ value = call <=> call \in set_events
        /\ \A v \in Workers : cpc[v] = "returning" => value = call /\ calls[v] = call
  <2>1. CASE created = calls[w]
    <3>1. \A v \in Workers : calls[v] = created /\ cpc[v] = "out"
      <4>1. \A v \in Workers : calls[v] <= created
        BY DEF BroadcastInv
      <4>2. QED
        BY <1>2, <1>3, <2>1, <4>1
    <3>2. marked = {} /\ calls[roots[call]] # call /\ call # None
      BY <1>2, <1>4, <2>1, <3>1
    <3>3. call \notin set_events
      BY <1>2, <2>1 DEF BroadcastInv
    <3>4. cleaned = <<>>
      <4>1. CASE created = 0
        BY <4>1, CleanedLists DEF BroadcastInv
      <4>2. CASE created > 0
        <5>1. PICK v \in {None, created} :
                bcast_ops = <<[value |-> v, event |-> created,
                               bitmap |-> {u \in Workers : calls[u] = created
                                                           /\ cpc[u] # "waiting"}]>>
          BY <4>2 DEF BroadcastInv
        <5>2. {u \in Workers : calls[u] = created /\ cpc[u] # "waiting"} = Workers
          BY <3>1
        <5>3. QED
          BY <5>1, <5>2, CleanedLists
      <4>3. QED
        BY <1>2, <4>1, <4>2
    <3>5. pos = 1 /\ Len(cleaned) = 0
      BY <3>4, FirstOpenLists
    <3>6. isNew
      BY <3>5
    <3>7. new = op(None)
      BY <2>1, <3>2
    <3>8. ops = <<op(None)>>
      <4> HIDE DEF op
      <4>1. ops = Append(<<>>, op(None))
        BY <3>4, <3>6, <3>7
      <4> HIDE DEF ops
      <4>2. QED
        BY <4>1
    <3> HIDE DEF call, marked, op, cleaned, pos, new, ops
    <3>9. created + 1 = call
      BY <2>1 DEF call
    <3>10. QED
      BY <3>1, <3>2, <3>3, <3>5, <3>6, <3>8, <3>9
  <2>2. CASE created = call
    <3>1. PICK value \in {None, call} :
            /\ bcast_ops = <<op(value)>>
            /\ value = call <=> calls[roots[call]] = call
            /\ value = call <=> call \in set_events
            /\ \A v \in Workers : cpc[v] = "returning" => value = call
      BY <1>2, <2>2 DEF BroadcastInv
    <3>2. w \notin marked /\ marked # Workers
      BY <1>2
    <3>3. cleaned = <<op(value)>> /\ FirstOpen(<<op(value)>>, w) = 1
      BY <3>1, <3>2, CleanedLists, FirstOpenLists
    <3>4. pos = 1 /\ Len(cleaned) = 1
      BY <3>3
    <3>5. ~isNew /\ ops = <<op(value)>>
      BY <3>3, <3>4
    <3>6. \A v \in Workers : cpc[v] = "returning" => calls[v] = call
      BY <2>2 DEF BroadcastInv
    <3> HIDE DEF call, marked, op, cleaned, pos, ops
    <3>7. QED
      BY <2>2, <3>1, <3>4, <3>5, <3>6
  <2>3. QED
    BY <1>2, <2>1, <2>2
<1> DEFINE waits == MustWait(isRoot, value)
           value1 == IF isRoot THEN call ELSE value
           marked1 == {v \in Workers : calls'[v] = call /\ cpc'[v] # "waiting"}
<1>7. /\ created' = call
      /\ set_events' = IF isRoot THEN set_events \union {call} ELSE set_events
      /\ bcast_ops' = <<[value |-> value1, event |-> call,
                         bitmap |-> IF waits THEN marked ELSE marked \union {w}]>>
      /\ cpc' = [cpc EXCEPT ![w] = IF waits THEN "waiting" ELSE "returning"]
      /\ idx' = [idx EXCEPT ![w] = 1]
      /\ current_event' = [current_event EXCEPT ![w] = call]
  <2> HIDE DEF op, ops, pos
  <2>1. ops[pos] = op(value)
    BY <1>6
  <2>2. ops[pos].event = call /\ ops[pos].value = value
    BY <2>1 DEF op
  <2>3. bcast_ops' = IF waits THEN <<op(value)>>
                     ELSE [<<op(value)>> EXCEPT ![1].value = IF isRoot THEN call ELSE @,
                                                ![1].bitmap = @ \union {w}]
    BY <1>5, <1>6, <2>2
  <2>4. waits => ~isRoot
    BY DEF MustWait
  <2> HIDE DEF call, marked, waits, isRoot
  <2>5. bcast_ops' = <<[value |-> value1, event |-> call,
                        bitmap |-> IF waits THEN marked ELSE marked \union {w}]>>
    <3>1. CASE waits
      BY <2>3, <2>4, <3>1 DEF op
    <3>2. CASE ~waits
      <4> DEFINE o1 == [op(value) EXCEPT !.value = IF isRoot THEN call ELSE @]
                 o2 == [o1 EXCEPT !.bitmap = @ \union {w}]
      <4>1. bcast_ops' = <<o2>>
        BY <2>3, <3>2
      <4>2. o2 = [value |-> value1, event |-> call, bitmap |-> marked \union {w}]
        <5>1. o1 = [value |-> value1, event |-> call, bitmap |-> marked]
          BY DEF op
        <5> HIDE DEF o1, value1
        <5>2. QED
          BY <5>1
      <4>3. QED
        BY <3>2, <4>1, <4>2
    <3>3. QED
      BY <3>1, <3>2
  <2>6. QED
    BY <1>5, <1>6, <2>2, <2>5 DEF waits
<1> HIDE DEF op, ops, pos, new, cleaned
<1>8. /\ cpc' \in [Workers -> {"out", "waiting", "returning"}]
      /\ idx' \in [Workers -> Nat] /\ current_event' \in [Workers -> Nat]
      /\ calls' \in [Workers -> Nat]
      /\ calls'[w] = call /\ idx'[w] = 1 /\ current_event'[w] = call
      /\ cpc'[w] = IF waits THEN "waiting" ELSE "returning"
      /\ \A v \in Workers : v # w => /\ cpc'[v] = cpc[v] /\ idx'[v] = idx[v]
                                     /\ current_event'[v] = current_event[v]
                                     /\ calls'[v] = calls[v]
  <2>1. /\ cpc \in [Workers -> {"out", "waiting", "returning"}]
        /\ idx \in [Workers -> Nat] /\ current_event \in [Workers -> Nat]
        /\ calls \in [Workers -> Nat]
    BY DEF BroadcastInv, ProgramInv
  <2>2. calls' = [calls EXCEPT ![w] = call]
    BY <1>5
  <2> HIDE DEF call, waits
  <2>3. QED
    BY <1>2, <1>7, <2>1, <2>2
<1>9. (IF waits THEN marked ELSE marked \union {w}) = marked1
  BY <1>2, <1>8
<1> HIDE DEF marked, marked1
<1>10. /\ value1 \in {None, call}
       /\ value1 = call <=> calls'[roots[call]] = call
       /\ value1 = call <=> call \in set_events'
       /\ \A v \in Workers : cpc'[v] = "returning" => value1 = call
  <2>1. call # None
    BY <1>2
  <2>2. CASE isRoot
    BY <1>7, <1>8, <2>1, <2>2
  <2>3. CASE ~isRoot
    <3>1. value1 = value /\ set_events' = set_events
          /\ calls'[roots[call]] = calls[roots[call]]
      BY <1>4, <1>7, <1>8, <2>3
    <3>2. ~waits => value = call
      BY <2>3 DEF MustWait
    <3>3. QED
      BY <1>6, <1>8, <2>1, <3>1, <3>2
  <2>4. QED
    BY <2>2, <2>3
<1>11. set_events' \subseteq 1 .. call
  <2>1. set_events \subseteq 1 .. created
    BY DEF BroadcastInv
  <2>2. 1 .. created \subseteq 1 .. call /\ call \in 1 .. call
    BY <1>2
  <2>3. QED
    BY <1>7, <2>1, <2>2
<1>12. \A v \in Workers :
         /\ calls'[v] <= call /\ call <= calls'[v] + 1
         /\ cpc'[v] # "out" => idx'[v] = 1 /\ current_event'[v] = call /\ calls'[v] = call
         /\ cpc'[v] = "waiting" => v # roots[call]
         /\ cpc'[v] = "out" => result[v] = calls'[v]
  <2> SUFFICES ASSUME NEW v \in Workers
               PROVE  /\ calls'[v] <= call /\ call <= calls'[v] + 1
                      /\ cpc'[v] # "out" => /\ idx'[v] = 1 /\ current_event'[v] = call
                                            /\ calls'[v] = call
                      /\ cpc'[v] = "waiting" => v # roots[call]
                      /\ cpc'[v] = "out" => result[v] = calls'[v]
    OBVIOUS
  <2>1. CASE v = w
    BY <1>2, <1>8, <2>1 DEF MustWait
  <2>2. CASE v # w
    <3>1. calls[v] <= call /\ call <= calls[v] + 1
      BY <1>2, <1>3
    <3>2. cpc[v] # "out" => calls[v] = call /\ created = call
      <4>1. cpc[v] # "out" => calls[v] = created /\ calls[v] # calls[w]
        BY <1>3 DEF BroadcastInv
      <4>2. QED
        BY <1>2, <1>3, <4>1
    <3>3. /\ cpc[v] # "out" => idx[v] = 1 /\ current_event[v] = created
          /\ cpc[v] = "waiting" => v # roots[created]
          /\ cpc[v] = "out" => result[v] = calls[v]
      BY DEF BroadcastInv
    <3>4. QED
      BY <1>8, <2>2, <3>1, <3>2, <3>3
  <2>3. QED
    BY <2>1, <2>2
<1>13. BroadcastInv'
  <2>1. \E val \in {None, call} :
          /\ bcast_ops' = <<[value |-> val, event |-> call, bitmap |-> marked1]>>
          /\ val = call <=> calls'[roots[call]] = call
          /\ val = call <=> call \in set_events'
          /\ \A v \in Workers : cpc'[v] = "returning" => val = call
    BY <1>7, <1>9, <1>10
  <2>2. /\ created' = call /\ UNCHANGED <<roots, result>> /\ call \in 0 .. MaxBroadcasts
        /\ call # 0
    BY <1>2, <1>5, <1>7
  <2> HIDE DEF call, isRoot, waits, value1
  <2>3. QED
    BY <1>8, <1>11, <1>12, <2>1, <2>2 DEF BroadcastInv, marked1
<1>14. ProgramInv'
  BY <1>1, <1>2, <1>8 DEF ProgramInv, barrierVars
<1>15. SessionInv'
  <2>1. \A v \in Workers : Submitted(v)' = Submitted(v)
    BY <1>1 DEF Submitted
  <2>2. QED
    BY <1>1, <2>1, SessionUntouched
<1>16. QED
  BY <1>13, <1>14, <1>15

LEMMA BroadcastWakeKeepsInv ==
  ASSUME ControllerInv, NEW w \in Workers, BroadcastWake(w)
  PROVE  ProgramInv' /\ BroadcastInv' /\ SessionInv'
<1> USE DEF ControllerInv
<1> DEFINE marked == {v \in Workers : calls[v] = created /\ cpc[v] # "waiting"}
           marked1 == {v \in Workers : calls'[v] = created' /\ cpc'[v] # "waiting"}
<1>1. /\ cpc[w] = "waiting" /\ idx[w] = 1 /\ current_event[w] = created
      /\ created \in set_events /\ calls[w] = created
      /\ UNCHANGED <<set_events, created, idx, current_event, roots, calls, result>>
      /\ UNCHANGED <<barrierVars, sessionVars>>
  BY DEF BroadcastWake, WakeBroadcast, BroadcastInv
<1>2. created > 0 /\ created \in Nat
  BY <1>1, BroadcastAssumption DEF BroadcastInv, BroadcastAssumption
<1>3. /\ bcast_ops = <<[value |-> created, event |-> created, bitmap |-> marked]>>
      /\ calls[roots[created]] = created
  BY <1>1, <1>2 DEF BroadcastInv
<1> HIDE DEF marked
<1>4. /\ bcast_ops' = [bcast_ops EXCEPT ![1].bitmap = @ \union {w}]
      /\ cpc' = [cpc EXCEPT ![w] = "returning"]
  <2>1. Len(bcast_ops) = 1
    BY <1>3
  <2>2. QED
    BY <1>1, <2>1 DEF BroadcastWake, WakeBroadcast
<1>5. bcast_ops' = <<[value |-> created, event |-> created, bitmap |-> marked \union {w}]>>
  BY <1>3, <1>4
<1>6. /\ cpc' \in [Workers -> {"out", "waiting", "returning"}]
      /\ cpc'[w] = "returning" /\ \A v \in Workers : v # w => cpc'[v] = cpc[v]
  BY <1>4 DEF BroadcastInv
<1>7. marked \union {w} = marked1
  BY <1>1, <1>6 DEF marked
<1>8. \A v \in Workers :
        /\ cpc'[v] # "out" => idx'[v] = 1 /\ current_event'[v] = created
                              /\ calls'[v] = created
        /\ cpc'[v] = "waiting" => v # roots[created]
        /\ cpc'[v] = "out" => result'[v] = calls'[v]
  BY <1>1, <1>6 DEF BroadcastInv
<1>9. BroadcastInv'
  <2> HIDE DEF marked1
  <2>1. \E val \in {None, created'} :
          /\ bcast_ops' = <<[value |-> val, event |-> created', bitmap |-> marked1]>>
          /\ val = created' <=> calls'[roots'[created']] = created'
          /\ val = created' <=> created' \in set_events'
          /\ \A v \in Workers : cpc'[v] = "returning" => val = created'
    BY <1>1, <1>3, <1>5, <1>7
  <2>2. /\ idx \in [Workers -> Nat] /\ current_event \in [Workers -> Nat]
        /\ result \in [Workers -> Nat] /\ roots \in [1 .. MaxBroadcasts -> Roots]
        /\ created \in 0 .. MaxBroadcasts /\ set_events \subseteq 1 .. created
        /\ \A v \in Workers : calls[v] <= created /\ created <= calls[v] + 1
    BY DEF BroadcastInv
  <2>3. UNCHANGED <<set_events, created, idx, current_event, roots, calls, result>>
    BY <1>1
  <2>4. /\ idx' \in [Workers -> Nat] /\ current_event' \in [Workers -> Nat]
        /\ result' \in [Workers -> Nat] /\ roots' \in [1 .. MaxBroadcasts -> Roots]
        /\ created' \in 0 .. MaxBroadcasts /\ set_events' \subseteq 1 .. created'
        /\ created' # 0
        /\ \A v \in Workers :
             /\ calls'[v] <= created' /\ created' <= calls'[v] + 1
             /\ cpc'[v] # "out" => idx'[v] = 1 /\ current_event'[v] = created'
                                   /\ calls'[v] = created'
             /\ cpc'[v] = "waiting" => v # roots'[created']
             /\ cpc'[v] = "out" => result'[v] = calls'[v]
    BY <1>2, <1>8, <2>2, <2>3
  <2>5. QED
    BY <1>6, <2>1, <2>4 DEF BroadcastInv, marked1
<1>10. ProgramInv'
  BY <1>1, <1>6 DEF ProgramInv, barrierVars, sessionVars
<1>11. SessionInv'
  <2>1. \A v \in Workers : Submitted(v)' = Submitted(v)
    BY <1>1 DEF Submitted, sessionVars
  <2>2. QED
    BY <1>1, <2>1, SessionUntouched DEF sessionVars
<1>12. QED
  BY <1>9, <1>10, <1>11

\* The value is there, and it is that of the call's own broadcast.
LEMMA BroadcastReturnKeepsInv ==
  ASSUME ControllerInv, NEW w \in Workers, BroadcastReturn(w)
  PROVE  ProgramInv' /\ BroadcastInv' /\ SessionInv'
<1> USE DEF ControllerInv
<1> DEFINE marked == {v \in Workers : calls[v] = created /\ cpc[v] # "waiting"}
           marked1 == {v \in Workers : calls'[v] = created /\ cpc'[v] # "waiting"}
<1>1. /\ cpc[w] = "returning" /\ idx[w] = 1 /\ calls[w] = created
      /\ UNCHANGED <<bcast_ops, set_events, created, idx, current_event, roots, calls>>
      /\ UNCHANGED <<barrierVars, session, peer>>
  BY DEF BroadcastReturn, ReturnBroadcast, BroadcastInv
<1>2. /\ rpc[w] = "running" /\ nextCall[w] = "Broadcast" /\ round[w] \in Nat
      /\ calls[w] = round[w] + 1 /\ bpc[w] = "out"
  BY <1>1 DEF ProgramInv
<1>3. created > 0 /\ created \in Nat /\ created # None
  BY <1>1, <1>2, BroadcastAssumption DEF BroadcastAssumption
<1>4. /\ bcast_ops = <<[value |-> created, event |-> created, bitmap |-> marked]>>
      /\ calls[roots[created]] = created /\ created \in set_events
  BY <1>1, <1>3 DEF BroadcastInv
<1>5. /\ result' = [result EXCEPT ![w] = created]
      /\ cpc' = [cpc EXCEPT ![w] = "out"]
  <2> HIDE DEF marked
  <2>1. Len(bcast_ops) = 1 /\ bcast_ops[1].value = created
    BY <1>4
  <2>2. QED
    BY <1>1, <1>3, <2>1 DEF BroadcastReturn, ReturnBroadcast
<1>6. /\ cpc' \in [Workers -> {"out", "waiting", "returning"}]
      /\ result' \in [Workers -> Nat]
      /\ cpc'[w] = "out" /\ result'[w] = created
      /\ \A v \in Workers : v # w => cpc'[v] = cpc[v] /\ result'[v] = result[v]
  BY <1>3, <1>5 DEF BroadcastInv
<1>7. marked = marked1
  BY <1>1, <1>6
<1>8. \A v \in Workers :
        /\ cpc'[v] # "out" => idx'[v] = 1 /\ current_event'[v] = created
                              /\ calls'[v] = created
        /\ cpc'[v] = "waiting" => v # roots[created]
        /\ cpc'[v] = "out" => result'[v] = calls'[v]
  BY <1>1, <1>6 DEF BroadcastInv
<1>9. BroadcastInv'
  <2> HIDE DEF marked, marked1
  <2>1. \E val \in {None, created} :
          /\ bcast_ops' = <<[value |-> val, event |-> created, bitmap |-> marked1]>>
          /\ val = created <=> calls[roots[created]] = created
          /\ val = created <=> created \in set_events
          /\ \A v \in Workers : cpc'[v] = "returning" => val = created
    BY <1>1, <1>4, <1>7
  <2>2. /\ idx \in [Workers -> Nat] /\ current_event \in [Workers -> Nat]
        /\ roots \in [1 .. MaxBroadcasts -> Roots]
        /\ created \in 0 .. MaxBroadcasts /\ set_events \subseteq 1 .. created
        /\ \A v \in Workers : calls[v] <= created /\ created <= calls[v] + 1
    BY DEF BroadcastInv
  <2>3. QED
    BY <1>1, <1>3, <1>6, <1>8, <2>1, <2>2 DEF BroadcastInv, marked1
<1>10. /\ rpc' \in [Workers -> RpcStates]
       /\ nextCall' \in [Workers -> {"Barrier", "Broadcast", "RdmaSession"}]
       /\ round' \in [Workers -> Nat]
       /\ rpc'[w] = "none" /\ nextCall'[w] = "RdmaSession" /\ round'[w] = round[w]
       /\ \A v \in Workers : v # w => /\ rpc'[v] = rpc[v]
                                      /\ nextCall'[v] = nextCall[v]
                                      /\ round'[v] = round[v]
  BY <1>2, Responded DEF BroadcastReturn, Successor
<1>11. ProgramInv'
  BY <1>1, <1>2, <1>6, <1>10 DEF ProgramInv, barrierVars
<1>12. SessionInv'
  <2>1. \A v \in Workers : Submitted(v)' = Submitted(v)
    BY <1>2, <1>10 DEF Submitted
  <2>2. QED
    BY <1>1, <1>10, <2>1, SessionUntouched
<1>13. QED
  BY <1>9, <1>11, <1>12

----------------------------------------------------------------------------
(* The theorems.                                                           *)

LEMMA ControllerInitInv == Init => ControllerInv
<1> SUFFICES ASSUME Init PROVE ControllerInv
  OBVIOUS
<1> USE DEF Init, BarrierInit, BroadcastInit
<1>1. BarrierInv
  BY BarrierInitInv DEF Init
<1>2. ProgramInv
  BY DEF ProgramInv
<1>3. BroadcastInv
  BY BroadcastAssumption DEF BroadcastInv, BroadcastAssumption
<1>4. \A w \in Workers : Submitted(w) = 0 /\ Entry(w) = None
  BY DEF Submitted, Entry
<1>5. SessionInv
  BY <1>4, ControllerAssumption DEF SessionInv, SessionLag, ControllerAssumption
<1>6. QED
  BY <1>1, <1>2, <1>3, <1>5 DEF ControllerInv

\* The inductive invariant: the barrier counts the workers it should, and
\* broadcasts and sessions of different rounds do not overlap.
THEOREM ControllerInvariance == Spec => []ControllerInv
<1>1. ASSUME ControllerInv, [Next]_vars PROVE ControllerInv'
  <2>1. BarrierInv'
    BY <1>1, StepOfBarrier, BarrierNextInv DEF ControllerInv
  <2>2. ASSUME NEW w \in Workers, WorkerStep(w) \/ Restart(w)
        PROVE  ProgramInv' /\ BroadcastInv' /\ SessionInv'
    BY <1>1, <2>2, BarrierStartKeepsInv, BarrierStepKeepsInv,
       BroadcastStartKeepsInv, BroadcastWakeKeepsInv, BroadcastReturnKeepsInv,
       SessionStartKeepsInv, SessionStoreKeepsInv, SessionReturnKeepsInv,
       SessionFailsKeepsInv, RestartKeepsInv DEF WorkerStep
  <2>3. CASE UNCHANGED vars
    <3>1. ProgramInv'
      BY <1>1, <2>3 DEF ControllerInv, ProgramInv, vars, barrierVars, broadcastVars,
                        sessionVars
    <3>2. BroadcastInv'
      BY <1>1, <2>3, BroadcastUntouched DEF ControllerInv, vars
    <3>3. \A w \in Workers : Submitted(w)' = Submitted(w)
      BY <2>3 DEF Submitted, vars, sessionVars
    <3>4. SessionInv'
      BY <1>1, <2>3, <3>3, SessionUntouched DEF ControllerInv, vars, sessionVars
    <3>5. QED
      BY <2>1, <3>1, <3>2, <3>4 DEF ControllerInv
  <2>4. QED
    BY <1>1, <2>1, <2>2, <2>3 DEF Next, ControllerInv
<1>2. QED
  BY <1>1, ControllerInitInv, PTL DEF Spec

\* The program of grpc_test never gets the value of another broadcast,
\* although a handler reads it without the lock: barriers separate the calls.
THEOREM BroadcastsDeliver == Spec => []BroadcastDelivers
<1>1. ControllerInv => BroadcastDelivers
  BY DEF ControllerInv, BroadcastInv, BroadcastDelivers
<1>2. QED
  BY <1>1, ControllerInvariance, PTL

\* The position a handler keeps while it waits stays that of its operation.
THEOREM PositionsStayValid == Spec => []OnlyCompletedAreCleaned
<1>1. ControllerInv => OnlyCompletedAreCleaned
  <2> SUFFICES ASSUME ControllerInv, NEW w \in Workers, cpc[w] \in {"waiting", "returning"}
               PROVE  /\ idx[w] <= Len(bcast_ops)
                      /\ bcast_ops[idx[w]].event = current_event[w]
    BY DEF OnlyCompletedAreCleaned
  <2>1. idx[w] = 1 /\ current_event[w] = created /\ calls[w] = created
    BY DEF ControllerInv, BroadcastInv
  <2>2. created > 0
    BY <2>1 DEF ControllerInv, ProgramInv
  <2>3. \E o : bcast_ops = <<o>> /\ o.event = created
    <3> DEFINE marked == {v \in Workers : calls[v] = created /\ cpc[v] # "waiting"}
    <3>1. PICK value : bcast_ops = <<[value |-> value, event |-> created, bitmap |-> marked]>>
      BY <2>2 DEF ControllerInv, BroadcastInv
    <3> HIDE DEF marked
    <3>2. QED
      BY <3>1
  <2>4. QED
    BY <2>1, <2>3
<1>2. QED
  BY <1>1, ControllerInvariance, PTL

\* RdmaSession returns what its peer submitted in the same round or in the one
\* before, and fails in the first round only: the lookup without the lock
\* misses the request of the last arrival at most, which is counted but not
\* stored.  It does not hit the root and the other workers in one round.
THEOREM SessionsLagByOne == Spec => []SessionLag
<1>1. ControllerInv => SessionLag
  BY DEF ControllerInv, SessionInv
<1>2. QED
  BY <1>1, ControllerInvariance, PTL

\* The barrier holds, and no handler finds a counter missing, when Barrier
\* and RdmaSession share it.
THEOREM SharedBarrierHolds == Spec => [](BarrierHolds /\ NoKeyError)
<1>1. ControllerInv => BarrierHolds /\ NoKeyError
  BY Lockstep, CounterFound DEF ControllerInv
<1>2. QED
  BY <1>1, ControllerInvariance, PTL

----------------------------------------------------------------------------
(* Nobody is left waiting.                                                 *)

\* A call finds a thread: the others have one each at most.
LEMMA ThreadsSuffice ==
  ASSUME NEW w \in Workers, rpc[w] = "none"
  PROVE  ThreadFree(Cardinality(Busy))
<1>1. Busy \subseteq Workers \ {w} BY DEF Busy
<1>2. /\ IsFiniteSet(Workers \ {w}) /\ Cardinality(Workers) \in Nat
      /\ Cardinality(Workers \ {w}) = Cardinality(Workers) - 1
  BY WorkersAssumption, FS_RemoveElement, FS_CardinalityType DEF WorkersAssumption
<1>3. Cardinality(Busy) <= Cardinality(Workers \ {w}) /\ Cardinality(Busy) \in Nat
  BY <1>1, <1>2, FS_Subset, FS_CardinalityType
<1> QED
  BY <1>2, <1>3, ControllerAssumption DEF ControllerAssumption, ThreadFree, NumWorkers

\* No call is kept from starting, once the lock is free.
LEMMA CallGoesOn ==
  ASSUME ControllerInv, LockFree, NEW w \in Workers, rpc[w] = "none",
         round[w] < Rounds
  PROVE  CanGoOn(w)
<1>1. ThreadFree(Cardinality(Busy)) BY ThreadsSuffice
<1>2. round[w] \in Nat /\ round[w] < Rounds /\ Rounds \in Nat
  BY ControllerAssumption DEF ControllerInv, ProgramInv, ControllerAssumption
<1>3. MaxBroadcasts = Rounds /\ MaxBarriers = 2 * Rounds
  BY ControllerAssumption DEF ControllerAssumption
<1>4. /\ bpc[w] = "out" /\ cpc[w] = "out"
      /\ departures[w] = 2 * round[w] + (IF nextCall[w] = "Barrier" THEN 0 ELSE 1)
      /\ calls[w] = round[w] + (IF nextCall[w] = "RdmaSession" THEN 1 ELSE 0)
  BY DEF ControllerInv, ProgramInv
<1>5. barrier_op_id <= departures[w] /\ barrier_op_id \in Nat
  <2>1. /\ arrivals[w] = barrier_op_id + (IF w \in counted[barrier_op_id] THEN 1 ELSE 0)
        /\ departures[w] = arrivals[w] /\ barrier_op_id \in Nat
    BY <1>4, BarrierAssumption
       DEF ControllerInv, BarrierInv, BarrierTypeOK, CounterInv, OpIds, BarrierAssumption
  <2> QED BY <2>1
<1>6. CASE nextCall[w] = "Broadcast"
  <2>1. calls[w] < MaxBroadcasts BY <1>2, <1>3, <1>4, <1>6
  <2> QED BY <1>1, <1>6, <2>1 DEF CanGoOn
<1>7. CASE nextCall[w] # "Broadcast"
  <2>1. barrier_op_id < MaxBarriers BY <1>2, <1>3, <1>4, <1>5
  <2> QED BY <1>1, <1>7, <2>1 DEF CanGoOn
<1> QED BY <1>6, <1>7

\* A handler that waits for the root of its broadcast: the root comes.
LEMMA RootGoesOn ==
  ASSUME ControllerInv, LockFree, NEW v \in Workers, cpc[v] = "waiting",
         current_event[v] \notin set_events
  PROVE  \E r \in Workers : CanGoOn(r)
<1> DEFINE r == roots[created]
<1>1. /\ calls[v] = created /\ current_event[v] = created /\ created \in 0 .. MaxBroadcasts
      /\ roots \in [1 .. MaxBroadcasts -> Roots]
      /\ created > 0 => (calls[r] = created <=> created \in set_events)
  BY DEF ControllerInv, BroadcastInv
<1>2. /\ rpc[v] = "running" /\ nextCall[v] = "Broadcast" /\ bpc[v] = "out" /\ round[v] \in Nat
      /\ calls[v] = round[v] + 1 /\ departures[v] = 2 * round[v] + 1
  BY DEF ControllerInv, ProgramInv
<1>3. created > 0 /\ created \in 1 .. MaxBroadcasts /\ created = round[v] + 1
  BY <1>1, <1>2, BroadcastAssumption DEF BroadcastAssumption
<1>4. r \in Workers BY <1>1, <1>3, BroadcastAssumption DEF BroadcastAssumption
<1>5. calls[r] # created BY <1>1, <1>3
<1> HIDE DEF r
<1>6. round[r] = round[v] BY <1>2, <1>4, Apart DEF ControllerInv
<1>7. nextCall[r] \in {"Barrier", "Broadcast"} /\ cpc[r] = "out" /\ rpc[r] # "reading"
  BY <1>2, <1>3, <1>4, <1>5, <1>6 DEF ControllerInv, ProgramInv
<1>8. round[v] < Rounds
  BY <1>2, <1>3, ControllerAssumption DEF ControllerAssumption
<1>9. CASE rpc[r] = "none" BY <1>4, <1>6, <1>8, <1>9, CallGoesOn
<1>11. CASE rpc[r] = "running"
  <2>1. nextCall[r] = "Barrier" /\ bpc[r] # "out" /\ departures[r] = 2 * round[v]
    BY <1>4, <1>6, <1>7, <1>11 DEF ControllerInv, ProgramInv
  <2>2. CASE bpc[r] = "recheck" BY <1>4, <1>11, <2>2 DEF CanGoOn
  <2>3. CASE bpc[r] = "waiting"
    <3>1. /\ arrivals[r] = current_op_id[r] + 1 /\ departures[r] = arrivals[r] - 1
          /\ current_op_id[r] \in OpIds /\ arrivals[r] \in OpIds
      BY <1>4, <2>1 DEF ControllerInv, BarrierInv, BarrierTypeOK, CounterInv
    <3>2. departures[v] <= barrier_op_id /\ barrier_op_id \in OpIds
      BY <1>2 DEF ControllerInv, BarrierInv, BarrierTypeOK, CounterInv
    <3>3. current_op_id[r] = 2 * round[v]
      BY <1>2, <2>1, <3>1, BarrierAssumption DEF OpIds, BarrierAssumption
    <3>4. current_op_id[r] < barrier_op_id
      BY <1>2, <3>2, <3>3, BarrierAssumption DEF OpIds, BarrierAssumption
    <3>5. current_op_id[r] \in barrier_events
      BY <3>1, <3>4 DEF ControllerInv, BarrierInv, CounterInv
    <3> QED BY <1>4, <2>3, <3>5 DEF CanGoOn
  <2>4. bpc[r] \in {"out", "recheck", "waiting"}
    BY <1>4 DEF ControllerInv, BarrierInv, BarrierTypeOK
  <2> QED BY <2>1, <2>2, <2>3, <2>4
<1>12. rpc[r] \notin {"storing", "aborted"}
  BY <1>2, <1>4, <1>6, <1>7, Apart DEF ControllerInv, ProgramInv
<1>13. rpc[r] \in RpcStates BY <1>4 DEF ControllerInv, ProgramInv
<1> QED BY <1>7, <1>9, <1>11, <1>12, <1>13

\* A worker that waits for nobody's broadcast, and not for a barrier, goes on or has finished.
LEMMA OthersGoOn ==
  ASSUME ControllerInv, NEW v \in Workers,
         ~ \E w \in Workers : CanGoOn(w) \/ Missing(w)
  PROVE  \/ rpc[v] \in {"none", "aborted"} /\ round[v] >= Rounds
         \/ bpc[v] = "waiting" /\ current_op_id[v] \notin barrier_events
<1>1. LockFree /\ ~ CanGoOn(v) /\ ~ Missing(v) BY DEF LockFree, CanGoOn
<1>2. /\ rpc[v] \in RpcStates
      /\ cpc[v] \in {"out", "waiting", "returning"} /\ bpc[v] \in {"out", "recheck", "waiting"}
      /\ rpc[v] = "running" => bpc[v] # "out" \/ cpc[v] # "out"
      /\ round[v] \in Nat /\ Rounds \in Nat
  <2>1. /\ rpc[v] \in RpcStates /\ round[v] \in Nat
        /\ rpc[v] = "running" => bpc[v] # "out" \/ cpc[v] # "out"
    BY DEF ControllerInv, ProgramInv
  <2>2. cpc[v] \in {"out", "waiting", "returning"}
    BY DEF ControllerInv, BroadcastInv
  <2>3. bpc[v] \in {"out", "recheck", "waiting"}
    BY DEF ControllerInv, BarrierInv, BarrierTypeOK
  <2> QED BY <2>1, <2>2, <2>3, ControllerAssumption DEF ControllerAssumption
<1>3. rpc[v] = "none" => ~ (round[v] < Rounds) BY <1>1, CallGoesOn
<1>4. ~ (cpc[v] = "waiting" /\ current_event[v] \notin set_events) BY <1>1, RootGoesOn
<1> QED BY <1>1, <1>2, <1>3, <1>4 DEF CanGoOn, Missing

LEMMA SomebodyGoesOn == ControllerInv => NeverAllWaiting
<1> SUFFICES ASSUME ControllerInv, NEW x \in Workers, round[x] < Rounds,
                    ~ \E w \in Workers : CanGoOn(w) \/ Missing(w)
             PROVE  FALSE
  BY DEF NeverAllWaiting
<1>1. Rounds \in Nat /\ MaxBarriers = 2 * Rounds
  BY ControllerAssumption DEF ControllerAssumption
<1>2. \A v \in Workers : round[v] \in Nat BY DEF ControllerInv, ProgramInv
<1>3. bpc[x] = "waiting" /\ current_op_id[x] \notin barrier_events
  BY <1>1, <1>2, OthersGoOn
<1>4. /\ current_op_id[x] \in OpIds /\ barrier_op_id \in OpIds /\ arrivals[x] \in OpIds
      /\ arrivals[x] = current_op_id[x] + 1
      /\ arrivals[x] = barrier_op_id + (IF x \in counted[barrier_op_id] THEN 1 ELSE 0)
      /\ barrier_events = {id \in OpIds : id < barrier_op_id}
      /\ barrier_op_id < MaxBarriers => counted[barrier_op_id] # Workers
      /\ counted[barrier_op_id] \subseteq Workers
  BY <1>3 DEF ControllerInv, BarrierInv, BarrierTypeOK, CounterInv
<1>5. barrier_op_id < MaxBarriers
  <2>1. ~ (current_op_id[x] < barrier_op_id) BY <1>3, <1>4
  <2> QED BY <1>4, <2>1, BarrierAssumption DEF OpIds, BarrierAssumption
<1>6. PICK v \in Workers : v \notin counted[barrier_op_id] BY <1>4, <1>5
<1>7. arrivals[v] = barrier_op_id
  BY <1>4, <1>6, BarrierAssumption DEF ControllerInv, BarrierInv, CounterInv, OpIds, BarrierAssumption
<1>8. CASE rpc[v] \in {"none", "aborted"} /\ round[v] >= Rounds
  <2>1. bpc[v] = "out" /\ departures[v] >= 2 * round[v] /\ departures[v] \in Nat
    BY <1>2, <1>8 DEF ControllerInv, ProgramInv
  <2>2. departures[v] = arrivals[v] BY <2>1 DEF ControllerInv, BarrierInv, CounterInv
  <2> QED BY <1>1, <1>2, <1>5, <1>7, <1>8, <2>1, <2>2
<1>9. CASE bpc[v] = "waiting" /\ current_op_id[v] \notin barrier_events
  <2>1. current_op_id[v] \in OpIds /\ arrivals[v] = current_op_id[v] + 1
    BY <1>9 DEF ControllerInv, BarrierInv, BarrierTypeOK, CounterInv
  <2>2. current_op_id[v] < barrier_op_id
    BY <1>4, <1>7, <2>1, BarrierAssumption DEF OpIds, BarrierAssumption
  <2> QED BY <1>4, <1>9, <2>1, <2>2
<1> QED BY <1>8, <1>9, OthersGoOn

\* As long as a worker has rounds to go, some call can go on, or a process that
\* aborted in RdmaSession was not started again: with a thread per worker the
\* executor is no bottleneck, the lock is held by a call that can go on, a
\* barrier nobody has opened has a worker that is still on its way to it, and
\* so has a broadcast without a value its root.
THEOREM NobodyLeftWaiting == Spec => []NeverAllWaiting
BY ControllerInvariance, SomebodyGoesOn, PTL
=============================================================================
