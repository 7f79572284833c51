------------------------ MODULE BarrierRestartProofs ------------------------
(***************************************************************************)
(* Proofs about BarrierRestart, for every number of workers, of calls and   *)
(* of crashes.                                                              *)
(***************************************************************************)
EXTENDS BarrierRestart, FiniteSetTheorems, TLAPS

\* The number of workers, of the others, and of the handlers of an operation.
LEMMA Counts ==
  ASSUME RestartInv
  PROVE  /\ NumWorkers \in Nat
         /\ \A v \in Workers : /\ IsFiniteSet(Workers \ {v})
                               /\ Cardinality(Workers \ {v}) = NumWorkers - 1
         /\ \A id : /\ IsFiniteSet(HandlersOf(id)) /\ Cardinality(HandlersOf(id)) \in Nat
                    /\ HandlersOf(id) \subseteq Workers \X Nat
         /\ \A v : /\ IsFiniteSet({c \in crashed : c[1] # v})
                   /\ Cardinality({c \in crashed : c[1] # v}) \in Nat
<1>1. IsFiniteSet(Workers) /\ IsFiniteSet(DOMAIN handlers) /\ IsFiniteSet(crashed)
  BY WorkersAssumption DEF WorkersAssumption, RestartInv, RestartTypeOK
<1>2. NumWorkers \in Nat
  BY <1>1, FS_CardinalityType DEF NumWorkers
<1>3. \A v \in Workers : /\ IsFiniteSet(Workers \ {v})
                         /\ Cardinality(Workers \ {v}) = NumWorkers - 1
  BY <1>1, FS_RemoveElement DEF NumWorkers
<1>4. ASSUME NEW id
      PROVE  /\ IsFiniteSet(HandlersOf(id)) /\ Cardinality(HandlersOf(id)) \in Nat
             /\ HandlersOf(id) \subseteq Workers \X Nat
  <2>1. HandlersOf(id) \in SUBSET DOMAIN handlers
    BY DEF HandlersOf
  <2>2. IsFiniteSet(HandlersOf(id))
    BY <1>1, <2>1, FS_Subset
  <2>3. QED
    BY <2>1, <2>2, FS_CardinalityType DEF RestartInv, RestartTypeOK
<1>5. ASSUME NEW v
      PROVE  /\ IsFiniteSet({c \in crashed : c[1] # v})
             /\ Cardinality({c \in crashed : c[1] # v}) \in Nat
  <2>1. {c \in crashed : c[1] # v} \in SUBSET crashed
    OBVIOUS
  <2>2. IsFiniteSet({c \in crashed : c[1] # v})
    BY <1>1, <2>1, FS_Subset
  <2>3. QED
    BY <2>2, FS_CardinalityType
<1>6. QED
  BY <1>2, <1>3, <1>4, <1>5

\* The pigeonhole: an operation that as many calls have entered as there are
\* workers has one of v, or two of the same worker, who died in the first.
LEMMA FullIsCovered ==
  ASSUME RestartInv, NEW w \in Workers, w \notin calling, NEW v \in Workers, v # w,
         Cardinality(HandlersOf(barrier_op_id)) + 1 >= NumWorkers
  PROVE  Covered(v)
<1> DEFINE new == <<w, arrivals[w] + 1>>
           H == HandlersOf(barrier_op_id) \union {new}
           f == [h \in H |-> h[1]]
<1> SUFFICES ASSUME ~Covered(v) PROVE FALSE
  OBVIOUS
<1>1. arrivals[w] \in Nat
  BY DEF RestartInv, RestartTypeOK
<1>2. new \notin HandlersOf(barrier_op_id)
  BY <1>1 DEF RestartInv, CallersInv, HandlersOf
<1>3. \A h \in HandlersOf(barrier_op_id) :
        h[1] # v /\ h[1] \in calling /\ h = <<h[1], arrivals[h[1]]>>
  <2> SUFFICES ASSUME NEW h \in HandlersOf(barrier_op_id)
               PROVE  h[1] # v /\ h[1] \in calling /\ h = <<h[1], arrivals[h[1]]>>
    OBVIOUS
  <2>1. h[1] # v /\ h \notin crashed
    BY DEF Covered
  <2>2. h[1] \in calling /\ h[2] = arrivals[h[1]] /\ h \in Workers \X Nat
    BY <2>1, Counts DEF RestartInv, CallersInv, HandlersOf
  <2>3. QED
    BY <2>1, <2>2
<1>4. /\ IsFiniteSet(HandlersOf(barrier_op_id))
      /\ Cardinality(HandlersOf(barrier_op_id)) \in Nat
      /\ NumWorkers \in Nat /\ IsFiniteSet(Workers \ {v})
      /\ Cardinality(Workers \ {v}) = NumWorkers - 1
  BY Counts
<1>5. Cardinality(H) >= NumWorkers /\ Cardinality(H) \in Nat
  <2> HIDE DEF new
  <2>1. Cardinality(H) = Cardinality(HandlersOf(barrier_op_id)) + 1
    BY <1>2, <1>4, FS_AddElement
  <2>2. QED
    BY <1>4, <2>1
<1>6. f \in Injection(H, Workers \ {v})
  <2>1. \A h \in H : h[1] \in Workers \ {v}
    BY <1>3 DEF RestartInv, RestartTypeOK
  <2>2. \A g, h \in H : g[1] = h[1] => g = h
    BY <1>3
  <2> HIDE DEF H
  <2>3. f \in [H -> Workers \ {v}] /\ \A g, h \in H : f[g] = f[h] => g = h
    BY <2>1, <2>2
  <2>4. QED
    BY <2>3 DEF Injection, IsInjective
<1>7. Cardinality(H) <= NumWorkers - 1
  BY <1>4, <1>6, FS_Injection
<1>8. QED
  BY <1>4, <1>5, <1>7

\* An arrival keeps the invariant; the last one opens the next operation.
LEMMA ArriveKeepsInv ==
  ASSUME RestartInv, NEW w \in Workers, Arrive(w)
  PROVE  RestartInv'
<1> DEFINE id == barrier_op_id
           n == barrier_ctrs[id] + 1
           new == <<w, arrivals[w] + 1>>
           after(i) == {h \in DOMAIN handlers' : handlers'[h].id = i}
<1>1. /\ id \in Nat /\ id \in DOMAIN barrier_ctrs /\ DOMAIN barrier_ctrs \subseteq 0 .. id
      /\ \A i \in DOMAIN barrier_ctrs : barrier_ctrs[i] \in Nat
      /\ barrier_events = {i \in 0 .. id : i < id}
      /\ DOMAIN handlers \subseteq Workers \X Nat /\ IsFiniteSet(DOMAIN handlers)
      /\ \A h \in DOMAIN handlers :
           handlers[h] \in [pc : {"recheck", "waiting"}, id : DOMAIN barrier_ctrs]
      /\ calling \subseteq Workers /\ arrivals \in [Workers -> Nat]
      /\ departures \in [Workers -> Nat]
      /\ crashed \subseteq Workers \X Nat /\ IsFiniteSet(crashed)
  BY DEF RestartInv, RestartTypeOK
<1>2. /\ w \notin calling
      /\ handlers' = With(handlers, new, [pc |-> "recheck", id |-> id])
      /\ arrivals' = [arrivals EXCEPT ![w] = @ + 1]
      /\ calling' = calling \union {w}
      /\ UNCHANGED <<departures, crashed>>
  BY DEF Arrive
<1>3. arrivals[w] \in Nat /\ new \in Workers \X Nat
  BY <1>1
<1>4. new \notin DOMAIN handlers /\ new \notin crashed
  BY <1>3 DEF RestartInv, CallersInv
<1> HIDE DEF new
<1>5. /\ DOMAIN handlers' = DOMAIN handlers \union {new}
      /\ handlers'[new] = [pc |-> "recheck", id |-> id]
      /\ \A h \in DOMAIN handlers : handlers'[h] = handlers[h]
  BY <1>2, <1>4 DEF With
<1>6. /\ arrivals' \in [Workers -> Nat] /\ arrivals'[w] = arrivals[w] + 1
      /\ \A v \in Workers : v # w => arrivals'[v] = arrivals[v]
  BY <1>1, <1>2
<1>7. after(id) = HandlersOf(id) \union {new} /\ \A i : i # id => after(i) = HandlersOf(i)
  <2>1. handlers'[new].id = id
    BY <1>5
  <2>2. QED
    BY <1>4, <1>5, <2>1 DEF HandlersOf
<1>8. /\ Cardinality(HandlersOf(id) \union {new}) = n /\ n \in Nat
      /\ IsFiniteSet(DOMAIN handlers') /\ NumWorkers \in Nat
  <2>1. new \notin HandlersOf(id)
    BY <1>4 DEF HandlersOf
  <2>2. Cardinality(HandlersOf(id) \union {new}) = Cardinality(HandlersOf(id)) + 1
    BY <2>1, Counts, FS_AddElement
  <2>3. Cardinality(HandlersOf(id)) = barrier_ctrs[id]
    BY DEF RestartInv, HandlersCounted
  <2>4. QED
    BY <1>1, <1>5, <2>2, <2>3, Counts, FS_AddElement
<1>9. CallersInv'
  <2>1. \A h \in DOMAIN handlers' :
          /\ h[2] <= arrivals'[h[1]]
          /\ h \in crashed' \/ (h[1] \in calling' /\ h[2] = arrivals'[h[1]])
    <3> SUFFICES ASSUME NEW h \in DOMAIN handlers'
                 PROVE  /\ h[2] <= arrivals'[h[1]]
                        /\ h \in crashed' \/ (h[1] \in calling' /\ h[2] = arrivals'[h[1]])
      OBVIOUS
    <3>1. CASE h = new
      BY <1>2, <1>3, <1>6, <3>1 DEF new
    <3>2. CASE h # new
      <4>1. /\ h \in DOMAIN handlers /\ h[1] \in Workers /\ h[2] \in Nat
            /\ h[2] <= arrivals[h[1]] /\ arrivals[h[1]] \in Nat
            /\ h \in crashed \/ (h[1] \in calling /\ h[2] = arrivals[h[1]])
        BY <1>1, <1>5, <3>2 DEF RestartInv, CallersInv
      <4>2. QED
        BY <1>2, <1>6, <4>1
    <3>3. QED
      BY <3>1, <3>2
  <2>2. \A c \in crashed' : c[2] <= arrivals'[c[1]]
    <3> SUFFICES ASSUME NEW c \in crashed PROVE c[2] <= arrivals'[c[1]]
      BY <1>2
    <3>1. c[1] \in Workers /\ c[2] \in Nat /\ c[2] <= arrivals[c[1]] /\ arrivals[c[1]] \in Nat
      BY <1>1 DEF RestartInv, CallersInv
    <3>2. QED
      BY <1>6, <3>1
  <2>3. ASSUME NEW v \in calling'
        PROVE  /\ <<v, arrivals'[v]>> \in DOMAIN handlers' \ crashed'
               /\ departures'[v] <= handlers'[<<v, arrivals'[v]>>].id
    <3>1. CASE v = w
      <4>1. <<v, arrivals'[v]>> = new
        BY <1>6, <3>1 DEF new
      <4>2. departures[w] <= id /\ handlers'[new].id = id
        BY <1>5 DEF RestartInv, CallersInv
      <4>3. QED
        BY <1>2, <1>4, <1>5, <3>1, <4>1, <4>2
    <3>2. CASE v # w
      <4>1. v \in calling /\ v \in Workers /\ arrivals'[v] = arrivals[v]
        BY <1>1, <1>2, <1>6, <3>2
      <4>2. /\ <<v, arrivals[v]>> \in DOMAIN handlers \ crashed
            /\ departures[v] <= handlers[<<v, arrivals[v]>>].id
        BY <4>1 DEF RestartInv, CallersInv
      <4>3. QED
        BY <1>2, <1>5, <4>1, <4>2
    <3>3. QED
      BY <3>1, <3>2
  <2>4. \A v \in Workers : departures'[v] <= barrier_op_id'
    <3>1. barrier_op_id' = id \/ barrier_op_id' = id + 1
      BY DEF Arrive
    <3>2. \A v \in Workers : departures[v] <= id /\ departures[v] \in Nat
      BY <1>1 DEF RestartInv, CallersInv
    <3>3. QED
      BY <1>1, <1>2, <3>1, <3>2
  <2>5. QED
    BY <2>1, <2>2, <2>3, <2>4 DEF CallersInv
<1>10. \A v \in Workers :
         /\ arrivals[v] \in Nat /\ Cardinality({c \in crashed : c[1] # v}) \in Nat
         /\ id + (IF Covered(v) THEN 1 ELSE 0)
              <= arrivals[v] + Cardinality({c \in crashed : c[1] # v})
  BY <1>1, Counts DEF RestartInv, SlipInv
<1>11. CASE IsLastArrival(n)
  <2>1. /\ barrier_events' = barrier_events \union {id}
        /\ barrier_op_id' = id + 1
        /\ barrier_ctrs' = With(With(barrier_ctrs, id, n), id + 1, 0)
    BY <1>11 DEF Arrive, EventSet
  <2>2. id + 1 \notin DOMAIN barrier_ctrs
    BY <1>1
  <2>3. /\ DOMAIN barrier_ctrs' = DOMAIN barrier_ctrs \union {id + 1}
        /\ barrier_ctrs'[id + 1] = 0 /\ barrier_ctrs'[id] = n
        /\ \A i \in DOMAIN barrier_ctrs : i # id => barrier_ctrs'[i] = barrier_ctrs[i]
    <3> DEFINE ctrs == With(barrier_ctrs, id, n)
    <3>1. /\ DOMAIN ctrs = DOMAIN barrier_ctrs /\ ctrs[id] = n
          /\ \A i \in DOMAIN barrier_ctrs : i # id => ctrs[i] = barrier_ctrs[i]
      BY <1>1 DEF With
    <3> HIDE DEF ctrs
    <3>2. /\ DOMAIN barrier_ctrs' = DOMAIN ctrs \union {id + 1}
          /\ barrier_ctrs'[id + 1] = 0
          /\ \A i \in DOMAIN ctrs : i # id + 1 => barrier_ctrs'[i] = ctrs[i]
      BY <2>1 DEF With, ctrs
    <3>3. QED
      BY <1>1, <2>2, <3>1, <3>2
  <2>4. HandlersOf(id + 1) = {} /\ after(id + 1) = {}
    <3>1. HandlersOf(id + 1) = {}
      BY <1>1, <2>2 DEF HandlersOf
    <3>2. QED
      BY <1>1, <1>7, <3>1
  <2>5. RestartTypeOK'
    <3>1. barrier_events' = {i \in 0 .. id + 1 : i < id + 1}
      BY <1>1, <2>1
    <3>2. \A h \in DOMAIN handlers' :
            handlers'[h] \in [pc : {"recheck", "waiting"}, id : DOMAIN barrier_ctrs']
      BY <1>1, <1>5, <2>3
    <3>3. \A i \in DOMAIN barrier_ctrs' : barrier_ctrs'[i] \in Nat
      BY <1>1, <1>8, <2>3
    <3>4. QED
      BY <1>1, <1>2, <1>3, <1>5, <1>6, <1>8, <2>1, <2>3, <3>1, <3>2, <3>3 DEF RestartTypeOK
  <2>6. HandlersCounted'
    <3>1. Cardinality(after(id + 1)) = 0 /\ NumWorkers > 0
      <4>1. NumWorkers # 0
        BY FS_EmptySet, WorkersAssumption DEF WorkersAssumption, NumWorkers
      <4>2. QED
        BY <1>8, <2>4, <4>1, FS_EmptySet
    <3>2. ASSUME NEW i \in DOMAIN barrier_ctrs' PROVE Cardinality(after(i)) <= barrier_ctrs'[i]
      <4>1. CASE i = id + 1
        BY <2>3, <3>1, <4>1
      <4>2. CASE i = id
        <5>1. Cardinality(after(id)) = n
          BY <1>7, <1>8
        <5>2. QED
          BY <1>8, <2>3, <4>2, <5>1
      <4>3. CASE i # id /\ i # id + 1
        BY <1>7, <2>3, <4>3 DEF RestartInv, HandlersCounted
      <4>4. QED
        BY <4>1, <4>2, <4>3
    <3>3. QED
      BY <2>1, <2>3, <3>1, <3>2 DEF HandlersCounted, HandlersOf
  <2>7. SlipInv'
    <3> SUFFICES ASSUME NEW v \in Workers
                 PROVE  id + 1 <= arrivals'[v] + Cardinality({c \in crashed' : c[1] # v})
      BY <1>1, <2>1, <2>4 DEF SlipInv, Covered, HandlersOf
    <3>1. CASE v = w
      BY <1>1, <1>2, <1>6, <1>10, <3>1
    <3>2. CASE v # w
      <4>1. Covered(v)
        <5>1. Cardinality(HandlersOf(id)) + 1 >= NumWorkers
          BY <1>11 DEF IsLastArrival, RestartInv, HandlersCounted
        <5>2. QED
          BY <1>2, <3>2, <5>1, FullIsCovered
      <4>2. QED
        BY <1>1, <1>2, <1>6, <1>10, <3>2, <4>1
    <3>3. QED
      BY <3>1, <3>2
  <2>8. QED
    BY <1>9, <2>5, <2>6, <2>7 DEF RestartInv
<1>12. CASE ~IsLastArrival(n)
  <2>1. /\ UNCHANGED <<barrier_events, barrier_op_id>>
        /\ barrier_ctrs' = With(barrier_ctrs, id, n)
    BY <1>12 DEF Arrive
  <2>2. /\ DOMAIN barrier_ctrs' = DOMAIN barrier_ctrs /\ barrier_ctrs'[id] = n
        /\ \A i \in DOMAIN barrier_ctrs : i # id => barrier_ctrs'[i] = barrier_ctrs[i]
    BY <1>1, <2>1 DEF With
  <2>3. RestartTypeOK'
    <3>1. \A h \in DOMAIN handlers' :
            handlers'[h] \in [pc : {"recheck", "waiting"}, id : DOMAIN barrier_ctrs']
      BY <1>1, <1>5, <2>2
    <3>2. \A i \in DOMAIN barrier_ctrs' : barrier_ctrs'[i] \in Nat
      BY <1>1, <1>8, <2>2
    <3>3. QED
      BY <1>1, <1>2, <1>3, <1>5, <1>6, <1>8, <2>1, <2>2, <3>1, <3>2 DEF RestartTypeOK
  <2>4. HandlersCounted'
    <3>1. ASSUME NEW i \in DOMAIN barrier_ctrs' PROVE Cardinality(after(i)) <= barrier_ctrs'[i]
      <4>1. CASE i = id
        <5>1. Cardinality(after(id)) = n
          BY <1>7, <1>8
        <5>2. QED
          BY <1>8, <2>2, <4>1, <5>1
      <4>2. CASE i # id
        BY <1>7, <2>2, <4>2 DEF RestartInv, HandlersCounted
      <4>3. QED
        BY <4>1, <4>2
    <3>2. n < NumWorkers
      BY <1>8, <1>12 DEF IsLastArrival
    <3>3. QED
      BY <1>7, <1>8, <2>1, <2>2, <3>1, <3>2 DEF HandlersCounted, HandlersOf
  <2>5. SlipInv'
    <3> SUFFICES ASSUME NEW v \in Workers
                 PROVE  id + (IF Covered(v)' THEN 1 ELSE 0)
                          <= arrivals'[v] + Cardinality({c \in crashed' : c[1] # v})
      BY <2>1 DEF SlipInv
    <3>1. CASE v = w
      BY <1>1, <1>2, <1>6, <1>10, <3>1
    <3>2. CASE v # w
      <4>1. Covered(v)' => Covered(v)
        <5>1. HandlersOf(barrier_op_id)' = HandlersOf(id) \union {new}
          BY <1>7, <2>1 DEF HandlersOf
        <5>2. new[1] = w
          BY DEF new
        <5>3. QED
          BY <1>2, <1>4, <3>2, <5>1, <5>2 DEF Covered
      <4>2. QED
        BY <1>1, <1>2, <1>6, <1>10, <3>2, <4>1
    <3>3. QED
      BY <3>1, <3>2
  <2>6. QED
    BY <1>9, <2>3, <2>4, <2>5 DEF RestartInv
<1>13. QED
  BY <1>11, <1>12

\* A handler of a complete operation returns; `ctrs' is what it leaves.
LEMMA ReturnKeepsInv ==
  ASSUME RestartInv, NEW h \in DOMAIN handlers, Return(h),
         handlers[h].id < barrier_op_id,
         UNCHANGED <<barrier_op_id, barrier_events, arrivals, crashed>>,
         DOMAIN barrier_ctrs' \subseteq DOMAIN barrier_ctrs,
         \A i \in DOMAIN barrier_ctrs : i # handlers[h].id =>
           i \in DOMAIN barrier_ctrs' /\ barrier_ctrs'[i] = barrier_ctrs[i],
         handlers[h].id \in DOMAIN barrier_ctrs' =>
           /\ barrier_ctrs'[handlers[h].id] \in Nat
           /\ Cardinality(HandlersOf(handlers[h].id)) - 1 <= barrier_ctrs'[handlers[h].id],
         handlers[h].id \notin DOMAIN barrier_ctrs' => HandlersOf(handlers[h].id) = {h}
  PROVE  RestartInv'
<1> DEFINE id == handlers[h].id
           after(i) == {g \in DOMAIN handlers' : handlers'[g].id = i}
<1>1. /\ barrier_op_id \in Nat /\ barrier_op_id \in DOMAIN barrier_ctrs
      /\ DOMAIN barrier_ctrs \subseteq 0 .. barrier_op_id
      /\ \A i \in DOMAIN barrier_ctrs : barrier_ctrs[i] \in Nat
      /\ DOMAIN handlers \subseteq Workers \X Nat /\ IsFiniteSet(DOMAIN handlers)
      /\ \A g \in DOMAIN handlers :
           handlers[g] \in [pc : {"recheck", "waiting"}, id : DOMAIN barrier_ctrs]
      /\ calling \subseteq Workers /\ departures \in [Workers -> Nat]
      /\ id \in DOMAIN barrier_ctrs /\ id \in Nat
  BY DEF RestartInv, RestartTypeOK
<1>2. /\ DOMAIN handlers' = DOMAIN handlers \ {h}
      /\ \A g \in DOMAIN handlers' : handlers'[g] = handlers[g]
  BY DEF Return, Without, Restrict
<1>3. after(id) = HandlersOf(id) \ {h} /\ \A i : i # id => after(i) = HandlersOf(i)
  BY <1>2 DEF HandlersOf
<1>4. Cardinality(after(id)) = Cardinality(HandlersOf(id)) - 1
  <2>1. h \in HandlersOf(id)
    BY DEF HandlersOf
  <2>2. IsFiniteSet(HandlersOf(id))
    BY Counts
  <2>3. Cardinality(HandlersOf(id) \ {h}) = Cardinality(HandlersOf(id)) - 1
    BY <2>1, <2>2, FS_RemoveElement
  <2>4. QED
    BY <1>3, <2>3
<1>5. \A g \in DOMAIN handlers' : handlers[g].id \in DOMAIN barrier_ctrs'
  <2> SUFFICES ASSUME NEW g \in DOMAIN handlers' PROVE handlers[g].id \in DOMAIN barrier_ctrs'
    OBVIOUS
  <2>1. g \in DOMAIN handlers /\ g # h /\ handlers[g].id \in DOMAIN barrier_ctrs
    BY <1>1, <1>2
  <2>2. CASE handlers[g].id = id
    <3>1. g \in HandlersOf(id)
      BY <2>1, <2>2 DEF HandlersOf
    <3>2. QED
      BY <2>1, <2>2, <3>1
  <2>3. CASE handlers[g].id # id
    BY <2>1, <2>3
  <2>4. QED
    BY <2>2, <2>3
<1>6. /\ calling' \subseteq calling
      /\ departures' \in [Workers -> Nat]
      /\ \A v \in Workers : \/ departures'[v] = departures[v]
                            \/ departures'[v] = departures[v] + 1 /\ v = h[1]
                               /\ v \in calling /\ h[2] = arrivals[v] /\ v \notin calling'
      /\ h[1] \in calling /\ h[2] = arrivals[h[1]] => calling' = calling \ {h[1]}
      /\ ~(h[1] \in calling /\ h[2] = arrivals[h[1]]) => calling' = calling
  BY <1>1 DEF Return
<1>7. RestartTypeOK'
  <2>1. \A g \in DOMAIN handlers' :
          handlers'[g] \in [pc : {"recheck", "waiting"}, id : DOMAIN barrier_ctrs']
    <3> SUFFICES ASSUME NEW g \in DOMAIN handlers'
                 PROVE  handlers'[g] \in [pc : {"recheck", "waiting"}, id : DOMAIN barrier_ctrs']
      OBVIOUS
    <3>1. /\ handlers'[g] = handlers[g] /\ handlers[g].id \in DOMAIN barrier_ctrs'
          /\ handlers[g] \in [pc : {"recheck", "waiting"}, id : DOMAIN barrier_ctrs]
      BY <1>1, <1>2, <1>5
    <3>2. QED
      BY <3>1
  <2>2. IsFiniteSet(DOMAIN handlers') /\ DOMAIN handlers' \subseteq Workers \X Nat
    BY <1>1, <1>2, FS_RemoveElement
  <2>3. \A i \in DOMAIN barrier_ctrs' : barrier_ctrs'[i] \in Nat
    BY <1>1
  <2>4. barrier_op_id \in DOMAIN barrier_ctrs'
    BY <1>1
  <2>5. QED
    BY <1>1, <1>6, <2>1, <2>2, <2>3, <2>4 DEF RestartInv, RestartTypeOK
<1>8. HandlersCounted'
  <2>1. ASSUME NEW i \in DOMAIN barrier_ctrs' PROVE Cardinality(after(i)) <= barrier_ctrs'[i]
    <3>1. CASE i = id
      BY <1>4, <3>1
    <3>2. CASE i # id
      BY <1>3, <3>2 DEF RestartInv, HandlersCounted
    <3>3. QED
      BY <3>1, <3>2
  <2>2. after(barrier_op_id) = HandlersOf(barrier_op_id) /\ barrier_op_id # id
    BY <1>1, <1>3
  <2>3. barrier_ctrs'[barrier_op_id] = barrier_ctrs[barrier_op_id]
    BY <1>1, <2>2
  <2>4. QED
    BY <2>1, <2>2, <2>3 DEF RestartInv, HandlersCounted, HandlersOf
<1>9. CallersInv'
  <2>1. \A g \in DOMAIN handlers' :
          /\ g[2] <= arrivals'[g[1]]
          /\ g \in crashed' \/ (g[1] \in calling' /\ g[2] = arrivals'[g[1]])
    <3> SUFFICES ASSUME NEW g \in DOMAIN handlers'
                 PROVE  /\ g[2] <= arrivals[g[1]]
                        /\ g \in crashed \/ (g[1] \in calling' /\ g[2] = arrivals[g[1]])
      OBVIOUS
    <3>1. /\ g \in DOMAIN handlers /\ g # h
          /\ g[2] <= arrivals[g[1]]
          /\ g \in crashed \/ (g[1] \in calling /\ g[2] = arrivals[g[1]])
      BY <1>2 DEF RestartInv, CallersInv
    <3>2. g[1] # h[1] \/ g[2] # h[2]
      BY <1>1, <3>1
    <3>3. QED
      BY <1>6, <3>1, <3>2
  <2>2. \A c \in crashed' : c[2] <= arrivals'[c[1]]
    BY DEF RestartInv, CallersInv
  <2>3. ASSUME NEW v \in calling'
        PROVE  /\ <<v, arrivals'[v]>> \in DOMAIN handlers' \ crashed'
               /\ departures'[v] <= handlers'[<<v, arrivals'[v]>>].id
    <3>1. /\ v \in calling /\ v \in Workers
          /\ <<v, arrivals[v]>> \in DOMAIN handlers \ crashed
          /\ departures[v] <= handlers[<<v, arrivals[v]>>].id
      BY <1>1, <1>6 DEF RestartInv, CallersInv
    <3>2. <<v, arrivals[v]>> # h
      BY <1>6, <3>1
    <3>3. departures'[v] = departures[v]
      BY <1>6, <3>1
    <3>4. QED
      BY <1>2, <3>1, <3>2, <3>3
  <2>4. ASSUME NEW v \in Workers PROVE departures'[v] <= barrier_op_id'
    <3>1. departures[v] \in Nat /\ departures[v] <= barrier_op_id
      BY <1>1 DEF RestartInv, CallersInv
    <3>2. ASSUME v = h[1], v \in calling, h[2] = arrivals[v] PROVE departures[v] <= id
      <4>1. h = <<v, arrivals[v]>>
        BY <1>1, <3>2
      <4>2. QED
        BY <3>2, <4>1 DEF RestartInv, CallersInv
    <3>3. QED
      BY <1>1, <1>6, <3>1, <3>2
  <2>5. QED
    BY <2>1, <2>2, <2>3, <2>4 DEF CallersInv
<1>10. SlipInv'
  <2>1. HandlersOf(barrier_op_id)' = HandlersOf(barrier_op_id)
    <3>1. after(barrier_op_id) = HandlersOf(barrier_op_id)
      BY <1>1, <1>3
    <3>2. QED
      BY <3>1 DEF HandlersOf
  <2>2. \A v \in Workers : Covered(v)' <=> Covered(v)
    BY <2>1 DEF Covered
  <2>3. QED
    BY <2>2 DEF RestartInv, SlipInv
<1>11. QED
  BY <1>7, <1>8, <1>9, <1>10 DEF RestartInv

\* The unlocked second look finds the counter of a complete operation full,
\* and only changes where the handler is otherwise.
LEMMA RecheckKeepsInv ==
  ASSUME RestartInv, NEW h \in DOMAIN handlers, Recheck(h)
  PROVE  RestartInv'
<1> DEFINE id == handlers[h].id
<1>1. /\ barrier_op_id \in Nat /\ id \in DOMAIN barrier_ctrs /\ id \in Nat
      /\ id <= barrier_op_id /\ barrier_ctrs[id] \in Nat
      /\ UNCHANGED <<barrier_op_id, barrier_ctrs, barrier_events, arrivals, crashed>>
  BY DEF RestartInv, RestartTypeOK, Recheck
<1>2. CASE barrier_ctrs[id] < NumWorkers
  <2>1. handlers' = [handlers EXCEPT ![h].pc = "waiting"] /\ UNCHANGED <<calling, departures>>
    BY <1>2 DEF Recheck
  <2>2. /\ DOMAIN handlers' = DOMAIN handlers
        /\ \A g \in DOMAIN handlers :
             /\ handlers'[g].id = handlers[g].id
             /\ handlers'[g] \in [pc : {"recheck", "waiting"}, id : DOMAIN barrier_ctrs]
    BY <2>1 DEF RestartInv, RestartTypeOK
  <2>3. RestartTypeOK'
    BY <1>1, <2>1, <2>2 DEF RestartInv, RestartTypeOK
  <2>4. \A i : {g \in DOMAIN handlers' : handlers'[g].id = i} = HandlersOf(i)
    BY <2>2 DEF HandlersOf
  <2>5. HandlersCounted'
    BY <1>1, <2>4 DEF RestartInv, HandlersCounted, HandlersOf
  <2>6. CallersInv'
    BY <1>1, <2>1, <2>2 DEF RestartInv, CallersInv
  <2>7. \A v \in Workers : Covered(v)' <=> Covered(v)
    BY <1>1, <2>4 DEF Covered, HandlersOf
  <2>8. SlipInv'
    BY <1>1, <2>7 DEF RestartInv, SlipInv
  <2>9. QED
    BY <2>3, <2>5, <2>6, <2>8 DEF RestartInv
<1>3. CASE ~(barrier_ctrs[id] < NumWorkers)
  <2>1. id # barrier_op_id
    BY <1>3 DEF RestartInv, HandlersCounted
  <2>2. Return(h)
    BY <1>3 DEF Recheck
  <2>3. Cardinality(HandlersOf(id)) - 1 <= barrier_ctrs[id]
    <3>1. Cardinality(HandlersOf(id)) <= barrier_ctrs[id] /\ Cardinality(HandlersOf(id)) \in Nat
      BY <1>1, Counts DEF RestartInv, HandlersCounted
    <3>2. QED
      BY <1>1, <3>1
  <2>4. QED
    BY <1>1, <2>1, <2>2, <2>3, ReturnKeepsInv
<1>4. QED
  BY <1>2, <1>3

\* A handler that was woken deletes the operation only when it is its last.
LEMMA LeaveKeepsInv ==
  ASSUME RestartInv, NEW h \in DOMAIN handlers, Leave(h)
  PROVE  RestartInv'
<1> DEFINE id == handlers[h].id
           n == barrier_ctrs[id]
<1>1. /\ barrier_op_id \in Nat /\ id \in DOMAIN barrier_ctrs /\ id \in Nat
      /\ id < barrier_op_id /\ n \in Nat
      /\ UNCHANGED <<barrier_op_id, barrier_events, arrivals, crashed>>
      /\ Return(h)
  BY DEF RestartInv, RestartTypeOK, Leave
<1>2. /\ Cardinality(HandlersOf(id)) <= n /\ Cardinality(HandlersOf(id)) \in Nat
      /\ IsFiniteSet(HandlersOf(id)) /\ h \in HandlersOf(id)
  BY <1>1, Counts DEF RestartInv, HandlersCounted, HandlersOf
<1>3. Cardinality(HandlersOf(id)) >= 1 /\ n >= 1
  <2>1. Cardinality(HandlersOf(id)) # 0
    BY <1>2, FS_EmptySet
  <2>2. QED
    BY <1>1, <1>2, <2>1
<1>4. CASE n = 1
  <2>1. /\ DOMAIN barrier_ctrs' = DOMAIN barrier_ctrs \ {id}
        /\ \A i \in DOMAIN barrier_ctrs' : barrier_ctrs'[i] = barrier_ctrs[i]
    BY <1>4 DEF Leave, LastToLeave, Without, Restrict
  <2>2. HandlersOf(id) = {h}
    <3>1. Cardinality(HandlersOf(id)) = 1
      BY <1>2, <1>3, <1>4
    <3>2. \E g : HandlersOf(id) = {g}
      BY <1>2, <3>1, FS_Singleton
    <3>3. QED
      BY <1>2, <3>2
  <2>3. QED
    BY <1>1, <2>1, <2>2, ReturnKeepsInv
<1>5. CASE n # 1
  <2>1. /\ DOMAIN barrier_ctrs' = DOMAIN barrier_ctrs /\ barrier_ctrs'[id] = n - 1
        /\ \A i \in DOMAIN barrier_ctrs : i # id => barrier_ctrs'[i] = barrier_ctrs[i]
    BY <1>1, <1>5 DEF Leave, LastToLeave, With
  <2>2. n - 1 \in Nat /\ Cardinality(HandlersOf(id)) - 1 <= n - 1
    BY <1>1, <1>2, <1>3
  <2>3. QED
    BY <1>1, <2>1, <2>2, ReturnKeepsInv
<1>6. QED
  BY <1>4, <1>5

\* A crash leaves the handler as an orphan, counted as before.
LEMMA CrashKeepsInv ==
  ASSUME RestartInv, NEW w \in Workers, Crash(w)
  PROVE  RestartInv'
<1> DEFINE c == <<w, arrivals[w]>>
           Lost(v) == {d \in crashed : d[1] # v}
<1>1. /\ w \in calling /\ crashed' = crashed \union {c} /\ calling' = calling \ {w}
      /\ UNCHANGED <<barrier_op_id, barrier_ctrs, barrier_events, handlers, arrivals,
                     departures>>
  BY DEF Crash
<1>2. /\ c \in Workers \X Nat /\ arrivals[w] \in Nat
      /\ c \in DOMAIN handlers /\ c \notin crashed
  BY <1>1 DEF RestartInv, RestartTypeOK, CallersInv
<1>3. RestartTypeOK'
  <2>1. IsFiniteSet(crashed')
    BY <1>1, FS_AddElement DEF RestartInv, RestartTypeOK
  <2>2. QED
    BY <1>1, <1>2, <2>1 DEF RestartInv, RestartTypeOK
<1>4. HandlersCounted'
  BY <1>1 DEF RestartInv, HandlersCounted, HandlersOf
<1>5. CallersInv'
  <2>1. \A h \in DOMAIN handlers :
          h \in crashed' \/ (h[1] \in calling' /\ h[2] = arrivals[h[1]])
    <3> SUFFICES ASSUME NEW h \in DOMAIN handlers, h \notin crashed, h # c
                 PROVE  h[1] \in calling' /\ h[2] = arrivals[h[1]]
      BY <1>1
    <3>1. h[1] \in calling /\ h[2] = arrivals[h[1]] /\ h \in Workers \X Nat
      BY DEF RestartInv, RestartTypeOK, CallersInv
    <3>2. h[1] # w
      BY <3>1
    <3>3. QED
      BY <1>1, <3>1, <3>2
  <2>2. \A d \in crashed' : d[2] <= arrivals[d[1]]
    BY <1>1, <1>2 DEF RestartInv, CallersInv
  <2>3. ASSUME NEW v \in calling'
        PROVE  /\ <<v, arrivals[v]>> \in DOMAIN handlers \ crashed'
               /\ departures[v] <= handlers[<<v, arrivals[v]>>].id
    <3>1. /\ v \in calling /\ v # w
          /\ <<v, arrivals[v]>> \in DOMAIN handlers \ crashed
          /\ departures[v] <= handlers[<<v, arrivals[v]>>].id
      BY <1>1 DEF RestartInv, CallersInv
    <3>2. QED
      BY <1>1, <3>1
  <2>4. QED
    BY <1>1, <2>1, <2>2, <2>3 DEF RestartInv, CallersInv
<1>6. SlipInv'
  <2> SUFFICES ASSUME NEW v \in Workers
               PROVE  barrier_op_id + (IF Covered(v)' THEN 1 ELSE 0)
                        <= arrivals[v] + Cardinality({d \in crashed' : d[1] # v})
    BY <1>1 DEF SlipInv
  <2>1. /\ arrivals[v] \in Nat /\ barrier_op_id \in Nat
        /\ IsFiniteSet(Lost(v)) /\ Cardinality(Lost(v)) \in Nat
        /\ barrier_op_id + (IF Covered(v) THEN 1 ELSE 0)
             <= arrivals[v] + Cardinality(Lost(v))
    BY Counts DEF RestartInv, RestartTypeOK, SlipInv
  <2>2. CASE v = w
    <3>1. {d \in crashed' : d[1] # v} = Lost(v)
      BY <1>1, <2>2
    <3>2. Covered(v)' => Covered(v)
      BY <1>1, <2>2 DEF Covered, HandlersOf
    <3>3. QED
      BY <2>1, <3>1, <3>2
  <2>3. CASE v # w
    <3>1. {d \in crashed' : d[1] # v} = Lost(v) \union {c} /\ c \notin Lost(v)
      BY <1>1, <1>2, <2>3
    <3> HIDE DEF c
    <3>2. Cardinality({d \in crashed' : d[1] # v}) = Cardinality(Lost(v)) + 1
      <4> HIDE DEF Lost
      <4>1. QED
        BY <2>1, <3>1, FS_AddElement
    <3>3. QED
      BY <2>1, <3>2
  <2>4. QED
    BY <2>2, <2>3
<1>7. QED
  BY <1>3, <1>4, <1>5, <1>6 DEF RestartInv

LEMMA RestartInitInv == Init => RestartInv
<1> SUFFICES ASSUME Init PROVE RestartInv
  OBVIOUS
<1> USE DEF Init
<1>1. DOMAIN handlers = {} /\ \A id : HandlersOf(id) = {}
  BY DEF HandlersOf
<1>2. /\ IsFiniteSet({}) /\ Cardinality({}) = 0 /\ NumWorkers \in Nat /\ NumWorkers # 0
  BY FS_EmptySet, FS_CardinalityType, WorkersAssumption DEF WorkersAssumption, NumWorkers
<1>3. RestartTypeOK
  BY <1>1, <1>2 DEF RestartTypeOK
<1>4. HandlersCounted
  BY <1>1, <1>2 DEF HandlersCounted
<1>5. CallersInv
  BY <1>1 DEF CallersInv
<1>6. SlipInv
  <2>1. \A v : {c \in crashed : c[1] # v} = {}
    OBVIOUS
  <2>2. \A v : ~Covered(v)
    BY <1>1 DEF Covered
  <2>3. QED
    BY <1>2, <2>1, <2>2 DEF SlipInv
<1>7. QED
  BY <1>3, <1>4, <1>5, <1>6 DEF RestartInv

\* Counters and calls are as they should be, whoever dies.
THEOREM RestartInvariance == Spec => []RestartInv
<1>1. ASSUME RestartInv, [Next]_vars PROVE RestartInv'
  <2>1. CASE UNCHANGED vars
    <3> USE <1>1, <2>1 DEF vars, RestartInv
    <3>1. RestartTypeOK'
      BY DEF RestartTypeOK
    <3>2. HandlersCounted'
      BY DEF HandlersCounted, HandlersOf
    <3>3. CallersInv'
      BY DEF CallersInv
    <3>4. SlipInv'
      BY DEF SlipInv, Covered, HandlersOf
    <3>5. QED
      BY <3>1, <3>2, <3>3, <3>4
  <2>2. QED
    BY <1>1, <2>1, ArriveKeepsInv, RecheckKeepsInv, LeaveKeepsInv, CrashKeepsInv
    DEF Next, HandlerStep
<1>2. QED
  BY <1>1, RestartInitInv, PTL DEF Spec

\* Every crash shifts the barrier by one call at most.
THEOREM SlipIsBounded == Spec => []SlipBounded
<1>1. RestartInv => SlipBounded
  <2> SUFFICES ASSUME RestartInv, NEW v \in Workers, NEW w \in Workers
               PROVE  departures[w] <= arrivals[v] + Cardinality({c \in crashed : c[1] # v})
    BY DEF SlipBounded
  <2>1. /\ departures[w] \in Nat /\ arrivals[v] \in Nat /\ barrier_op_id \in Nat
        /\ departures[w] <= barrier_op_id
        /\ Cardinality({c \in crashed : c[1] # v}) \in Nat
    BY Counts DEF RestartInv, RestartTypeOK, CallersInv
  <2>2. barrier_op_id + (IF Covered(v) THEN 1 ELSE 0)
          <= arrivals[v] + Cardinality({c \in crashed : c[1] # v})
    BY DEF RestartInv, SlipInv
  <2>3. QED
    BY <2>1, <2>2
<1>2. QED
  BY <1>1, RestartInvariance, PTL

\* No handler, an orphan's included, finds its counter deleted.
THEOREM CountersOutliveCrashes == Spec => []NoKeyErrorAfterCrash
<1>1. RestartInv => NoKeyErrorAfterCrash
  BY DEF RestartInv, RestartTypeOK, NoKeyErrorAfterCrash
<1>2. QED
  BY <1>1, RestartInvariance, PTL

\* Orphans never take all threads: the handlers that wait for an arrival are
\* those of the current operation, and its counter is not full.
THEOREM ThreadsRemain == Spec => []WaitersBounded
<1>1. RestartInv => WaitersBounded
  <2> SUFFICES ASSUME RestartInv PROVE WaitersBounded
    OBVIOUS
  <2>1. \A h \in DOMAIN handlers : handlers[h].id \notin barrier_events
                                   <=> handlers[h].id = barrier_op_id
    BY DEF RestartInv, RestartTypeOK
  <2>2. {h \in DOMAIN handlers : handlers[h].id \notin barrier_events}
          = HandlersOf(barrier_op_id)
    BY <2>1 DEF HandlersOf
  <2>3. QED
    BY <2>2 DEF RestartInv, HandlersCounted, WaitersBounded
<1>2. QED
  BY <1>1, RestartInvariance, PTL
=============================================================================
