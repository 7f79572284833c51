---------------------------- MODULE ProxyProofs ----------------------------
(***************************************************************************)
(* Proofs about Proxy, for every number of clients, channels, blocks and    *)
(* elements per block, and that it implements ProxyQueue: the pointers of a *)
(* channel list its elements in exactly one way, and every step changes     *)
(* that list as a FIFO queue would.                                         *)
(***************************************************************************)
EXTENDS ProxyRefinement, SequenceTheorems, FiniteSetTheorems, TLAPS

\* The initial state satisfies the list invariant: all lists are empty.
LEMMA InitListInv == Init => ListInv
<1> SUFFICES ASSUME Init PROVE ListInv
  OBVIOUS
<1> USE ProxyAssumption DEF ProxyAssumption, Init, InitExceptThread
<1>1. TypeOK
  <2>1. unsignalled \in [Clients -> BOOLEAN]
    OBVIOUS
  <2>2. /\ iterations \in [Args -> 0 .. MaxIterations]
        /\ idleSpin \in 0 .. IdleSpinLimit - 1
    OBVIOUS
  <2>3. state \in [Args -> ProxyOpState]
    BY DEF ProxyOpState
  <2>4. QED
    BY <2>1, <2>2, <2>3 DEF TypeOK
<1>2. Ring = {} /\ Peers = {} /\ Pool = {} /\ Queued = {}
  BY DEF Ring, Peers, Pool, Queued, In
<1>3. RingIsOneCycle
  BY <1>2 DEF RingIsOneCycle
<1>4. ChannelTails
  BY <1>2 DEF ChannelTails
<1>5. NothingLost
  BY <1>2 DEF NothingLost
<1>6. PoolIsFree
  BY <1>2 DEF PoolIsFree
<1>7. ThreadInv
  BY DEF ThreadInv
<1>8. QED
  BY <1>1, <1>3, <1>4, <1>5, <1>6, <1>7 DEF ListInv

\* A step that leaves every list alone keeps the invariants about the lists.
LEMMA ListsUnchanged ==
  ASSUME RingIsOneCycle, ChannelTails, NothingLost, PoolIsFree,
         UNCHANGED <<ops, pool, next, nextPeer, proxyTail, channelTail, held, place>>
  PROVE  RingIsOneCycle' /\ ChannelTails' /\ NothingLost' /\ PoolIsFree'
<1>1. Ring' = Ring /\ Peers' = Peers /\ Pool' = Pool /\ Queued' = Queued
  BY DEF Ring, Peers, Pool, Queued, In
<1>2. RingIsOneCycle'
  BY <1>1 DEF RingIsOneCycle
<1>3. ChannelTails'
  BY <1>1 DEF ChannelTails
<1>4. NothingLost'
  BY <1>1 DEF NothingLost
<1>5. PoolIsFree'
  BY <1>1 DEF PoolIsFree
<1>6. QED
  BY <1>2, <1>3, <1>4, <1>5

\* The steps of the proxy thread that only move it along the ring.
LEMMA WalkKeepsListInv ==
  ASSUME ListInv, CheckAbort \/ Fetch \/ SpuriousWakeup \/ Progress \/ AdvanceKeep
  PROVE  ListInv'
<1> USE ProxyAssumption DEF ProxyAssumption
<1>1. UNCHANGED <<ops, pool, next, nextPeer, proxyTail, channelTail, held, place>>
  BY DEF CheckAbort, Fetch, SpuriousWakeup, Progress, AdvanceKeep, handlerVars,
         argsVars, clientVars, ProgressCallback, Runnable
<1>2. RingIsOneCycle' /\ ChannelTails' /\ NothingLost' /\ PoolIsFree'
  BY <1>1, ListsUnchanged DEF ListInv
<1>3. Ring' = Ring
  BY <1>1 DEF Ring, In
<1>4. CASE CheckAbort \/ Fetch \/ SpuriousWakeup
  <2>1. TypeOK'
    BY <1>4 DEF ListInv, TypeOK, CheckAbort, Fetch, SpuriousWakeup, handlerVars,
                argsVars, clientVars
  <2>2. ThreadInv'
    BY <1>3, <1>4 DEF ListInv, ThreadInv, RingIsOneCycle, CheckAbort, Fetch,
                      SpuriousWakeup, handlerVars, argsVars, clientVars
  <2>3. QED
    BY <1>2, <2>1, <2>2 DEF ListInv
<1>5. CASE Progress
  <2>1. op \in Args
    BY <1>5 DEF Progress, Runnable, ListInv, ThreadInv, Ring, In
  <2>2. TypeOK'
    <3>1. state' \in [Args -> ProxyOpState]
      BY <1>5, <2>1 DEF ListInv, TypeOK, Progress, ProgressCallback, ProxyOpState, Runnable
    <3>2. iterations' \in [Args -> 0 .. MaxIterations]
      BY <1>5, <2>1 DEF ListInv, TypeOK, ThreadInv, Progress, ProgressCallback, Runnable
    <3>3. idle' \in BOOLEAN
      BY <1>5 DEF Progress, Runnable
    <3>4. QED
      BY <1>5, <3>1, <3>2, <3>3 DEF ListInv, TypeOK, Progress, handlerVars,
                                    clientVars, Runnable
  <2>3. ThreadInv'
    BY <1>3, <1>5, <2>1 DEF ListInv, TypeOK, ThreadInv, Progress,
                ProgressCallback, handlerVars, clientVars, ProxyOpState, Runnable
  <2>4. QED
    BY <1>2, <2>2, <2>3 DEF ListInv
<1>6. CASE AdvanceKeep
  <2>1. op \in Ring /\ next[op] \in Ring /\ next[op] \in Args
    BY <1>6 DEF AdvanceKeep, ListInv, ThreadInv, RingIsOneCycle, Ring, In
  <2>2. TypeOK'
    BY <1>6, <2>1 DEF ListInv, TypeOK, AdvanceKeep, CountIdle, handlerVars,
                argsVars, clientVars
  <2>3. ThreadInv'
    BY <1>3, <1>6, <2>1 DEF ListInv, ThreadInv, AdvanceKeep, handlerVars,
                argsVars, clientVars
  <2>4. QED
    BY <1>2, <2>2, <2>3 DEF ListInv
<1>7. QED
  BY <1>4, <1>5, <1>6

\* Replacing a finished element by its next peer keeps the list invariant.
LEMMA PeerKeepsListInv ==
  ASSUME ListInv, AdvancePeer
  PROVE  ListInv'
<1> USE ProxyAssumption DEF ProxyAssumption
<1> DEFINE f == next[op]
           p == nextPeer[f]
<1>1. /\ op \in Ring /\ f \in Ring /\ p \in Peers
      /\ op \in Args /\ f \in Args /\ p \in Args
      /\ f \in Queued /\ p \in Queued
      /\ p # f /\ p # op
  BY DEF AdvancePeer, ListInv, ThreadInv, RingIsOneCycle, NothingLost, Ring,
         Peers, Queued, In
<1>2. /\ ops' = IF f = ops THEN p ELSE ops
      /\ pool' = f
      /\ op' = p
      /\ place' = [place EXCEPT ![f] = "pool", ![p] = "ring"]
      /\ tpc' = "check"
      /\ UNCHANGED <<proxyThread, stop, abortFlag, pools, nextPeer, state,
                     proxyTail, iterations, channelTail, cpc, held, unsignalled>>
  BY DEF AdvancePeer, clientVars, OpsAfter, PeerLinks
<1>3. next' \in [Args -> Args \union {NULL}]
  BY <1>1 DEF AdvancePeer, ListInv, TypeOK, OpsAfter, PeerLinks
<1>4. /\ \A a \in Args : a # p /\ a # op /\ a # f => next'[a] = next[a]
      /\ next'[f] = pool
      /\ op # f => next'[p] = next[f] /\ next'[op] = p
      /\ op = f => next'[p] = p
  BY <1>1 DEF AdvancePeer, ListInv, TypeOK, OpsAfter, PeerLinks
<1>5. place' \in [Args -> {"unmapped", "pool", "held", "ring", "peer"}]
  BY <1>1, <1>2 DEF ListInv, TypeOK
<1>6. \A a \in Args : place'[a] = IF a = f THEN "pool"
                                  ELSE IF a = p THEN "ring" ELSE place[a]
  BY <1>1, <1>2 DEF ListInv, TypeOK
<1>7. /\ Ring' = (Ring \ {f}) \union {p}
      /\ Peers' = Peers \ {p}
      /\ Pool' = Pool \union {f}
      /\ Queued' = Queued \ {f}
  BY <1>1, <1>6 DEF Ring, Peers, Pool, Queued, In
<1>8. TypeOK'
  <2>1. idle' \in BOOLEAN /\ idleSpin' \in 0 .. IdleSpinLimit - 1
    BY DEF AdvancePeer, CountIdle, ListInv, TypeOK
  <2>2. QED
    BY <1>1, <1>2, <1>3, <1>5, <2>1 DEF ListInv, TypeOK
<1>9. RingIsOneCycle'
  <2>1. IF ops' = NULL THEN Ring' = {} ELSE ops' \in Ring'
    BY <1>1, <1>2, <1>7 DEF ListInv, RingIsOneCycle
  <2>2. ASSUME NEW a \in Ring' PROVE next'[a] \in Ring'
    BY <1>1, <1>4, <1>7 DEF ListInv, RingIsOneCycle, Ring, In
  <2>3. ASSUME NEW a \in Ring', NEW b \in Ring', next'[a] = next'[b] PROVE a = b
    BY <1>1, <1>4, <1>7, <2>3 DEF ListInv, RingIsOneCycle, Ring, Peers, In
  <2>4. ASSUME NEW S \in SUBSET (Ring'), S # {},
               \A a \in S : next'[a] \in S
        PROVE  S = Ring'
    \* S with the finished element back in the place of its peer is closed
    \* under the old next.
    <3> DEFINE T == IF p \in S THEN (S \ {p}) \union {f} ELSE S
    <3>1. T \in SUBSET Ring /\ T # {}
      BY <1>1, <1>7, <2>4
    <3>2. ASSUME NEW a \in T PROVE next[a] \in T
      BY <1>1, <1>4, <1>7, <2>4 DEF ListInv, RingIsOneCycle, Ring, Peers, In
    <3>3. T = Ring
      BY <3>1, <3>2 DEF ListInv, RingIsOneCycle
    <3>4. QED
      BY <1>1, <1>7, <3>3
  <2>5. QED
    BY <2>1, <2>2, <2>3, <2>4 DEF RingIsOneCycle
<1>10. ChannelTails'
  <2>1. proxyTail[p] = proxyTail[f]
    BY <1>1 DEF AdvancePeer, ListInv, NothingLost
  <2>2. \A a, b \in Ring' : proxyTail'[a] = proxyTail'[b] => a = b
    BY <1>1, <1>2, <1>7, <2>1 DEF ListInv, ChannelTails
  <2>3. ASSUME NEW a \in Queued'
        PROVE  /\ proxyTail'[a] \in Channels
               /\ channelTail'[proxyTail'[a]] # NULL
               /\ nextPeer'[a] = NULL => channelTail'[proxyTail'[a]] = a
    BY <1>2, <1>7 DEF ListInv, ChannelTails
  <2>4. ASSUME NEW ch \in Channels, channelTail'[ch] # NULL
        PROVE  /\ channelTail'[ch] \in Queued'
               /\ proxyTail'[channelTail'[ch]] = ch
               /\ nextPeer'[channelTail'[ch]] = NULL
               /\ \E a \in Ring' : proxyTail'[a] = ch
    <3>1. channelTail[ch] # f
      BY <1>1, <1>2, <2>4 DEF AdvancePeer, ListInv, ChannelTails
    <3>2. PICK a \in Ring : proxyTail[a] = ch
      BY <1>2, <2>4 DEF ListInv, ChannelTails
    <3>3. \E b \in Ring' : proxyTail[b] = ch
      BY <1>1, <1>7, <2>1, <3>2
    <3>4. QED
      BY <1>2, <1>7, <2>4, <3>1, <3>3 DEF ListInv, ChannelTails
  <2>5. QED
    BY <2>2, <2>3, <2>4 DEF ChannelTails
<1>11. NothingLost'
  <2>1. ASSUME NEW a \in Queued', nextPeer'[a] # NULL
        PROVE  nextPeer'[a] \in Peers' /\ proxyTail'[nextPeer'[a]] = proxyTail'[a]
    <3>1. nextPeer[a] # p
      BY <1>1, <1>2, <1>7, <2>1 DEF ListInv, NothingLost
    <3>2. QED
      BY <1>1, <1>2, <1>7, <2>1, <3>1 DEF ListInv, NothingLost
  <2>2. \A a, b \in Queued' :
          nextPeer'[a] # NULL /\ nextPeer'[a] = nextPeer'[b] => a = b
    BY <1>2, <1>7 DEF ListInv, NothingLost
  <2>3. ASSUME NEW S \in SUBSET (Queued'), Ring' \subseteq S,
               \A a \in S : nextPeer'[a] # NULL => nextPeer'[a] \in S
        PROVE  S = Queued'
    <3> DEFINE T == S \union {f}
    <3>1. T \in SUBSET Queued /\ Ring \subseteq T
      BY <1>1, <1>7, <2>3
    <3>2. ASSUME NEW a \in T, nextPeer[a] # NULL PROVE nextPeer[a] \in T
      BY <1>1, <1>2, <1>7, <2>3, <3>2
    <3>3. T = Queued
      BY <3>1, <3>2 DEF ListInv, NothingLost
    <3>4. QED
      BY <1>7, <2>3, <3>3
  <2>4. QED
    BY <2>1, <2>2, <2>3 DEF NothingLost
<1>12. PoolIsFree'
  <2>1. \A a \in Pool : a # f /\ a # p /\ a # op /\ a \in Args
    BY <1>1 DEF Ring, Peers, Pool, In
  <2>2. \A a \in Pool : next'[a] = next[a]
    BY <1>4, <2>1
  <2>3. pool # NULL => pool \in Pool
    BY DEF ListInv, PoolIsFree
  <2>4. ASSUME NEW a \in Pool', next'[a] # NULL
        PROVE  next'[a] \in Pool' /\ next'[a] # pool'
    BY <1>2, <1>4, <1>7, <2>1, <2>2, <2>3, <2>4 DEF ListInv, PoolIsFree
  <2>5. ASSUME NEW a \in Pool', NEW b \in Pool',
               next'[a] # NULL, next'[a] = next'[b]
        PROVE  a = b
    BY <1>2, <1>4, <1>7, <2>1, <2>2, <2>3, <2>5 DEF ListInv, PoolIsFree
  <2>6. ASSUME NEW c \in Clients, held'[c] # NULL
        PROVE  /\ place'[held'[c]] = "held"
               /\ nextPeer'[held'[c]] = NULL
               /\ \A d \in Clients : held'[d] = held'[c] => d = c
    <3>1. held[c] # f /\ held[c] # p
      BY <1>1, <1>2, <2>6 DEF ListInv, PoolIsFree, Ring, Peers, In
    <3>2. held[c] \in Args
      BY <1>2, <2>6 DEF ListInv, TypeOK
    <3>3. QED
      BY <1>2, <1>6, <2>6, <3>1, <3>2 DEF ListInv, PoolIsFree
  <2>7. QED
    BY <1>2, <1>7, <2>4, <2>5, <2>6 DEF PoolIsFree
<1>13. ThreadInv'
  BY <1>1, <1>2, <1>7 DEF AdvancePeer, ListInv, ThreadInv
<1>14. QED
  BY <1>8, <1>9, <1>10, <1>11, <1>12, <1>13 DEF ListInv

\* Unlinking the last element of a channel keeps the list invariant.
LEMMA UnlinkKeepsListInv ==
  ASSUME ListInv, AdvanceUnlink
  PROVE  ListInv'
<1> USE ProxyAssumption DEF ProxyAssumption
<1> DEFINE f == next[op]
           after == IF op # f THEN next[f] ELSE NULL
<1>1. /\ op \in Ring /\ f \in Ring /\ op \in Args /\ f \in Args
      /\ f \in Queued /\ nextPeer[f] = NULL
      /\ proxyTail[f] \in Channels /\ channelTail[proxyTail[f]] = f
  BY DEF AdvanceUnlink, ListInv, ThreadInv, RingIsOneCycle, ChannelTails, Ring,
         Queued, In
<1>2. /\ ops' = IF f = ops THEN after ELSE ops
      /\ pool' = f
      /\ op' = after
      /\ channelTail' = [channelTail EXCEPT ![proxyTail[f]] = NULL]
      /\ place' = [place EXCEPT ![f] = "pool"]
      /\ tpc' = "check"
      /\ UNCHANGED <<proxyThread, stop, abortFlag, pools, nextPeer, state,
                     proxyTail, iterations, cpc, held, unsignalled>>
  BY DEF AdvanceUnlink, clientVars, OpsAfter, UnlinkLinks
\* The successor of f is f itself only in a ring of one element, op.
<1>3. op # f => after \in Ring /\ after # f /\ after \in Args
  BY <1>1 DEF ListInv, RingIsOneCycle, Ring, In
<1>4. op = f => Ring = {f}
  <2>1. ASSUME op = f PROVE {f} = Ring
    <3>1. {f} \in SUBSET Ring /\ {f} # {} /\ \A a \in {f} : next[a] \in {f}
      BY <1>1, <2>1
    <3>2. QED
      BY <3>1 DEF ListInv, RingIsOneCycle
  <2>2. QED
    BY <2>1
<1>5. next' \in [Args -> Args \union {NULL}]
  BY <1>1, <1>3 DEF AdvanceUnlink, ListInv, TypeOK, OpsAfter, UnlinkLinks
<1>6. /\ \A a \in Args : a # op /\ a # f => next'[a] = next[a]
      /\ next'[f] = pool
      /\ op # f => next'[op] = next[f]
  BY <1>1 DEF AdvanceUnlink, ListInv, TypeOK, OpsAfter, UnlinkLinks
<1>7. /\ place' \in [Args -> {"unmapped", "pool", "held", "ring", "peer"}]
      /\ \A a \in Args : place'[a] = IF a = f THEN "pool" ELSE place[a]
  BY <1>1, <1>2 DEF ListInv, TypeOK
<1>8. /\ Ring' = Ring \ {f}
      /\ Peers' = Peers
      /\ Pool' = Pool \union {f}
      /\ Queued' = Queued \ {f}
  BY <1>1, <1>7 DEF Ring, Peers, Pool, Queued, In
<1>9. TypeOK'
  <2>1. idle' \in BOOLEAN /\ idleSpin' \in 0 .. IdleSpinLimit - 1
    BY DEF AdvanceUnlink, CountIdle, ListInv, TypeOK
  <2>2. channelTail' \in [Channels -> Args \union {NULL}]
    BY <1>1, <1>2 DEF ListInv, TypeOK
  <2>3. QED
    BY <1>1, <1>2, <1>3, <1>5, <1>7, <2>1, <2>2 DEF ListInv, TypeOK
<1>10. RingIsOneCycle'
  <2>1. IF ops' = NULL THEN Ring' = {} ELSE ops' \in Ring'
    BY <1>1, <1>2, <1>3, <1>4, <1>8 DEF ListInv, RingIsOneCycle
  <2>2. ASSUME NEW a \in Ring' PROVE next'[a] \in Ring'
    BY <1>1, <1>3, <1>4, <1>6, <1>8 DEF ListInv, RingIsOneCycle, Ring, In
  <2>3. ASSUME NEW a \in Ring', NEW b \in Ring', next'[a] = next'[b] PROVE a = b
    BY <1>1, <1>3, <1>4, <1>6, <1>8, <2>3 DEF ListInv, RingIsOneCycle, Ring, In
  <2>4. ASSUME NEW S \in SUBSET (Ring'), S # {},
               \A a \in S : next'[a] \in S
        PROVE  S = Ring'
    <3> DEFINE T == IF op \in S THEN S \union {f} ELSE S
    <3>1. T \in SUBSET Ring /\ T # {}
      BY <1>1, <1>8, <2>4
    <3>2. ASSUME NEW a \in T PROVE next[a] \in T
      BY <1>1, <1>3, <1>4, <1>6, <1>8, <2>4 DEF Ring, In
    <3>3. T = Ring
      BY <3>1, <3>2 DEF ListInv, RingIsOneCycle
    <3>4. QED
      BY <1>1, <1>8, <2>4, <3>3
  <2>5. QED
    BY <2>1, <2>2, <2>3, <2>4 DEF RingIsOneCycle
<1>11. NothingLost'
  <2>1. \A a \in Queued' : nextPeer'[a] # NULL =>
           nextPeer'[a] \in Peers' /\ proxyTail'[nextPeer'[a]] = proxyTail'[a]
    BY <1>2, <1>8 DEF ListInv, NothingLost
  <2>2. \A a, b \in Queued' :
          nextPeer'[a] # NULL /\ nextPeer'[a] = nextPeer'[b] => a = b
    BY <1>2, <1>8 DEF ListInv, NothingLost
  <2>3. ASSUME NEW S \in SUBSET (Queued'), Ring' \subseteq S,
               \A a \in S : nextPeer'[a] # NULL => nextPeer'[a] \in S
        PROVE  S = Queued'
    <3> DEFINE T == S \union {f}
    <3>1. T \in SUBSET Queued /\ Ring \subseteq T
      BY <1>1, <1>8, <2>3
    <3>2. ASSUME NEW a \in T, nextPeer[a] # NULL PROVE nextPeer[a] \in T
      BY <1>1, <1>2, <2>3, <3>2
    <3>3. T = Queued
      BY <3>1, <3>2 DEF ListInv, NothingLost
    <3>4. QED
      BY <1>8, <2>3, <3>3
  <2>4. QED
    BY <2>1, <2>2, <2>3 DEF NothingLost
<1>12. ChannelTails'
  \* f was alone in its channel: an element of it would be reached from f.
  <2>1. \A a \in Queued : proxyTail[a] = proxyTail[f] => a = f
    <3> DEFINE T == {a \in Queued : proxyTail[a] = proxyTail[f] => a = f}
    <3>1. T \in SUBSET Queued /\ Ring \subseteq T
      BY <1>1 DEF ListInv, ChannelTails, Queued
    <3>2. ASSUME NEW a \in T, nextPeer[a] # NULL PROVE nextPeer[a] \in T
      <4>1. a \in Queued /\ a # f
        BY <1>1, <3>2
      <4>2. nextPeer[a] \in Queued /\ proxyTail[nextPeer[a]] = proxyTail[a]
        BY <3>2, <4>1 DEF ListInv, NothingLost, Queued
      <4>3. QED
        BY <3>2, <4>1, <4>2
    <3>3. T = Queued
      BY <3>1, <3>2 DEF ListInv, NothingLost
    <3>4. QED
      BY <3>3
  <2>2. \A a, b \in Ring' : proxyTail'[a] = proxyTail'[b] => a = b
    BY <1>2, <1>8 DEF ListInv, ChannelTails
  <2>3. \A ch \in Channels : channelTail'[ch] =
                               IF ch = proxyTail[f] THEN NULL ELSE channelTail[ch]
    BY <1>1, <1>2 DEF ListInv, TypeOK
  <2>4. ASSUME NEW a \in Queued'
        PROVE  /\ proxyTail'[a] \in Channels
               /\ channelTail'[proxyTail'[a]] # NULL
               /\ nextPeer'[a] = NULL => channelTail'[proxyTail'[a]] = a
    BY <1>2, <1>8, <2>1, <2>3 DEF ListInv, ChannelTails
  <2>5. ASSUME NEW ch \in Channels, channelTail'[ch] # NULL
        PROVE  /\ channelTail'[ch] \in Queued'
               /\ proxyTail'[channelTail'[ch]] = ch
               /\ nextPeer'[channelTail'[ch]] = NULL
               /\ \E a \in Ring' : proxyTail'[a] = ch
    BY <1>1, <1>2, <1>8, <2>3, <2>5 DEF ListInv, ChannelTails
  <2>6. QED
    BY <2>2, <2>4, <2>5 DEF ChannelTails
<1>13. PoolIsFree'
  <2>1. \A a \in Pool : a # f /\ a # op /\ a \in Args
    BY <1>1 DEF Ring, Pool, In
  <2>2. \A a \in Pool : next'[a] = next[a]
    BY <1>6, <2>1
  <2>3. pool # NULL => pool \in Pool
    BY DEF ListInv, PoolIsFree
  <2>4. ASSUME NEW a \in Pool', next'[a] # NULL
        PROVE  next'[a] \in Pool' /\ next'[a] # pool'
    BY <1>2, <1>6, <1>8, <2>1, <2>2, <2>3, <2>4 DEF ListInv, PoolIsFree
  <2>5. ASSUME NEW a \in Pool', NEW b \in Pool',
               next'[a] # NULL, next'[a] = next'[b]
        PROVE  a = b
    BY <1>2, <1>6, <1>8, <2>1, <2>2, <2>3, <2>5 DEF ListInv, PoolIsFree
  <2>6. ASSUME NEW c \in Clients, held'[c] # NULL
        PROVE  /\ place'[held'[c]] = "held"
               /\ nextPeer'[held'[c]] = NULL
               /\ \A d \in Clients : held'[d] = held'[c] => d = c
    <3>1. held[c] # f
      BY <1>1, <1>2, <2>6 DEF ListInv, PoolIsFree, Ring, In
    <3>2. held[c] \in Args
      BY <1>2, <2>6 DEF ListInv, TypeOK
    <3>3. QED
      BY <1>2, <1>7, <2>6, <3>1, <3>2 DEF ListInv, PoolIsFree
  <2>7. QED
    BY <1>2, <1>8, <2>4, <2>5, <2>6 DEF PoolIsFree
<1>14. ThreadInv'
  BY <1>1, <1>2, <1>3, <1>8 DEF AdvanceUnlink, ListInv, ThreadInv
<1>15. QED
  BY <1>9, <1>10, <1>11, <1>12, <1>13, <1>14 DEF ListInv

\* Steps that leave the queues alone and only move elements between the
\* unmapped memory, the pool and the clients keep the queue invariants.
LEMMA QueuesUnchanged ==
  ASSUME RingIsOneCycle, ChannelTails, NothingLost,
         UNCHANGED <<ops, channelTail>>,
         Ring' = Ring, Peers' = Peers,
         \A a \in Queued : /\ next'[a] = next[a]
                           /\ nextPeer'[a] = nextPeer[a]
                           /\ proxyTail'[a] = proxyTail[a]
  PROVE  RingIsOneCycle' /\ ChannelTails' /\ NothingLost'
<1>1. Queued' = Queued /\ Ring \subseteq Queued
  BY DEF Queued
<1>2. RingIsOneCycle'
  <2>1. \A a \in Ring : next'[a] = next[a]
    BY <1>1
  <2>2. \A S \in SUBSET (Ring') : S # {} /\ (\A a \in S : next'[a] \in S) => S = Ring'
    BY <2>1 DEF RingIsOneCycle
  <2>3. QED
    BY <2>1, <2>2 DEF RingIsOneCycle
<1>3. ChannelTails'
  BY <1>1 DEF ChannelTails
<1>4. NothingLost'
  <2>1. /\ \A a \in Queued' : nextPeer'[a] # NULL =>
              nextPeer'[a] \in Peers' /\ proxyTail'[nextPeer'[a]] = proxyTail'[a]
        /\ \A a, b \in Queued' :
              nextPeer'[a] # NULL /\ nextPeer'[a] = nextPeer'[b] => a = b
    BY <1>1 DEF NothingLost, Queued
  <2>2. ASSUME NEW S \in SUBSET (Queued'), Ring' \subseteq S,
               \A a \in S : nextPeer'[a] # NULL => nextPeer'[a] \in S
        PROVE  S = Queued'
    <3>1. \A a \in S : nextPeer[a] # NULL => nextPeer[a] \in S
      BY <1>1, <2>2
    <3>2. QED
      BY <1>1, <2>2, <3>1 DEF NothingLost
  <2>3. QED
    BY <2>1, <2>2 DEF NothingLost
<1>5. QED
  BY <1>2, <1>3, <1>4

\* allocateArgs from the pool keeps the list invariant.
LEMMA PoolAllocKeepsListInv ==
  ASSUME ListInv, NEW c \in Clients, AllocFromPool(c)
  PROVE  ListInv'
<1> USE ProxyAssumption DEF ProxyAssumption
<1>1. pool \in Pool /\ pool \in Args
  BY DEF AllocFromPool, ListInv, PoolIsFree, Pool, In
<1>2. /\ pool' = next[pool]
      /\ held' = [held EXCEPT ![c] = pool]
      /\ UNCHANGED <<proxyThread, ops, stop, abortFlag, pools, state, proxyTail,
                     iterations, channelTail, tpc, op, idle, idleSpin, cpc,
                     unsignalled>>
  BY DEF AllocFromPool, threadVars
<1>3. /\ place' \in [Args -> {"unmapped", "pool", "held", "ring", "peer"}]
      /\ next' \in [Args -> Args \union {NULL}]
      /\ nextPeer' \in [Args -> Args \union {NULL}]
      /\ \A a \in Args : /\ place'[a] = IF a = pool THEN "held" ELSE place[a]
                         /\ a # pool => next'[a] = next[a]
                         /\ nextPeer'[a] = IF a = pool THEN NULL ELSE nextPeer[a]
  BY <1>1 DEF AllocFromPool, ListInv, TypeOK, LinkCleared
<1>4. /\ Ring' = Ring /\ Peers' = Peers
      /\ Pool' = Pool \ {pool}
  BY <1>1, <1>3 DEF Ring, Peers, Pool, In
<1>5. \A a \in Queued : /\ next'[a] = next[a]
                        /\ nextPeer'[a] = nextPeer[a]
                        /\ proxyTail'[a] = proxyTail[a]
  BY <1>1, <1>2, <1>3 DEF Queued, Ring, Peers, Pool, In
<1>6. RingIsOneCycle' /\ ChannelTails' /\ NothingLost'
  BY <1>2, <1>4, <1>5, QueuesUnchanged DEF ListInv
<1>7. TypeOK'
  <2>1. held' \in [Clients -> Args \union {NULL}]
    BY <1>1, <1>2 DEF ListInv, TypeOK
  <2>2. QED
    BY <1>1, <1>2, <1>3, <2>1 DEF ListInv, TypeOK
<1>8. PoolIsFree'
  <2>1. \A a \in Pool' : a \in Pool /\ next'[a] = next[a]
    BY <1>3, <1>4 DEF Pool, In
  <2>2. pool' # NULL => pool' \in Pool'
    BY <1>1, <1>2, <1>4 DEF ListInv, PoolIsFree
  <2>3. ASSUME NEW a \in Pool', next'[a] # NULL
        PROVE  next'[a] \in Pool' /\ next'[a] # pool'
    BY <1>1, <1>2, <1>4, <2>1, <2>3 DEF ListInv, PoolIsFree
  <2>4. \A a, b \in Pool' : next'[a] # NULL /\ next'[a] = next'[b] => a = b
    BY <2>1 DEF ListInv, PoolIsFree
  <2>5. \A d \in Clients : held'[d] = IF d = c THEN pool ELSE held[d]
    BY <1>2 DEF ListInv, TypeOK
  <2>6. \A d \in Clients : held[d] # pool
    BY <1>1 DEF ListInv, PoolIsFree, Pool, In
  <2>7. ASSUME NEW d \in Clients, held'[d] # NULL
        PROVE  /\ place'[held'[d]] = "held"
               /\ nextPeer'[held'[d]] = NULL
               /\ \A e \in Clients : held'[e] = held'[d] => e = d
    <3>1. held[d] # NULL => held[d] \in Args
      BY DEF ListInv, TypeOK
    <3>2. QED
      BY <1>1, <1>3, <2>5, <2>6, <2>7, <3>1 DEF ListInv, PoolIsFree
  <2>8. QED
    BY <2>2, <2>3, <2>4, <2>7 DEF PoolIsFree
<1>9. ThreadInv'
  BY <1>2, <1>4 DEF ListInv, ThreadInv
<1>10. QED
  BY <1>6, <1>7, <1>8, <1>9 DEF ListInv

\* allocateArgs from a fresh block keeps the list invariant.
LEMMA BlockAllocKeepsListInv ==
  ASSUME ListInv, NEW c \in Clients, NEW b \in Blocks, AllocNewBlock(c, b)
  PROVE  ListInv'
<1> USE ProxyAssumption DEF ProxyAssumption
<1> DEFINE chain(i) == IF i < PROXYARGS_ALLOCATE_SIZE THEN <<b, i + 1>> ELSE NULL
<1>1. <<b, 1>> \in Args
  BY DEF Args
<1>2. ASSUME NEW i \in 1 .. PROXYARGS_ALLOCATE_SIZE, chain(i) # NULL
      PROVE  /\ i < PROXYARGS_ALLOCATE_SIZE
             /\ chain(i) = <<b, i + 1>>
             /\ chain(i) \in Args
  <2>1. i < PROXYARGS_ALLOCATE_SIZE /\ chain(i) = <<b, i + 1>>
    BY <1>2
  <2>2. i + 1 \in 1 .. PROXYARGS_ALLOCATE_SIZE
    BY <2>1
  <2>3. QED
    BY <2>1, <2>2 DEF Args
<1> HIDE DEF chain
<1>3. \A a \in Args : /\ a[1] \in Blocks /\ a[2] \in 1 .. PROXYARGS_ALLOCATE_SIZE
                      /\ a = <<a[1], a[2]>>
  BY DEF Args
<1>4. /\ pool = NULL
      /\ pool' = chain(1)
      /\ pools' = pools \union {b}
      /\ held' = [held EXCEPT ![c] = <<b, 1>>]
      /\ \A a \in Args : a[1] = b => place[a] = "unmapped"
      /\ UNCHANGED <<proxyThread, ops, stop, abortFlag, channelTail, tpc, op,
                     idle, idleSpin, cpc, unsignalled>>
  BY DEF AllocNewBlock, threadVars, chain
<1>5. /\ next' = [a \in Args |-> IF a[1] # b THEN next[a]
                                ELSE IF a[2] = 1 THEN NULL ELSE chain(a[2])]
      /\ nextPeer' = [a \in Args |-> IF a[1] = b THEN NULL ELSE nextPeer[a]]
      /\ state' = [a \in Args |-> IF a[1] = b THEN "ProxyOpNone" ELSE state[a]]
      /\ proxyTail' = [a \in Args |-> IF a[1] = b THEN NULL ELSE proxyTail[a]]
      /\ iterations' = [a \in Args |-> IF a[1] = b THEN 0 ELSE iterations[a]]
      /\ place' = [a \in Args |-> IF a[1] # b THEN place[a]
                                  ELSE IF a[2] = 1 THEN "held" ELSE "pool"]
  BY DEF AllocNewBlock, chain
<1>6. TypeOK'
  <2>1. next' \in [Args -> Args \union {NULL}]
    BY <1>2, <1>3, <1>5 DEF ListInv, TypeOK
  <2>2. nextPeer' \in [Args -> Args \union {NULL}]
    BY <1>5 DEF ListInv, TypeOK
  <2>3. state' \in [Args -> ProxyOpState]
    BY <1>5 DEF ListInv, TypeOK, ProxyOpState
  <2>4. proxyTail' \in [Args -> Channels \union {NULL}]
    BY <1>5 DEF ListInv, TypeOK
  <2>5. iterations' \in [Args -> 0 .. MaxIterations]
    BY <1>5 DEF ListInv, TypeOK
  <2>6. place' \in [Args -> {"unmapped", "pool", "held", "ring", "peer"}]
    BY <1>5 DEF ListInv, TypeOK
  <2>7. held' \in [Clients -> Args \union {NULL}]
    BY <1>1, <1>4 DEF ListInv, TypeOK
  <2>8. pool' \in Args \union {NULL} /\ pools' \in SUBSET Blocks
    <3>1. 1 \in 1 .. PROXYARGS_ALLOCATE_SIZE
      OBVIOUS
    <3>2. QED
      BY <1>2, <1>4, <3>1 DEF ListInv, TypeOK
  <2>9. QED
    BY <1>4, <2>1, <2>2, <2>3, <2>4, <2>5, <2>6, <2>7, <2>8 DEF ListInv, TypeOK
<1>7. /\ Ring' = Ring /\ Peers' = Peers
      /\ Pool' = Pool \union {a \in Args : a[1] = b /\ a[2] # 1}
  BY <1>4, <1>5 DEF Ring, Peers, Pool, In
<1>8. \A a \in Queued : /\ next'[a] = next[a]
                        /\ nextPeer'[a] = nextPeer[a]
                        /\ proxyTail'[a] = proxyTail[a]
  BY <1>4, <1>5 DEF Queued, Ring, Peers, In
<1>9. RingIsOneCycle' /\ ChannelTails' /\ NothingLost'
  BY <1>4, <1>7, <1>8, QueuesUnchanged DEF ListInv
<1>10. PoolIsFree'
  <2>1. \A a \in Pool : a[1] # b /\ a \in Args /\ next'[a] = next[a]
    BY <1>4, <1>5 DEF Pool, In
  <2>2. ASSUME NEW a \in Args, a[1] = b, a[2] # 1, next'[a] # NULL
        PROVE  /\ next'[a] = <<b, a[2] + 1>>
               /\ next'[a] \in Args
               /\ next'[a][1] = b
               /\ next'[a][2] = a[2] + 1
               /\ a[2] \in Nat /\ a[2] > 1
    <3>1. next'[a] = chain(a[2]) /\ a[2] \in 1 .. PROXYARGS_ALLOCATE_SIZE
      BY <1>3, <1>5, <2>2
    <3>2. next'[a] = <<b, a[2] + 1>> /\ next'[a] \in Args
      BY <1>2, <2>2, <3>1
    <3>3. QED
      BY <2>2, <3>1, <3>2
  <2>3. pool' # NULL => /\ pool' = <<b, 2>>
                        /\ pool' \in Args
                        /\ pool'[1] = b /\ pool'[2] = 2
                        /\ pool' \in Pool'
    <3>1. SUFFICES ASSUME pool' # NULL PROVE /\ pool' = <<b, 2>>
                                             /\ pool' \in Args
                                             /\ pool'[1] = b /\ pool'[2] = 2
                                             /\ pool' \in Pool'
      OBVIOUS
    <3>2. 1 \in 1 .. PROXYARGS_ALLOCATE_SIZE /\ 1 + 1 = 2
      OBVIOUS
    <3>3. pool' = <<b, 2>> /\ pool' \in Args
      BY <1>2, <1>4, <3>1, <3>2
    <3>4. pool'[1] = b /\ pool'[2] = 2
      BY <3>3
    <3>5. QED
      BY <1>7, <3>3, <3>4
  <2>4. ASSUME NEW a \in Pool', next'[a] # NULL
        PROVE  next'[a] \in Pool' /\ next'[a] # pool'
    <3>1. CASE a \in Pool
      <4>1. next[a] \in Pool
        BY <2>1, <2>4, <3>1 DEF ListInv, PoolIsFree
      <4>2. next[a] # pool'
        BY <2>1, <2>3, <2>4, <3>1, <4>1
      <4>3. QED
        BY <1>7, <2>1, <3>1, <4>1, <4>2
    <3>2. CASE a \in Args /\ a[1] = b /\ a[2] # 1
      <4>1. /\ next'[a] \in Args /\ next'[a][1] = b
            /\ next'[a][2] # 1 /\ next'[a][2] # 2
        BY <2>2, <2>4, <3>2
      <4>2. next'[a] \in Pool'
        BY <1>7, <4>1
      <4>3. next'[a] # pool'
        BY <2>3, <2>4, <4>1
      <4>4. QED
        BY <4>2, <4>3
    <3>3. QED
      BY <1>7, <3>1, <3>2
  <2>5. ASSUME NEW x \in Pool', NEW y \in Pool',
               next'[x] # NULL, next'[x] = next'[y]
        PROVE  x = y
    <3>1. CASE x \in Pool /\ y \in Pool
      BY <2>1, <2>5, <3>1 DEF ListInv, PoolIsFree
    <3>2. CASE x \notin Pool /\ y \notin Pool
      <4>1. /\ x \in Args /\ x[1] = b /\ x[2] # 1
            /\ y \in Args /\ y[1] = b /\ y[2] # 1
        BY <1>7, <3>2
      <4>2. x[2] + 1 = y[2] + 1 /\ x[2] \in Nat /\ y[2] \in Nat
        BY <2>2, <2>5, <4>1
      <4>3. x[2] = y[2]
        BY <4>2
      <4>4. QED
        BY <1>3, <4>1, <4>3
    <3>3. ASSUME NEW u \in Pool, NEW v \in Args, v[1] = b, v[2] # 1,
                 next'[u] # NULL
          PROVE  next'[u] # next'[v]
      <4>1. next'[u] \in Pool /\ next'[u][1] # b
        BY <2>1, <3>3 DEF ListInv, PoolIsFree
      <4>2. next'[v] # NULL => next'[v][1] = b
        BY <2>2, <3>3
      <4>3. QED
        BY <3>3, <4>1, <4>2
    <3>4. QED
      BY <1>7, <2>5, <3>1, <3>2, <3>3
  <2>6. \A d \in Clients : held'[d] = IF d = c THEN <<b, 1>> ELSE held[d]
    BY <1>4 DEF ListInv, TypeOK
  <2>7. ASSUME NEW d \in Clients, held[d] # NULL
        PROVE  /\ held[d] \in Args /\ held[d][1] # b
               /\ place'[held[d]] = "held"
               /\ nextPeer'[held[d]] = NULL
    <3>1. held[d] \in Args /\ place[held[d]] = "held" /\ nextPeer[held[d]] = NULL
      BY <2>7 DEF ListInv, TypeOK, PoolIsFree
    <3>2. QED
      BY <1>4, <1>5, <3>1
  <2>8. place'[<<b, 1>>] = "held" /\ nextPeer'[<<b, 1>>] = NULL
    BY <1>1, <1>5
  <2>9. ASSUME NEW d \in Clients, held'[d] # NULL
        PROVE  /\ place'[held'[d]] = "held"
               /\ nextPeer'[held'[d]] = NULL
               /\ \A e \in Clients : held'[e] = held'[d] => e = d
    BY <2>6, <2>7, <2>8, <2>9 DEF ListInv, PoolIsFree
  <2>10. QED
    BY <2>3, <2>4, <2>5, <2>9 DEF PoolIsFree
<1>11. ThreadInv'
  BY <1>4, <1>5, <1>7 DEF ListInv, ThreadInv
<1>12. QED
  BY <1>6, <1>9, <1>10, <1>11 DEF ListInv

\* ProxyArgsAppend, whether it opens a channel or extends one, keeps the list
\* invariant.
LEMMA AppendKeepsListInv ==
  ASSUME ListInv, NEW c \in Clients, NEW ch \in Channels, ProxyArgsAppend(c, ch)
  PROVE  ListInv'
<1> USE ProxyAssumption DEF ProxyAssumption
<1> DEFINE A == held[c]
           t == channelTail[ch]
<1>1. /\ A \in Args /\ A # NULL /\ place[A] = "held" /\ nextPeer[A] = NULL
      /\ A \notin Ring /\ A \notin Peers /\ A \notin Queued /\ A \notin Pool
  BY DEF ProxyArgsAppend, ListInv, TypeOK, PoolIsFree, Ring, Peers, Queued, Pool, In
<1>2. PICK done \in 0 .. MaxIterations - 1 : Fill(A, ch, done)
  BY DEF ProxyArgsAppend
<1>3. /\ channelTail' = [channelTail EXCEPT ![ch] = A]
      /\ held' = [held EXCEPT ![c] = NULL]
      /\ unsignalled' = [unsignalled EXCEPT ![c] = TRUE]
      /\ UNCHANGED <<proxyThread, stop, abortFlag, pool, pools, tpc, op, idle,
                     idleSpin, cpc>>
  BY DEF ProxyArgsAppend, threadVars, PeerLinked, TailMoved
<1>4. /\ channelTail' \in [Channels -> Args \union {NULL}]
      /\ held' \in [Clients -> Args \union {NULL}]
      /\ unsignalled' \in [Clients -> BOOLEAN]
      /\ \A k \in Channels : channelTail'[k] = IF k = ch THEN A ELSE channelTail[k]
      /\ \A d \in Clients : held'[d] = IF d = c THEN NULL ELSE held[d]
  <2>1. /\ channelTail' \in [Channels -> Args \union {NULL}]
        /\ \A k \in Channels : channelTail'[k] = IF k = ch THEN A ELSE channelTail[k]
    BY <1>1, <1>3 DEF ListInv, TypeOK
  <2>2. /\ held' \in [Clients -> Args \union {NULL}]
        /\ \A d \in Clients : held'[d] = IF d = c THEN NULL ELSE held[d]
    BY <1>3 DEF ListInv, TypeOK
  <2>3. unsignalled' \in [Clients -> BOOLEAN]
    BY <1>3 DEF ListInv, TypeOK
  <2>4. QED
    BY <2>1, <2>2, <2>3
<1>5. /\ state' \in [Args -> ProxyOpState]
      /\ proxyTail' \in [Args -> Channels \union {NULL}]
      /\ iterations' \in [Args -> 0 .. MaxIterations]
      /\ \A a \in Args : proxyTail'[a] = IF a = A THEN ch ELSE proxyTail[a]
      /\ \A a \in Args : state'[a] # "ProxyOpNone" => iterations'[a] < MaxIterations
  <2>1. state' \in [Args -> ProxyOpState]
    BY <1>1, <1>2 DEF Fill, ListInv, TypeOK, ProxyOpState
  <2>2. /\ proxyTail' \in [Args -> Channels \union {NULL}]
        /\ \A a \in Args : proxyTail'[a] = IF a = A THEN ch ELSE proxyTail[a]
    BY <1>1, <1>2 DEF Fill, ListInv, TypeOK
  <2>3. iterations' \in [Args -> 0 .. MaxIterations]
    BY <1>1, <1>2 DEF Fill, ListInv, TypeOK
  <2>4. \A a \in Args : state'[a] # "ProxyOpNone" => iterations'[a] < MaxIterations
    BY <1>1, <1>2 DEF Fill, ListInv, TypeOK, ThreadInv
  <2>5. QED
    BY <2>1, <2>2, <2>3, <2>4
<1>6. \A d \in Clients : d # c /\ held[d] # NULL =>
        /\ held[d] \in Args /\ held[d] # A /\ place[held[d]] = "held"
        /\ held[d] \notin Queued /\ nextPeer[held[d]] = NULL
  BY DEF ListInv, TypeOK, PoolIsFree, Queued, Ring, Peers, In
<1>7. \A a \in Queued : a \in Args /\ a # A
  BY <1>1 DEF Queued, Ring, Peers, In
<1>8. CASE /\ t = NULL
           /\ next' = IF ops = NULL THEN [next EXCEPT ![A] = A]
                      ELSE [next EXCEPT ![A] = next[ops], ![ops] = A]
           /\ ops' = IF ops = NULL THEN A ELSE ops
           /\ place' = [place EXCEPT ![A] = "ring"]
           /\ UNCHANGED nextPeer
  <2>1. ops # NULL => ops \in Ring /\ ops \in Args /\ ops # A /\ next[ops] \in Ring
    BY <1>1 DEF ListInv, RingIsOneCycle, Ring, In
  <2>2. /\ next' \in [Args -> Args \union {NULL}]
        /\ ops = NULL => next'[A] = A /\ Ring = {}
        /\ ops # NULL => next'[A] = next[ops] /\ next'[ops] = A
        /\ \A a \in Args : a # A /\ a # ops => next'[a] = next[a]
    BY <1>1, <1>8, <2>1 DEF ListInv, TypeOK, RingIsOneCycle, Ring, In
  <2>3. /\ place' \in [Args -> {"unmapped", "pool", "held", "ring", "peer"}]
        /\ \A a \in Args : place'[a] = IF a = A THEN "ring" ELSE place[a]
    BY <1>1, <1>8 DEF ListInv, TypeOK
  <2>4. /\ Ring' = Ring \union {A} /\ Peers' = Peers /\ Pool' = Pool
        /\ Queued' = Queued \union {A}
    BY <1>1, <2>3 DEF Ring, Peers, Pool, Queued, In
  <2>5. TypeOK'
    BY <1>1, <1>3, <1>4, <1>5, <1>8, <2>1, <2>2, <2>3 DEF ListInv, TypeOK
  <2>6. RingIsOneCycle'
    <3>1. IF ops' = NULL THEN Ring' = {} ELSE ops' \in Ring'
      BY <1>1, <1>8, <2>1, <2>4
    <3>2. ASSUME NEW a \in Ring' PROVE next'[a] \in Ring'
      BY <1>1, <2>1, <2>2, <2>4 DEF ListInv, RingIsOneCycle, Ring, In
    <3>3. ASSUME NEW x \in Ring', NEW y \in Ring', next'[x] = next'[y] PROVE x = y
      BY <1>1, <2>1, <2>2, <2>4, <3>3 DEF ListInv, RingIsOneCycle, Ring, In
    <3>4. ASSUME NEW S \in SUBSET (Ring'), S # {}, \A a \in S : next'[a] \in S
          PROVE  S = Ring'
      <4>1. CASE ops = NULL
        BY <2>2, <2>4, <3>4, <4>1
      <4>2. CASE ops # NULL
        <5> DEFINE T == S \ {A}
        <5>1. T \in SUBSET Ring /\ T # {}
          BY <1>1, <2>1, <2>2, <2>4, <3>4, <4>2
        <5>2. ASSUME NEW a \in T PROVE next[a] \in T
          BY <1>1, <2>1, <2>2, <2>4, <3>4, <4>2 DEF ListInv, RingIsOneCycle, Ring, In
        <5>3. T = Ring
          BY <5>1, <5>2 DEF ListInv, RingIsOneCycle
        <5>4. A \in S
          BY <2>1, <2>2, <3>4, <4>2, <5>3
        <5>5. QED
          BY <2>4, <5>3, <5>4
      <4>3. QED
        BY <4>1, <4>2
    <3>5. QED
      BY <3>1, <3>2, <3>3, <3>4 DEF RingIsOneCycle
  <2>7. ChannelTails'
    <3>1. \A a \in Queued : proxyTail[a] # ch /\ proxyTail'[a] = proxyTail[a]
      BY <1>5, <1>7, <1>8 DEF ListInv, ChannelTails
    <3>2. \A a, b \in Ring' : proxyTail'[a] = proxyTail'[b] => a = b
      BY <1>1, <1>5, <2>4, <3>1 DEF ListInv, ChannelTails, Queued
    <3>3. ASSUME NEW a \in Queued'
          PROVE  /\ proxyTail'[a] \in Channels
                 /\ channelTail'[proxyTail'[a]] # NULL
                 /\ nextPeer'[a] = NULL => channelTail'[proxyTail'[a]] = a
      BY <1>1, <1>4, <1>5, <1>8, <2>4, <3>1 DEF ListInv, ChannelTails
    <3>4. ASSUME NEW k \in Channels, channelTail'[k] # NULL
          PROVE  /\ channelTail'[k] \in Queued'
                 /\ proxyTail'[channelTail'[k]] = k
                 /\ nextPeer'[channelTail'[k]] = NULL
                 /\ \E a \in Ring' : proxyTail'[a] = k
      <4>1. CASE k = ch
        BY <1>1, <1>4, <1>5, <1>8, <2>4, <4>1
      <4>2. CASE k # ch
        <5>1. PICK a \in Ring : proxyTail[a] = k
          BY <1>4, <3>4, <4>2 DEF ListInv, ChannelTails
        <5>2. a \in Ring' /\ proxyTail'[a] = k
          BY <2>4, <3>1, <5>1 DEF Queued
        <5>3. QED
          BY <1>4, <1>8, <2>4, <3>1, <3>4, <4>2, <5>2 DEF ListInv, ChannelTails
      <4>3. QED
        BY <4>1, <4>2
    <3>5. QED
      BY <3>2, <3>3, <3>4 DEF ChannelTails
  <2>8. NothingLost'
    <3>1. \A a \in Queued' : nextPeer'[a] # NULL => a \in Queued /\ nextPeer'[a] = nextPeer[a]
      BY <1>1, <1>8, <2>4
    <3>2. ASSUME NEW a \in Queued', nextPeer'[a] # NULL
          PROVE  nextPeer'[a] \in Peers' /\ proxyTail'[nextPeer'[a]] = proxyTail'[a]
      <4>1. /\ a \in Queued /\ nextPeer[a] \in Peers
            /\ proxyTail[nextPeer[a]] = proxyTail[a]
        BY <3>1, <3>2 DEF ListInv, NothingLost
      <4>2. nextPeer[a] \in Queued
        BY <4>1 DEF Queued
      <4>3. QED
        BY <1>5, <1>7, <2>4, <3>1, <3>2, <4>1, <4>2
    <3>3. \A x, y \in Queued' :
            nextPeer'[x] # NULL /\ nextPeer'[x] = nextPeer'[y] => x = y
      BY <3>1 DEF ListInv, NothingLost
    <3>4. ASSUME NEW S \in SUBSET (Queued'), Ring' \subseteq S,
                 \A a \in S : nextPeer'[a] # NULL => nextPeer'[a] \in S
          PROVE  S = Queued'
      <4> DEFINE T == S \ {A}
      <4>1. T \in SUBSET Queued /\ Ring \subseteq T
        BY <1>1, <2>4, <3>4
      <4>2. ASSUME NEW a \in T, nextPeer[a] # NULL PROVE nextPeer[a] \in T
        <5>1. nextPeer[a] \in Peers
          BY <4>1, <4>2 DEF ListInv, NothingLost
        <5>2. QED
          BY <1>1, <1>8, <3>4, <4>2, <5>1
      <4>3. T = Queued
        BY <4>1, <4>2 DEF ListInv, NothingLost
      <4>4. QED
        BY <2>4, <3>4, <4>3
    <3>5. QED
      BY <3>2, <3>3, <3>4 DEF NothingLost
  <2>9. PoolIsFree'
    <3>1. \A a \in Pool : next'[a] = next[a]
      BY <1>1, <2>1, <2>2 DEF Pool, Ring, In
    <3>2. ASSUME NEW d \in Clients, held'[d] # NULL
          PROVE  /\ place'[held'[d]] = "held"
                 /\ nextPeer'[held'[d]] = NULL
                 /\ \A e \in Clients : held'[e] = held'[d] => e = d
      BY <1>4, <1>6, <1>8, <2>3, <3>2 DEF ListInv, PoolIsFree
    <3>3. /\ pool' # NULL => pool' \in Pool'
          /\ \A a \in Pool' : next'[a] # NULL =>
                next'[a] \in Pool' /\ next'[a] # pool'
          /\ \A x, y \in Pool' : next'[x] # NULL /\ next'[x] = next'[y] => x = y
      BY <1>3, <2>4, <3>1 DEF ListInv, PoolIsFree
    <3>4. QED
      BY <3>2, <3>3 DEF PoolIsFree
  <2>10. ThreadInv'
    <3>1. proxyThread
      BY DEF ProxyArgsAppend, ListInv, ThreadInv
    <3>2. QED
      BY <1>3, <1>5, <2>4, <3>1 DEF ListInv, ThreadInv
  <2>11. QED
    BY <2>5, <2>6, <2>7, <2>8, <2>9, <2>10 DEF ListInv
<1>9. CASE /\ t # NULL
           /\ nextPeer' = [nextPeer EXCEPT ![t] = A]
           /\ place' = [place EXCEPT ![A] = "peer"]
           /\ UNCHANGED <<next, ops>>
  <2>1. t \in Queued /\ t \in Args /\ t # A /\ proxyTail[t] = ch /\ nextPeer[t] = NULL
    BY <1>7, <1>9 DEF ListInv, ChannelTails
  <2>2. /\ nextPeer' \in [Args -> Args \union {NULL}]
        /\ \A a \in Args : nextPeer'[a] = IF a = t THEN A ELSE nextPeer[a]
    BY <1>1, <1>9, <2>1 DEF ListInv, TypeOK
  <2>3. /\ place' \in [Args -> {"unmapped", "pool", "held", "ring", "peer"}]
        /\ \A a \in Args : place'[a] = IF a = A THEN "peer" ELSE place[a]
    BY <1>1, <1>9 DEF ListInv, TypeOK
  <2>4. /\ Ring' = Ring /\ Peers' = Peers \union {A} /\ Pool' = Pool
        /\ Queued' = Queued \union {A}
    BY <1>1, <2>3 DEF Ring, Peers, Pool, Queued, In
  <2>5. TypeOK'
    BY <1>3, <1>4, <1>5, <1>9, <2>2, <2>3 DEF ListInv, TypeOK
  <2>6. RingIsOneCycle'
    BY <1>9, <2>4 DEF ListInv, RingIsOneCycle
  <2>7. \A a \in Queued : proxyTail'[a] = proxyTail[a]
    BY <1>5, <1>7
  <2>8. ChannelTails'
    <3>1. \A a, b \in Ring' : proxyTail'[a] = proxyTail'[b] => a = b
      BY <2>4, <2>7 DEF ListInv, ChannelTails, Queued
    <3>2. ASSUME NEW a \in Queued'
          PROVE  /\ proxyTail'[a] \in Channels
                 /\ channelTail'[proxyTail'[a]] # NULL
                 /\ nextPeer'[a] = NULL => channelTail'[proxyTail'[a]] = a
      BY <1>1, <1>4, <1>5, <1>7, <2>1, <2>2, <2>4, <2>7 DEF ListInv, ChannelTails
    <3>3. ASSUME NEW k \in Channels, channelTail'[k] # NULL
          PROVE  /\ channelTail'[k] \in Queued'
                 /\ proxyTail'[channelTail'[k]] = k
                 /\ nextPeer'[channelTail'[k]] = NULL
                 /\ \E a \in Ring' : proxyTail'[a] = k
      <4>1. channelTail[k] # NULL
        BY <1>4, <1>9, <3>3
      <4>2. PICK a \in Ring : proxyTail[a] = k
        BY <4>1 DEF ListInv, ChannelTails
      <4>3. a \in Ring' /\ proxyTail'[a] = k
        BY <2>4, <2>7, <4>2 DEF Queued
      <4>4. CASE k = ch
        BY <1>1, <1>4, <1>5, <2>1, <2>2, <2>4, <4>3, <4>4
      <4>5. CASE k # ch
        <5>1. channelTail[k] \in Queued /\ channelTail[k] # t
          BY <2>1, <4>1, <4>5 DEF ListInv, ChannelTails
        <5>2. QED
          BY <1>4, <1>7, <2>2, <2>4, <2>7, <4>1, <4>3, <4>5, <5>1
          DEF ListInv, ChannelTails
      <4>6. QED
        BY <4>4, <4>5
    <3>4. QED
      BY <3>1, <3>2, <3>3 DEF ChannelTails
  <2>9. NothingLost'
    <3>1. ASSUME NEW a \in Queued', nextPeer'[a] # NULL
          PROVE  nextPeer'[a] \in Peers' /\ proxyTail'[nextPeer'[a]] = proxyTail'[a]
      <4>1. CASE a = t
        BY <1>1, <1>5, <2>1, <2>2, <2>4, <2>7, <4>1
      <4>2. CASE a # t
        <5>1. a \in Queued /\ nextPeer'[a] = nextPeer[a]
          BY <1>1, <1>7, <2>2, <2>4, <3>1, <4>2
        <5>2. nextPeer[a] \in Peers /\ proxyTail[nextPeer[a]] = proxyTail[a]
          BY <3>1, <5>1 DEF ListInv, NothingLost
        <5>3. QED
          BY <2>4, <2>7, <5>1, <5>2 DEF Queued
      <4>3. QED
        BY <4>1, <4>2
    <3>2. ASSUME NEW x \in Queued', NEW y \in Queued',
                 nextPeer'[x] # NULL, nextPeer'[x] = nextPeer'[y]
          PROVE  x = y
      <4>1. \A a \in Queued : nextPeer[a] # A
        BY <1>1 DEF ListInv, NothingLost
      <4>2. QED
        BY <1>1, <1>7, <2>1, <2>2, <2>4, <3>2, <4>1 DEF ListInv, NothingLost
    <3>3. ASSUME NEW S \in SUBSET (Queued'), Ring' \subseteq S,
                 \A a \in S : nextPeer'[a] # NULL => nextPeer'[a] \in S
          PROVE  S = Queued'
      <4> DEFINE T == S \ {A}
      <4>1. T \in SUBSET Queued /\ Ring \subseteq T
        BY <1>1, <2>4, <3>3
      <4>2. ASSUME NEW a \in T, nextPeer[a] # NULL PROVE nextPeer[a] \in T
        <5>1. nextPeer[a] \in Peers /\ a \in Args /\ a # t
          BY <1>7, <2>1, <4>1, <4>2 DEF ListInv, NothingLost
        <5>2. QED
          BY <1>1, <2>2, <3>3, <4>2, <5>1
      <4>3. T = Queued
        BY <4>1, <4>2 DEF ListInv, NothingLost
      <4>4. A \in S
        BY <1>1, <2>1, <2>2, <3>3, <4>3
      <4>5. QED
        BY <2>4, <4>3, <4>4
    <3>4. QED
      BY <3>1, <3>2, <3>3 DEF NothingLost
  <2>10. PoolIsFree'
    BY <1>3, <1>4, <1>6, <1>9, <2>1, <2>2, <2>3, <2>4 DEF ListInv, PoolIsFree
  <2>11. ThreadInv'
    <3>1. proxyThread
      BY DEF ProxyArgsAppend, ListInv, ThreadInv
    <3>2. QED
      BY <1>3, <1>5, <2>4, <3>1 DEF ListInv, ThreadInv
  <2>12. QED
    BY <2>5, <2>6, <2>8, <2>9, <2>10, <2>11 DEF ListInv
<1>10. QED
  BY <1>8, <1>9 DEF ProxyArgsAppend, PeerLinked, TailMoved

\* The calls that touch no list: creation, start, wait, destruction, abort.
LEMMA ControlKeepsListInv ==
  ASSUME ListInv,
         \/ ProxyCreate
         \/ \E c \in Clients : ProxyStart(c) \/ WaitAllCall(c) \/ WaitAllReturn(c)
                              \/ DestroyStop(c) \/ DestroyFree(c)
         \/ RaiseAbort
  PROVE  ListInv'
<1> USE ProxyAssumption DEF ProxyAssumption
<1>1. UNCHANGED <<ops, pool, next, nextPeer, proxyTail, channelTail, held, place>>
  BY DEF ListInv, ThreadInv, ProxyCreate, CreateThread, ProxyStart, WaitAllCall,
         WaitAllReturn, DestroyStop, DestroyFree, RaiseAbort, handlerVars, argsVars,
         clientVars
<1>2. UNCHANGED <<state, iterations>>
  BY DEF ProxyCreate, CreateThread, ProxyStart, WaitAllCall,
         WaitAllReturn, DestroyStop, DestroyFree, RaiseAbort, argsVars
<1>3. RingIsOneCycle' /\ ChannelTails' /\ NothingLost' /\ PoolIsFree'
  BY <1>1, ListsUnchanged DEF ListInv
<1>4. Ring' = Ring
  BY <1>1 DEF Ring, In
<1>5. CASE ProxyCreate
  <2>1. /\ proxyThread' \in BOOLEAN /\ stop' \in BOOLEAN /\ idle' \in BOOLEAN
        /\ idleSpin' \in 0 .. IdleSpinLimit - 1
    BY <1>5 DEF ProxyCreate, CreateThread, ListInv, TypeOK
  <2>2. TypeOK'
    BY <1>1, <1>2, <1>5, <2>1 DEF ProxyCreate, CreateThread, ListInv, TypeOK
  <2>3. ThreadInv'
    BY <1>1, <1>2, <1>4, <1>5 DEF ProxyCreate, CreateThread, ListInv, TypeOK, ThreadInv
  <2>4. QED
    BY <1>3, <2>2, <2>3 DEF ListInv
<1>6. CASE RaiseAbort
  <2>1. TypeOK' /\ ThreadInv'
    BY <1>4, <1>6 DEF RaiseAbort, ListInv, TypeOK, ThreadInv, argsVars, threadVars,
                      clientVars
  <2>2. QED
    BY <1>3, <2>1 DEF ListInv
<1>7. ASSUME NEW c \in Clients,
             \/ ProxyStart(c) \/ WaitAllCall(c) \/ WaitAllReturn(c)
             \/ DestroyStop(c) \/ DestroyFree(c)
      PROVE  ListInv'
  <2>1. UNCHANGED <<proxyThread, abortFlag, op, idle, idleSpin>>
    BY <1>7 DEF ProxyStart, WaitAllCall, WaitAllReturn, DestroyStop, DestroyFree,
                handlerVars, threadVars
  <2>2. stop' \in BOOLEAN /\ pools' \in SUBSET Blocks
    BY <1>7 DEF ProxyStart, WaitAllCall, WaitAllReturn, DestroyStop, DestroyFree,
                handlerVars, ListInv, TypeOK
  <2>3. tpc' = tpc \/ (tpc = "waiting" /\ tpc' = "check")
    BY <1>7 DEF ProxyStart, Signal, WaitAllCall, WaitAllReturn, DestroyStop,
                DestroyFree, threadVars
  <2>4. unsignalled' \in [Clients -> BOOLEAN]
    BY <1>7 DEF ProxyStart, WaitAllCall, WaitAllReturn, DestroyStop, DestroyFree,
                ListInv, TypeOK
  <2>5. cpc' \in [Clients -> {"new", "ready", "waitall", "join", "gone", "over"}]
    BY <1>7 DEF ProxyStart, WaitAllCall, WaitAllReturn, DestroyStop, DestroyFree,
                ListInv, TypeOK
  <2>6. TypeOK'
    BY <1>1, <1>2, <2>1, <2>2, <2>3, <2>4, <2>5 DEF ListInv, TypeOK
  <2>7. proxyThread
    BY <1>7 DEF ProxyStart, WaitAllCall, WaitAllReturn, DestroyStop, DestroyFree,
                ListInv, ThreadInv
  <2>8. ThreadInv'
    BY <1>1, <1>2, <1>4, <2>1, <2>3, <2>7 DEF ListInv, ThreadInv
  <2>9. QED
    BY <1>3, <2>6, <2>8 DEF ListInv
<1>8. QED
  BY <1>5, <1>6, <1>7

\* Every step of the proxy keeps the list invariant.
LEMMA NextKeepsListInv ==
  ASSUME ListInv, [Next]_vars
  PROVE  ListInv'
<1>1. CASE UNCHANGED vars
  <2>1. RingIsOneCycle' /\ ChannelTails' /\ NothingLost' /\ PoolIsFree'
    BY <1>1, ListsUnchanged DEF ListInv, vars, handlerVars, argsVars, clientVars
  <2>2. TypeOK'
    BY <1>1 DEF ListInv, TypeOK, vars, handlerVars, argsVars, threadVars, clientVars
  <2>3. ThreadInv'
    BY <1>1 DEF ListInv, ThreadInv, vars, handlerVars, argsVars, threadVars,
                clientVars, Ring, In
  <2>4. QED
    BY <2>1, <2>2, <2>3 DEF ListInv
<1>2. CASE ThreadStep \/ SpuriousWakeup
  BY <1>2, WalkKeepsListInv, PeerKeepsListInv, UnlinkKeepsListInv DEF ThreadStep
<1>3. CASE ProxyCreate \/ RaiseAbort
  BY <1>3, ControlKeepsListInv
<1>4. ASSUME NEW c \in Clients, ClientStep(c) PROVE ListInv'
  BY <1>4, PoolAllocKeepsListInv, BlockAllocKeepsListInv, AppendKeepsListInv,
     ControlKeepsListInv DEF ClientStep
<1>5. QED
  BY <1>1, <1>2, <1>3, <1>4 DEF Next

\* The lists of proxy.cc are well formed in every reachable state: the ring is
\* one cycle, every channel's tail pointer is right, nothing appended is lost
\* and the pool holds only free elements.
THEOREM ListsCorrect == Spec => []ListInv
<1>1. Init => ListInv
  BY InitListInv
<1>2. ListInv /\ [Next]_vars => ListInv'
  BY NextKeepsListInv
<1>3. QED
  BY <1>1, <1>2, PTL DEF Spec

\* Every variable of the proxy keeps its type, whatever the clients, channels
\* and blocks are.
THEOREM TypesKept == Spec => []TypeOK
<1>1. ListInv => TypeOK
  BY DEF ListInv
<1>2. QED
  BY <1>1, ListsCorrect, PTL

\* The ring that persistentThread walks is one cycle through all its elements.
THEOREM RingIsSound == Spec => []RingIsOneCycle
<1>1. ListInv => RingIsOneCycle
  BY DEF ListInv
<1>2. QED
  BY <1>1, ListsCorrect, PTL

\* The tail pointers ProxyArgsAppend hangs elements behind are right for every
\* channel: a new element goes behind the last one that is queued.
THEOREM ChannelsAreSound == Spec => []ChannelTails
<1>1. ListInv => ChannelTails
  BY DEF ListInv
<1>2. QED
  BY <1>1, ListsCorrect, PTL

\* Every element ProxyArgsAppend has queued is reached from the ring.
THEOREM NothingIsLost == Spec => []NothingLost
<1>1. ListInv => NothingLost
  BY DEF ListInv
<1>2. QED
  BY <1>1, ListsCorrect, PTL

\* allocateArgs never hands out an element that is queued or held by a client.
THEOREM PoolIsSound == Spec => []PoolIsFree
<1>1. ListInv => PoolIsFree
  BY DEF ListInv
<1>2. QED
  BY <1>1, ListsCorrect, PTL

\* An empty ring means empty queues: without a ring element, the empty set is
\* closed under nextPeer.
LEMMA EmptyRing ==
  ASSUME ListInv
  PROVE  WaitAllSound
<1>1. SUFFICES ASSUME ops = NULL PROVE Queued = {}
  BY DEF WaitAllSound
<1>2. Ring = {}
  BY <1>1 DEF ListInv, RingIsOneCycle
<1>3. /\ {} \in SUBSET Queued /\ Ring \subseteq {}
      /\ \A a \in {} : nextPeer[a] # NULL => nextPeer[a] \in {}
  BY <1>2
<1>4. QED
  BY <1>3 DEF ListInv, NothingLost

\* ProxyWaitAllOpFinished may trust its unlocked read of ops: when it is NULL,
\* every element any client has appended has finished and left its queue.
THEOREM WaitAllIsSound == Spec => []WaitAllSound
<1>1. ListInv => WaitAllSound
  BY EmptyRing
<1>2. QED
  BY <1>1, ListsCorrect, PTL

\* Blocks are freed only after the proxy thread has exited.
LEMMA NextKeepsMemoryInv ==
  ASSUME ListInv, MemoryInv, [Next]_vars
  PROVE  MemoryInv'
<1> USE ProxyAssumption DEF ProxyAssumption
<1> SUFFICES ASSUME tpc' # "exited", NEW a \in Args, place'[a] # "unmapped"
             PROVE  a[1] \in pools'
  BY DEF MemoryInv
<1>1. CASE UNCHANGED vars
  BY <1>1 DEF MemoryInv, vars, handlerVars, threadVars
<1>2. CASE CheckAbort \/ Fetch \/ SpuriousWakeup \/ Progress \/ AdvanceKeep
  BY <1>2 DEF MemoryInv, CheckAbort, Fetch, SpuriousWakeup, Progress, AdvanceKeep,
              handlerVars, Runnable
<1>3. CASE AdvancePeer
  <2>1. /\ next[op] \in Args /\ place[next[op]] = "ring"
        /\ nextPeer[next[op]] \in Args /\ place[nextPeer[next[op]]] = "peer"
    BY <1>3 DEF AdvancePeer, ListInv, ThreadInv, RingIsOneCycle, NothingLost, Ring,
                Peers, Queued, In
  <2>2. place[a] # "unmapped"
    BY <1>3, <2>1 DEF AdvancePeer, ListInv, TypeOK
  <2>3. QED
    BY <1>3, <2>2 DEF AdvancePeer, MemoryInv
<1>4. CASE AdvanceUnlink
  <2>1. next[op] \in Args /\ place[next[op]] = "ring"
    BY <1>4 DEF AdvanceUnlink, ListInv, ThreadInv, RingIsOneCycle, Ring, In
  <2>2. place[a] # "unmapped"
    BY <1>4, <2>1 DEF AdvanceUnlink, ListInv, TypeOK
  <2>3. QED
    BY <1>4, <2>2 DEF AdvanceUnlink, MemoryInv
<1>5. CASE ProxyCreate
  BY <1>5 DEF ProxyCreate, CreateThread, ListInv, ThreadInv, MemoryInv
<1>6. CASE RaiseAbort
  BY <1>6 DEF RaiseAbort, MemoryInv, threadVars
<1>7. ASSUME NEW c \in Clients, ClientStep(c) PROVE a[1] \in pools'
  <2>1. CASE AllocFromPool(c)
    <3>1. place[pool] = "pool" /\ pool \in Args
      BY <2>1 DEF AllocFromPool, ListInv, PoolIsFree, Pool, In
    <3>2. place[a] # "unmapped"
      BY <2>1, <3>1 DEF AllocFromPool, ListInv, TypeOK
    <3>3. QED
      BY <2>1, <3>2 DEF AllocFromPool, MemoryInv, threadVars
  <2>2. ASSUME NEW b \in Blocks, AllocNewBlock(c, b) PROVE a[1] \in pools'
    BY <2>2 DEF AllocNewBlock, MemoryInv, threadVars
  <2>3. ASSUME NEW ch \in Channels, ProxyArgsAppend(c, ch) PROVE a[1] \in pools'
    <3>1. held[c] \in Args /\ place[held[c]] = "held"
      BY <2>3 DEF ProxyArgsAppend, ListInv, TypeOK, PoolIsFree
    <3>2. place[a] # "unmapped"
      BY <2>3, <3>1 DEF ProxyArgsAppend, ListInv, TypeOK
    <3>3. QED
      BY <2>3, <3>2 DEF ProxyArgsAppend, MemoryInv, threadVars
  <2>4. CASE ProxyStart(c) \/ WaitAllCall(c) \/ WaitAllReturn(c) \/ DestroyStop(c)
    BY <2>4 DEF ProxyStart, Signal, WaitAllCall, WaitAllReturn, DestroyStop,
                handlerVars, threadVars, MemoryInv
  <2>5. CASE DestroyFree(c)
    BY <2>5 DEF DestroyFree, threadVars, Joined
  <2>6. QED
    BY <1>7, <2>1, <2>2, <2>3, <2>4, <2>5 DEF ClientStep
<1>8. QED
  BY <1>1, <1>2, <1>3, <1>4, <1>5, <1>6, <1>7 DEF Next, ThreadStep

\* Shutting down, and the signals: the other half of the inductive invariant.
LEMMA NextKeepsShutdownInv ==
  ASSUME ListInv, ShutdownInv, NoLostWakeup, [Next]_vars
  PROVE  ShutdownInv' /\ NoLostWakeup'
<1> USE ProxyAssumption DEF ProxyAssumption
<1>1. CASE UNCHANGED vars
  BY <1>1 DEF ShutdownInv, NoLostWakeup, vars, handlerVars, threadVars, clientVars
<1>2. CASE CheckAbort \/ Fetch \/ SpuriousWakeup \/ Progress \/ AdvanceKeep
  BY <1>2 DEF ShutdownInv, NoLostWakeup, CheckAbort, Fetch, SpuriousWakeup, Progress,
              AdvanceKeep, handlerVars, clientVars, Runnable
<1>3. CASE AdvancePeer \/ AdvanceUnlink
  BY <1>3 DEF ShutdownInv, NoLostWakeup, AdvancePeer, AdvanceUnlink, clientVars
<1>4. CASE ProxyCreate
  <2>1. tpc' = IF proxyThread THEN tpc ELSE "check"
    BY <1>4 DEF ProxyCreate, CreateThread
  <2>2. stop' => stop /\ proxyThread
    BY <1>4 DEF ProxyCreate, CreateThread
  <2>3. UNCHANGED <<ops, abortFlag, unsignalled>>
    BY <1>4 DEF ProxyCreate, CreateThread, ListInv, ThreadInv
  <2>4. proxyThread => (stop' <=> stop)
    BY <1>4 DEF ProxyCreate, CreateThread
  <2>5. \A c \in Clients : cpc[c] = "new"
    BY <1>4 DEF ProxyCreate
  <2>6. QED
    BY <2>1, <2>2, <2>3, <2>4, <2>5 DEF ShutdownInv, NoLostWakeup
<1>5. CASE RaiseAbort
  BY <1>5 DEF RaiseAbort, ShutdownInv, NoLostWakeup, threadVars, clientVars
<1>6. ASSUME NEW c \in Clients, ClientStep(c) PROVE ShutdownInv' /\ NoLostWakeup'
  <2>1. CASE AllocFromPool(c) \/ \E b \in Blocks : AllocNewBlock(c, b)
    BY <2>1 DEF AllocFromPool, AllocNewBlock, ShutdownInv, NoLostWakeup, threadVars
  <2>2. ASSUME NEW ch \in Channels, ProxyArgsAppend(c, ch)
        PROVE  ShutdownInv' /\ NoLostWakeup'
    <3>1. ~stop /\ UNCHANGED <<stop, tpc, abortFlag, cpc>>
      BY <2>2 DEF ProxyArgsAppend, ShutdownInv, threadVars
    <3>2. unsignalled'[c]
      BY <2>2 DEF ProxyArgsAppend, ListInv, TypeOK
    <3>3. QED
      BY <3>1, <3>2 DEF ShutdownInv, NoLostWakeup
  <2>3. CASE ProxyStart(c)
    BY <2>3 DEF ProxyStart, Signal, ShutdownInv, NoLostWakeup
  <2>4. CASE WaitAllCall(c) \/ WaitAllReturn(c)
    BY <2>4 DEF WaitAllCall, WaitAllReturn, ShutdownInv, NoLostWakeup, handlerVars,
                threadVars, ListInv, TypeOK
  <2>5. CASE DestroyStop(c)
    BY <2>5 DEF DestroyStop, Signal, ShutdownInv, NoLostWakeup
  <2>6. CASE DestroyFree(c)
    BY <2>6 DEF DestroyFree, ShutdownInv, NoLostWakeup, threadVars, ListInv, TypeOK
  <2>7. QED
    BY <1>6, <2>1, <2>2, <2>3, <2>4, <2>5, <2>6 DEF ClientStep
<1>7. QED
  BY <1>1, <1>2, <1>3, <1>4, <1>5, <1>6 DEF Next, ThreadStep

\* The inductive invariant holds in every reachable state.
THEOREM Invariance == Spec => []IndInv
<1>1. Init => IndInv
  <2>1. Init => MemoryInv /\ ShutdownInv /\ NoLostWakeup
    BY DEF Init, InitExceptThread, MemoryInv, ShutdownInv, NoLostWakeup
  <2>2. QED
    BY <2>1, InitListInv DEF IndInv
<1>2. IndInv /\ [Next]_vars => IndInv'
  BY NextKeepsListInv, NextKeepsMemoryInv, NextKeepsShutdownInv DEF IndInv
<1>3. QED
  BY <1>1, <1>2, PTL DEF Spec

\* persistentThread touches only ring elements in memory that is not freed.
THEOREM ThreadMemorySafe == Spec => []NoUseAfterFree
<1>1. IndInv => NoUseAfterFree
  BY DEF IndInv, ListInv, ThreadInv, MemoryInv, NoUseAfterFree, Ring, In
<1>2. QED
  BY <1>1, Invariance, PTL

\* The thread never sleeps on work it was told of, nor through ProxyDestroy.
THEOREM WakeupsNotLost == Spec => []NoLostWakeup
<1>1. IndInv => NoLostWakeup
  BY DEF IndInv
<1>2. QED
  BY <1>1, Invariance, PTL

\* ProxyDestroy without an abort joins a thread that has done all the work.
THEOREM ExitIsDrained == Spec => []DrainedAtExit
<1>1. IndInv => DrainedAtExit
  BY EmptyRing DEF IndInv, ShutdownInv, DrainedAtExit, WaitAllSound
<1>2. QED
  BY <1>1, Invariance, PTL

\* A queued element that has finished is not run again before it is recycled.
THEOREM FinishedIsFinal == Spec => FinishedStaysFinished
<1> DEFINE Final == \A a \in Queued : state[a] = "ProxyOpNone" =>
                                        state'[a] = "ProxyOpNone"
<1>1. ASSUME ListInv, [Next]_vars PROVE Final
  <2> USE ProxyAssumption DEF ProxyAssumption
  <2> SUFFICES ASSUME NEW a \in Queued, state[a] = "ProxyOpNone"
               PROVE  state'[a] = "ProxyOpNone"
    OBVIOUS
  <2>1. a \in Args
    BY DEF Queued, Ring, Peers, In
  <2>2. CASE UNCHANGED state
    BY <2>2
  <2>3. CASE Progress
    BY <1>1, <2>1, <2>3 DEF Progress, ProgressCallback, ListInv, TypeOK, Runnable
  <2>4. ASSUME NEW c \in Clients, NEW b \in Blocks, AllocNewBlock(c, b)
        PROVE  state'[a] = "ProxyOpNone"
    BY <2>1, <2>4 DEF AllocNewBlock
  <2>5. ASSUME NEW c \in Clients, NEW ch \in Channels, ProxyArgsAppend(c, ch)
        PROVE  state'[a] = "ProxyOpNone"
    <3>1. held[c] # a
      BY <1>1, <2>5 DEF ProxyArgsAppend, ListInv, PoolIsFree, Queued, Ring, Peers, In
    <3>2. QED
      BY <1>1, <2>1, <2>5, <3>1 DEF ProxyArgsAppend, Fill, ListInv, TypeOK
  <2>6. QED
    BY <1>1, <2>2, <2>3, <2>4, <2>5
    DEF Next, ThreadStep, CheckAbort, Fetch, SpuriousWakeup, AdvanceKeep, AdvancePeer,
        AdvanceUnlink, ProxyCreate, CreateThread, ClientStep, AllocFromPool,
        ProxyStart, WaitAllCall, WaitAllReturn, DestroyStop, DestroyFree, RaiseAbort,
        argsVars, vars
<1>2. QED
  BY <1>1, ListsCorrect, PTL DEF Spec, FinishedStaysFinished

----------------------------------------------------------------------------
(* The refinement of ProxyQueue.                                           *)

\* s is the list of the channel ch.
IsQueueOf(s, ch) == s \in Seq(Of(ch)) /\ Lists(s, Of(ch))

\* The inductive invariant: the pointers of every channel form a list.
Listed == \A ch \in Channels : \E s : IsQueueOf(s, ch)

\* Such a list is the channel's queue.
QueuesRead == \A ch \in Channels : \A s : IsQueueOf(s, ch) => ChannelQueue(ch) = s

\* A list without repetition is as long as the set it covers.
LEMMA ListLength ==
  ASSUME NEW S, NEW s \in Seq(S), Lists(s, S)
  PROVE  /\ Len(s) \in Nat
         /\ s \in [1 .. Len(s) -> S]
         /\ Cardinality(S) = Len(s)
<1>1. Len(s) \in Nat /\ s \in [1 .. Len(s) -> S]
  BY LenProperties
<1>2. s \in Bijection(1 .. Len(s), S)
  <2>1. \A k, m \in 1 .. Len(s) : s[k] = s[m] => k = m
    BY DEF Lists
  <2>2. \A a \in S : \E k \in 1 .. Len(s) : s[k] = a
    BY DEF Lists
  <2>3. QED
    BY <1>1, <2>1, <2>2, Zenon DEF Bijection, Injection, Surjection, IsInjective
<1>3. Cardinality(S) = Len(s)
  BY <1>1, <1>2, FS_CountingElements DEF ExistsBijection
<1>4. QED
  BY <1>1, <1>3

\* The queued elements of the channels.
LEMMA OfIsQueued ==
  ASSUME NEW ch
  PROVE  Of(ch) = {a \in Queued : proxyTail[a] = ch}
BY DEF Of, Queued, Ring, Peers, In

\* There is one list at most: the elements that two lists hold at the same
\* place contain the ring's and are closed under nextPeer, so they are all.
LEMMA OneList ==
  ASSUME ListInv, NEW ch \in Channels, NEW s, NEW t,
         IsQueueOf(s, ch), IsQueueOf(t, ch)
  PROVE  s = t
<1> DEFINE G == {a \in Queued : proxyTail[a] = ch =>
                   \E k \in 1 .. Len(s) : k \in 1 .. Len(t) /\ s[k] = a /\ t[k] = a}
<1>1. /\ Len(s) \in Nat /\ s \in [1 .. Len(s) -> Of(ch)]
      /\ Len(t) \in Nat /\ t \in [1 .. Len(t) -> Of(ch)]
  BY LenProperties DEF IsQueueOf
<1>2. /\ \A k \in 1 .. Len(s) :
           /\ nextPeer[s[k]] = IF k = Len(s) THEN NULL ELSE s[k + 1]
           /\ place[s[k]] = "ring" <=> k = 1
      /\ \A a \in Of(ch) : \E k \in 1 .. Len(s) : s[k] = a
      /\ \A k, m \in 1 .. Len(s) : s[k] = s[m] => k = m
  BY DEF IsQueueOf, Lists
<1>3. /\ \A k \in 1 .. Len(t) :
           /\ nextPeer[t[k]] = IF k = Len(t) THEN NULL ELSE t[k + 1]
           /\ place[t[k]] = "ring" <=> k = 1
      /\ \A a \in Of(ch) : \E k \in 1 .. Len(t) : t[k] = a
      /\ \A k, m \in 1 .. Len(t) : t[k] = t[m] => k = m
  BY DEF IsQueueOf, Lists
<1>4. Ring \subseteq G
  <2> SUFFICES ASSUME NEW a \in Ring, proxyTail[a] = ch
               PROVE  \E k \in 1 .. Len(s) : k \in 1 .. Len(t) /\ s[k] = a /\ t[k] = a
    BY DEF Queued
  <2>1. a \in Of(ch) /\ place[a] = "ring"
    BY OfIsQueued DEF Queued, Ring, In
  <2>2. PICK k \in 1 .. Len(s) : s[k] = a
    BY <1>2, <2>1
  <2>3. PICK m \in 1 .. Len(t) : t[m] = a
    BY <1>3, <2>1
  <2>4. k = 1 /\ m = 1
    BY <1>2, <1>3, <2>1, <2>2, <2>3
  <2>5. QED
    BY <2>2, <2>3, <2>4
<1>5. ASSUME NEW a \in G, nextPeer[a] # NULL PROVE nextPeer[a] \in G
  <2>1. a \in Queued /\ nextPeer[a] \in Queued /\ proxyTail[nextPeer[a]] = proxyTail[a]
    BY <1>5 DEF ListInv, NothingLost, Queued
  <2>2. SUFFICES ASSUME proxyTail[a] = ch
                 PROVE  \E k \in 1 .. Len(s) : /\ k \in 1 .. Len(t)
                                              /\ s[k] = nextPeer[a] /\ t[k] = nextPeer[a]
    BY <2>1
  <2>3. PICK k \in 1 .. Len(s) : k \in 1 .. Len(t) /\ s[k] = a /\ t[k] = a
    BY <2>2
  <2>4. k # Len(s) /\ s[k + 1] = nextPeer[a]
    BY <1>2, <1>5, <2>3
  <2>5. k # Len(t) /\ t[k + 1] = nextPeer[a]
    BY <1>3, <1>5, <2>3
  <2>6. k + 1 \in 1 .. Len(s) /\ k + 1 \in 1 .. Len(t)
    <3>1. Len(s) \in Nat /\ Len(t) \in Nat
      BY <1>1
    <3>2. QED
      BY <3>1, <2>3, <2>4, <2>5
  <2>7. QED
    BY <2>4, <2>5, <2>6
<1>6. G = Queued
  <2>1. G \in SUBSET Queued
    OBVIOUS
  <2>2. QED
    BY <1>4, <1>5, <2>1 DEF ListInv, NothingLost
<1>7. ASSUME NEW a \in Of(ch)
      PROVE  \E k \in 1 .. Len(s) : k \in 1 .. Len(t) /\ s[k] = a /\ t[k] = a
  <2>1. a \in G /\ proxyTail[a] = ch
    BY <1>6, OfIsQueued
  <2>2. QED
    BY <2>1
<1>8. \A k \in 1 .. Len(s) : k \in 1 .. Len(t) /\ t[k] = s[k]
  <2> TAKE k \in 1 .. Len(s)
  <2>1. PICK m \in 1 .. Len(s) : m \in 1 .. Len(t) /\ s[m] = s[k] /\ t[m] = s[k]
    BY <1>1, <1>7
  <2>2. m = k
    BY <1>2, <2>1
  <2>3. QED
    BY <2>1, <2>2
<1>9. \A k \in 1 .. Len(t) : k \in 1 .. Len(s)
  <2> TAKE k \in 1 .. Len(t)
  <2>1. PICK m \in 1 .. Len(s) : m \in 1 .. Len(t) /\ s[m] = t[k] /\ t[m] = t[k]
    BY <1>1, <1>7
  <2>2. m = k
    BY <1>3, <2>1
  <2>3. QED
    BY <2>1, <2>2
<1>10. Len(s) = Len(t)
  <2>1. Len(s) \in Nat /\ Len(t) \in Nat
    BY <1>1
  <2>2. \A k \in 1 .. Len(s) : k \in 1 .. Len(t)
    BY <1>8
  <2>3. QED
    BY <2>1, <2>2, <1>9
<1>11. QED
  BY <1>1, <1>8, <1>10

\* What ListOf chooses is the list there is.
LEMMA TheQueue == ListInv => QueuesRead
<1> SUFFICES ASSUME ListInv, NEW ch \in Channels, NEW s, IsQueueOf(s, ch)
             PROVE  ChannelQueue(ch) = s
  BY DEF QueuesRead
<1> DEFINE t == ChannelQueue(ch)
<1>1. /\ Cardinality(Of(ch)) = Len(s) /\ Len(s) \in Nat
      /\ s \in [1 .. Len(s) -> Of(ch)]
  BY ListLength DEF IsQueueOf
<1>2. s \in Arrays(Of(ch)) /\ Lists(s, Of(ch))
  BY <1>1 DEF Arrays, IsQueueOf
<1>3. t \in Arrays(Of(ch)) /\ Lists(t, Of(ch))
  BY <1>2, Zenon DEF ChannelQueue, ListOf
<1>4. t \in Seq(Of(ch))
  BY <1>1, <1>3 DEF Arrays
<1>5. IsQueueOf(t, ch)
  BY <1>3, <1>4 DEF IsQueueOf
<1>6. QED
  BY <1>5, OneList

\* The same lists after a step that leaves the queued elements alone.
LEMMA SameLists ==
  ASSUME Ring' = Ring, Peers' = Peers,
         \A a \in Queued : nextPeer'[a] = nextPeer[a] /\ proxyTail'[a] = proxyTail[a],
         NEW ch, NEW s, IsQueueOf(s, ch)
  PROVE  IsQueueOf(s, ch)'
<1>1. Queued' = Queued
  BY DEF Queued
<1>2. Of(ch)' = Of(ch)
  <2>1. Of(ch)' = {a \in Queued' : proxyTail'[a] = ch}
    BY DEF Of, Queued, Ring, Peers, In
  <2>2. QED
    BY <1>1, <2>1, OfIsQueued
<1>3. Len(s) \in Nat /\ s \in [1 .. Len(s) -> Of(ch)]
  BY LenProperties DEF IsQueueOf
<1>4. ASSUME NEW k \in 1 .. Len(s)
      PROVE  /\ nextPeer'[s[k]] = nextPeer[s[k]]
             /\ place'[s[k]] = "ring" <=> place[s[k]] = "ring"
  <2>1. s[k] \in Queued /\ s[k] \in Args
    BY <1>3, OfIsQueued DEF Queued, Ring, Peers, In
  <2>2. place'[s[k]] = "ring" <=> place[s[k]] = "ring"
    BY <2>1 DEF Ring, In
  <2>3. QED
    BY <2>1, <2>2
<1>5. Lists(s, Of(ch))'
  BY <1>2, <1>4 DEF IsQueueOf, Lists
<1>6. QED
  BY <1>2, <1>5 DEF IsQueueOf

\* ProxyArgsAppend puts the element it was given at the end of its channel's
\* list and leaves the lists of the other channels alone.
LEMMA AppendLists ==
  ASSUME ListInv, NEW c \in Clients, NEW ch \in Channels, ProxyArgsAppend(c, ch),
         NEW A, A = held[c], NEW d \in Channels, NEW s, IsQueueOf(s, d)
  PROVE  /\ A \in Args /\ A \notin Queued
         /\ d # ch => IsQueueOf(s, d)'
         /\ d = ch => IsQueueOf(Append(s, A), d)'
<1> USE ProxyAssumption DEF ProxyAssumption
<1> DEFINE t == channelTail[ch]
<1>1. /\ A \in Args /\ place[A] = "held" /\ nextPeer[A] = NULL /\ A \notin Queued
  BY DEF ProxyArgsAppend, ListInv, TypeOK, PoolIsFree, Ring, Peers, Queued, In
<1>2. proxyTail' = [proxyTail EXCEPT ![A] = ch]
  BY DEF ProxyArgsAppend, Fill
<1>3. /\ t = NULL => place' = [place EXCEPT ![A] = "ring"] /\ nextPeer' = nextPeer
      /\ t # NULL => /\ place' = [place EXCEPT ![A] = "peer"]
                     /\ nextPeer' = [nextPeer EXCEPT ![t] = A]
  BY DEF ProxyArgsAppend, PeerLinked
<1>4. /\ place \in [Args -> {"unmapped", "pool", "held", "ring", "peer"}]
      /\ nextPeer \in [Args -> Args \union {NULL}]
      /\ proxyTail \in [Args -> Channels \union {NULL}]
  BY DEF ListInv, TypeOK
<1>5. Of(d)' = IF d = ch THEN Of(d) \union {A} ELSE Of(d)
  BY <1>1, <1>2, <1>3, <1>4 DEF Of
<1>6. t # NULL => t \in Of(ch) /\ t \in Args /\ nextPeer[t] = NULL
  BY OfIsQueued DEF ListInv, ChannelTails, Of
<1>7. /\ Len(s) \in Nat /\ s \in [1 .. Len(s) -> Of(d)] /\ s \in Seq(Of(d))
      /\ Of(d) \subseteq Args
  BY LenProperties DEF IsQueueOf, Of
<1>8. /\ \A k \in 1 .. Len(s) :
           /\ nextPeer[s[k]] = IF k = Len(s) THEN NULL ELSE s[k + 1]
           /\ place[s[k]] = "ring" <=> k = 1
      /\ \A a \in Of(d) : \E k \in 1 .. Len(s) : s[k] = a
      /\ \A k, m \in 1 .. Len(s) : s[k] = s[m] => k = m
  BY DEF IsQueueOf, Lists
<1>9. \A k \in 1 .. Len(s) : /\ s[k] \in Of(d) /\ s[k] \in Args /\ s[k] # A
                             /\ place'[s[k]] = place[s[k]]
  BY <1>1, <1>3, <1>4, <1>7 DEF Of
<1>10. CASE d # ch
  <2>1. \A k \in 1 .. Len(s) : nextPeer'[s[k]] = nextPeer[s[k]]
    <3>1. \A k \in 1 .. Len(s) : t # NULL => s[k] # t
      BY <1>6, <1>9, <1>10 DEF Of
    <3>2. QED
      BY <1>3, <1>4, <1>9, <3>1
  <2>2. Lists(s, Of(d))'
    BY <1>5, <1>8, <1>9, <1>10, <2>1 DEF Lists
  <2>3. QED
    BY <1>1, <1>5, <1>10, <2>2 DEF IsQueueOf
<1>11. CASE d = ch
  <2> DEFINE n == Len(s) + 1
             q == Append(s, A)
  <2>1. /\ q \in Seq(Of(d)') /\ Len(q) = n /\ n \in Nat /\ q[n] = A
        /\ \A k \in 1 .. Len(s) : q[k] = s[k]
    BY <1>5, <1>7, <1>11
  <2>2. ASSUME NEW k \in 1 .. Len(s)
        PROVE  /\ nextPeer'[s[k]] = IF k = Len(s) THEN A ELSE s[k + 1]
               /\ t # NULL
    <3>1. t # NULL
      BY <1>9, <1>11, OfIsQueued DEF ListInv, ChannelTails
    <3>2. PICK m \in 1 .. Len(s) : s[m] = t
      BY <1>6, <1>8, <1>11, <3>1
    <3>3. m = Len(s)
      <4>1. m # Len(s) => m + 1 \in 1 .. Len(s)
        <5>1. Len(s) \in Nat
          BY <1>7
        <5>2. QED
          BY <5>1
      <4>2. m # Len(s) => nextPeer[t] = s[m + 1]
        BY <1>8, <3>2
      <4>3. QED
        BY <1>6, <1>9, <3>1, <4>1, <4>2
    <3>4. CASE k = Len(s)
      BY <1>3, <1>4, <1>6, <3>1, <3>2, <3>3, <3>4
    <3>5. CASE k # Len(s)
      <4>1. s[k] # t
        BY <1>8, <3>2, <3>3, <3>5
      <4>2. QED
        BY <1>3, <1>4, <1>8, <1>9, <3>1, <3>5, <4>1
    <3>6. QED
      BY <3>1, <3>4, <3>5
  <2>3. nextPeer'[A] = NULL
    BY <1>1, <1>3, <1>4, <1>6, OfIsQueued
  <2>4. place'[A] = "ring" <=> n = 1
    <3>1. CASE Len(s) = 0
      <4>1. t = NULL
        BY <1>6, <1>8, <1>11, <3>1
      <4>2. QED
        BY <1>1, <1>3, <1>4, <3>1, <4>1
    <3>2. CASE Len(s) # 0
      <4>1. 1 \in 1 .. Len(s) /\ n # 1
        <5>1. Len(s) \in Nat
          BY <1>7
        <5>2. QED
          BY <5>1, <3>2
      <4>2. t # NULL
        BY <2>2, <4>1
      <4>3. QED
        BY <1>1, <1>3, <1>4, <4>1, <4>2
    <3>3. QED
      BY <3>1, <3>2
  <2>5. ASSUME NEW k \in 1 .. n
        PROVE  /\ nextPeer'[q[k]] = IF k = n THEN NULL ELSE q[k + 1]
               /\ place'[q[k]] = "ring" <=> k = 1
    <3>1. CASE k = n
      BY <2>1, <2>3, <2>4, <3>1
    <3>2. CASE k # n
      <4>1. /\ k \in 1 .. Len(s) /\ k + 1 \in 1 .. n
            /\ k # Len(s) => k + 1 \in 1 .. Len(s)
            /\ k = Len(s) => k + 1 = n
        <5>1. Len(s) \in Nat
          BY <1>7
        <5>2. QED
          BY <5>1, <3>2
      <4>2. nextPeer'[q[k]] = q[k + 1]
        BY <2>1, <2>2, <4>1
      <4>3. QED
        BY <1>8, <1>9, <2>1, <3>2, <4>1, <4>2
    <3>3. QED
      BY <3>1, <3>2
  <2>6. \A a \in Of(d)' : \E k \in 1 .. n : q[k] = a
    <3>1. n \in 1 .. n /\ \A k \in 1 .. Len(s) : k \in 1 .. n
      <4>1. Len(s) \in Nat
        BY <1>7
      <4>2. QED
        BY <4>1
    <3>2. QED
      BY <1>5, <1>8, <1>11, <2>1, <3>1
  <2>7. \A k, m \in 1 .. n : q[k] = q[m] => k = m
    <3>1. \A k \in 1 .. n : k = n \/ k \in 1 .. Len(s)
      <4>1. Len(s) \in Nat
        BY <1>7
      <4>2. QED
        BY <4>1
    <3>2. QED
      BY <1>8, <1>9, <2>1, <3>1
  <2>8. Lists(q, Of(d))'
    BY <2>1, <2>5, <2>6, <2>7 DEF Lists
  <2>9. QED
    BY <1>1, <1>11, <2>1, <2>8 DEF IsQueueOf
<1>12. QED
  BY <1>10, <1>11

\* The element of a channel that is in the ring is the first of its list.
LEMMA RingIsHead ==
  ASSUME NEW f \in Ring, NEW s, IsQueueOf(s, proxyTail[f])
  PROVE  1 \in 1 .. Len(s) /\ s # <<>> /\ s[1] = f /\ Head(s) = f
<1>1. f \in Of(proxyTail[f]) /\ place[f] = "ring"
  BY OfIsQueued DEF Queued, Ring, In
<1>2. PICK k \in 1 .. Len(s) : s[k] = f
  BY <1>1 DEF IsQueueOf, Lists
<1>3. k = 1
  BY <1>1, <1>2 DEF IsQueueOf, Lists
<1>4. s \in Seq(Of(proxyTail[f]))
  BY DEF IsQueueOf
<1>5. QED
  BY <1>2, <1>3, <1>4

\* The thread takes a finished element off the front of its channel's list.
LEMMA AdvanceLists ==
  ASSUME ListInv, AdvancePeer \/ AdvanceUnlink, NEW f, f = next[op],
         NEW d \in Channels, NEW s, IsQueueOf(s, d)
  PROVE  /\ f \in Ring /\ state[f] = "ProxyOpNone"
         /\ d # proxyTail[f] => IsQueueOf(s, d)'
         /\ d = proxyTail[f] => IsQueueOf(Tail(s), d)'
<1> USE ProxyAssumption DEF ProxyAssumption
<1> DEFINE p == nextPeer[f]
<1>1. /\ f \in Ring /\ f \in Args /\ place[f] = "ring" /\ f \in Queued
      /\ state[f] = "ProxyOpNone"
  BY DEF AdvancePeer, AdvanceUnlink, ListInv, ThreadInv, RingIsOneCycle, Ring, In, Queued
<1>2. p # NULL => p \in Args /\ place[p] = "peer" /\ proxyTail[p] = proxyTail[f]
  BY <1>1 DEF ListInv, NothingLost, Peers, In
<1>3. /\ nextPeer' = nextPeer /\ proxyTail' = proxyTail
      /\ p = NULL => place' = [place EXCEPT ![f] = "pool"]
      /\ p # NULL => place' = [place EXCEPT ![f] = "pool", ![p] = "ring"]
  BY DEF AdvancePeer, AdvanceUnlink
<1>4. /\ place \in [Args -> {"unmapped", "pool", "held", "ring", "peer"}]
      /\ nextPeer \in [Args -> Args \union {NULL}]
  BY DEF ListInv, TypeOK
<1>5. /\ place'[f] = "pool"
      /\ p # NULL => place'[p] = "ring"
      /\ \A a \in Args : a # f /\ a # p => place'[a] = place[a]
  BY <1>1, <1>2, <1>3, <1>4
<1>6. Of(d)' = Of(d) \ {f}
  <2>1. \A a \in Args : place'[a] \in {"ring", "peer"}
                           <=> place[a] \in {"ring", "peer"} /\ a # f
    BY <1>2, <1>5
  <2>2. QED
    BY <1>3, <2>1 DEF Of
<1>7. /\ Len(s) \in Nat /\ s \in [1 .. Len(s) -> Of(d)] /\ s \in Seq(Of(d))
      /\ Of(d) \subseteq Args
  BY LenProperties DEF IsQueueOf, Of
<1>8. /\ \A k \in 1 .. Len(s) :
           /\ nextPeer[s[k]] = IF k = Len(s) THEN NULL ELSE s[k + 1]
           /\ place[s[k]] = "ring" <=> k = 1
      /\ \A a \in Of(d) : \E k \in 1 .. Len(s) : s[k] = a
      /\ \A k, m \in 1 .. Len(s) : s[k] = s[m] => k = m
  BY DEF IsQueueOf, Lists
<1>9. \A k \in 1 .. Len(s) : s[k] \in Of(d) /\ s[k] \in Args
  BY <1>7
<1>10. CASE d # proxyTail[f]
  <2>1. \A k \in 1 .. Len(s) : place'[s[k]] = place[s[k]]
    BY <1>2, <1>5, <1>9, <1>10, <1>4 DEF Of
  <2>2. Of(d)' = Of(d)
    BY <1>6, <1>10 DEF Of
  <2>3. Lists(s, Of(d))'
    BY <1>3, <1>8, <2>1, <2>2 DEF Lists
  <2>4. QED
    BY <1>1, <1>10, <2>2, <2>3 DEF IsQueueOf
<1>11. CASE d = proxyTail[f]
  <2> DEFINE q == Tail(s)
  <2>1. 1 \in 1 .. Len(s) /\ s # <<>> /\ s[1] = f
    BY <1>1, <1>11, RingIsHead
  <2>2. PICK n \in Nat : Len(s) = n + 1
    <3>1. Len(s) \in Nat /\ 1 <= Len(s)
      BY <1>7, <2>1
    <3>2. Len(s) - 1 \in Nat /\ Len(s) = (Len(s) - 1) + 1
      BY <3>1
    <3>3. QED
      BY <3>2
  <2>3. /\ q \in Seq(Of(d)) /\ Len(q) = n
        /\ \A k \in 1 .. n : q[k] = s[k + 1] /\ k + 1 \in 1 .. Len(s)
    <3>1. /\ q \in Seq(Of(d)) /\ Len(q) = Len(s) - 1
          /\ \A k \in 1 .. Len(q) : q[k] = s[k + 1]
      BY <1>7, <2>1, HeadTailProperties
    <3>2. Len(q) = n
      BY <2>2, <3>1
    <3>3. \A k \in 1 .. n : k + 1 \in 1 .. Len(s)
      BY <2>2
    <3>4. QED
      BY <3>1, <3>2, <3>3
  <2> HIDE DEF q
  <2>4. \A k \in 1 .. n : q[k] \in Args /\ q[k] # f /\ q[k] \in Of(d)'
    <3> TAKE k \in 1 .. n
    <3>1. q[k] = s[k + 1] /\ k + 1 \in 1 .. Len(s) /\ k + 1 # 1
      BY <2>3
    <3>2. s[k + 1] # s[1]
      BY <1>8, <2>1, <3>1
    <3>3. QED
      BY <1>6, <1>9, <2>1, <3>1, <3>2
  <2>5. q \in Seq(Of(d)')
    <3>1. q \in [1 .. n -> Of(d)]
      BY <2>3, LenProperties
    <3>2. q \in [1 .. n -> Of(d)']
      BY <2>4, <3>1
    <3>3. QED
      BY <2>3, <3>2
  <2>6. n # 0 => p = s[2] /\ p # NULL
    <3>1. n # 0 => 1 # Len(s) /\ 2 \in 1 .. Len(s) /\ 1 + 1 = 2
      BY <2>2
    <3>2. n # 0 => p = s[2]
      BY <1>8, <2>1, <3>1
    <3>3. QED
      BY <1>9, <3>1, <3>2
  <2>7. ASSUME NEW k \in 1 .. n
        PROVE  /\ nextPeer'[q[k]] = IF k = n THEN NULL ELSE q[k + 1]
               /\ place'[q[k]] = "ring" <=> k = 1
    <3>1. /\ q[k] = s[k + 1] /\ k + 1 \in 1 .. Len(s) /\ n # 0
          /\ k = n <=> k + 1 = Len(s)
          /\ k # n => k + 1 \in 1 .. n
          /\ 2 \in 1 .. Len(s)
          /\ k = 1 <=> k + 1 = 2
      BY <2>2, <2>3
    <3>2. nextPeer'[q[k]] = IF k = n THEN NULL ELSE q[k + 1]
      <4>1. nextPeer[s[k + 1]] = IF k + 1 = Len(s) THEN NULL ELSE s[k + 1 + 1]
        BY <1>8, <3>1
      <4>2. k # n => q[k + 1] = s[k + 1 + 1]
        BY <2>3, <3>1
      <4>3. QED
        BY <1>3, <3>1, <4>1, <4>2
    <3>3. place'[q[k]] = "ring" <=> k = 1
      <4>1. CASE k = 1
        BY <1>5, <2>6, <3>1, <4>1
      <4>2. CASE k # 1
        <5>1. k + 1 # 1 /\ s[k + 1] # s[2]
          BY <1>8, <3>1, <4>2
        <5>2. place'[q[k]] = place[s[k + 1]]
          BY <1>5, <2>4, <2>6, <3>1, <5>1
        <5>3. QED
          BY <1>8, <3>1, <4>2, <5>1, <5>2
      <4>3. QED
        BY <4>1, <4>2
    <3>4. QED
      BY <3>2, <3>3
  <2>8. \A a \in Of(d)' : \E k \in 1 .. n : q[k] = a
    <3> TAKE a \in Of(d)'
    <3>1. PICK m \in 1 .. Len(s) : s[m] = a
      BY <1>6, <1>8
    <3>2. m # 1
      BY <1>6, <2>1, <3>1
    <3>3. m - 1 \in 1 .. n /\ m - 1 + 1 = m
      BY <2>2, <3>2
    <3>4. q[m - 1] = a
      BY <2>3, <3>1, <3>3
    <3>5. QED
      BY <3>3, <3>4
  <2>9. \A k, m \in 1 .. n : q[k] = q[m] => k = m
    <3> TAKE k, m \in 1 .. n
    <3>1. /\ q[k] = s[k + 1] /\ q[m] = s[m + 1]
          /\ k + 1 \in 1 .. Len(s) /\ m + 1 \in 1 .. Len(s)
      BY <2>3
    <3>2. q[k] = q[m] => k + 1 = m + 1
      BY <1>8, <3>1
    <3>3. QED
      BY <3>2
  <2>10. Lists(q, Of(d))'
    BY <2>3, <2>7, <2>8, <2>9 DEF Lists
  <2>11. QED
    BY <1>1, <1>11, <2>5, <2>10 DEF IsQueueOf, q
<1>12. QED
  BY <1>10, <1>11

\* The queues as the mapping has them.
Queues == [ch \in Channels |-> ChannelQueue(ch)]

\* Steps that leave the queued elements alone leave the queues alone.
LEMMA QuietKeepsQueues ==
  ASSUME Listed, QueuesRead, QueuesRead', Ring' = Ring, Peers' = Peers,
         \A a \in Queued : nextPeer'[a] = nextPeer[a] /\ proxyTail'[a] = proxyTail[a]
  PROVE  Listed' /\ Queues' = Queues
<1>1. ASSUME NEW ch \in Channels
      PROVE  /\ \E s : IsQueueOf(s, ch)'
             /\ ChannelQueue(ch)' = ChannelQueue(ch)
  <2>1. PICK s : IsQueueOf(s, ch)
    BY DEF Listed
  <2>2. IsQueueOf(s, ch)'
    BY <2>1, SameLists
  <2>3. ChannelQueue(ch) = s
    BY <2>1 DEF QueuesRead
  <2>4. ChannelQueue(ch)' = s
    BY <2>2 DEF QueuesRead
  <2>5. QED
    BY <2>2, <2>3, <2>4
<1>2. QED
  BY <1>1 DEF Listed, Queues

\* A Progress call finishes the first element of a queue, or nothing.
LEMMA ProgressImplements ==
  ASSUME ListInv, Listed, QueuesRead, QueuesRead', Progress
  PROVE  Listed' /\ [Abstract!Next]_(Abstract!vars)
<1>1. UNCHANGED <<nextPeer, proxyTail, place>>
  BY DEF Progress
<1>2. Ring' = Ring /\ Peers' = Peers
  BY <1>1 DEF Ring, Peers, In
<1>3. Listed' /\ Queues' = Queues
  BY <1>1, <1>2, QuietKeepsQueues
<1>4. op \in Ring /\ op \in Args /\ op \in Queued /\ place[op] \in {"ring", "peer"}
  BY DEF Progress, ListInv, ThreadInv, Ring, In, Queued
<1>5. state \in [Args -> ProxyOpState]
  BY DEF ListInv, TypeOK
<1>6. CASE Finished' = Finished
  BY <1>3, <1>6 DEF Abstract!vars, Queues
<1>7. CASE Finished' # Finished
  <2> DEFINE ch == proxyTail[op]
  <2>1. Runnable(op) /\ ProgressCallback(op)
    BY <1>1, <1>7 DEF Progress, Finished
  <2>2. state[op] # "ProxyOpNone" /\ \A a \in Args : a # op => state'[a] = state[a]
    BY <1>4, <1>5, <2>1 DEF Runnable, ProgressCallback
  <2>3. op \notin Finished
    BY <2>2 DEF Finished
  <2>4. Finished' = Finished \union {op}
    <3>1. state'[op] = "ProxyOpNone"
      BY <1>1, <1>7, <2>2, <2>3 DEF Finished
    <3>2. QED
      BY <1>1, <1>4, <2>2, <3>1 DEF Finished
  <2>5. ch \in Channels
    BY <1>4 DEF ListInv, ChannelTails
  <2>6. PICK s : IsQueueOf(s, ch)
    BY <2>5 DEF Listed
  <2>7. Queues[ch] = s
    BY <2>5, <2>6 DEF QueuesRead, Queues
  <2>8. Queues[ch] # <<>> /\ Head(Queues[ch]) = op
    BY <1>4, <2>6, <2>7, RingIsHead
  <2>9. Abstract!Finish(ch)
    BY <1>3, <2>3, <2>4, <2>8 DEF Abstract!Finish, Queues
  <2>10. QED
    BY <1>3, <2>5, <2>9 DEF Abstract!Next
<1>8. QED
  BY <1>6, <1>7

\* ProxyArgsAppend submits the client's element to the channel.
LEMMA AppendImplements ==
  ASSUME ListInv, Listed, QueuesRead, QueuesRead',
         NEW c \in Clients, NEW ch \in Channels, ProxyArgsAppend(c, ch)
  PROVE  Listed' /\ [Abstract!Next]_(Abstract!vars)
<1>1. PICK A : A = held[c]
  OBVIOUS
<1>2. ASSUME NEW d \in Channels
      PROVE  /\ \E s : IsQueueOf(s, d)'
             /\ ChannelQueue(d)' = IF d = ch THEN Append(ChannelQueue(d), A)
                                            ELSE ChannelQueue(d)
             /\ \A i \in 1 .. Len(ChannelQueue(d)) : ChannelQueue(d)[i] \in Queued
  <2>1. PICK s : IsQueueOf(s, d)
    BY DEF Listed
  <2>2. ChannelQueue(d) = s
    BY <2>1 DEF QueuesRead
  <2>3. /\ d # ch => IsQueueOf(s, d)'
        /\ d = ch => IsQueueOf(Append(s, A), d)'
    BY <1>1, <2>1, AppendLists
  <2>4. /\ d # ch => ChannelQueue(d)' = s
        /\ d = ch => ChannelQueue(d)' = Append(s, A)
    BY <2>3 DEF QueuesRead
  <2>5. \A i \in 1 .. Len(s) : s[i] \in Queued
    BY <2>1, LenProperties, OfIsQueued DEF IsQueueOf
  <2>6. QED
    BY <2>2, <2>3, <2>4, <2>5
<1>3. A \in Args /\ A \notin Queued
  <2>1. PICK s : IsQueueOf(s, ch)
    BY DEF Listed
  <2>2. QED
    BY <1>1, <2>1, AppendLists
<1>4. Queues' = [Queues EXCEPT ![ch] = Append(@, A)]
  BY <1>2 DEF Queues
<1>5. A \notin Abstract!QueuedArgs
  BY <1>2, <1>3 DEF Abstract!QueuedArgs, Abstract!Elements
<1>6. Finished' = Finished
  <2>1. /\ place \in [Args -> {"unmapped", "pool", "held", "ring", "peer"}]
        /\ state \in [Args -> ProxyOpState]
    BY DEF ListInv, TypeOK
  <2>2. state' = [state EXCEPT ![A] = "ProxyOpReady"]
    BY <1>1 DEF ProxyArgsAppend, Fill
  <2>3. place' = [place EXCEPT ![A] = "ring"] \/ place' = [place EXCEPT ![A] = "peer"]
    BY <1>1 DEF ProxyArgsAppend
  <2>4. \A a \in Args : a # A => state'[a] = state[a] /\ place'[a] = place[a]
    BY <1>3, <2>1, <2>2, <2>3
  <2>5. A \notin Finished /\ A \notin Finished'
    BY <1>3, <2>1, <2>2 DEF Finished, Queued, Ring, Peers, In
  <2>6. QED
    BY <2>4, <2>5 DEF Finished
<1>7. Abstract!Submit(ch, A)
  BY <1>4, <1>6 DEF Abstract!Submit, Queues
<1>8. QED
  BY <1>2, <1>3, <1>5, <1>7 DEF Listed, Abstract!Next

\* AdvancePeer and AdvanceUnlink reclaim a finished element.
LEMMA AdvanceImplements ==
  ASSUME ListInv, Listed, QueuesRead, QueuesRead', AdvancePeer \/ AdvanceUnlink
  PROVE  Listed' /\ [Abstract!Next]_(Abstract!vars)
<1>1. PICK f : f = next[op]
  OBVIOUS
<1>2. /\ f \in Ring /\ f \in Args /\ f \in Queued /\ state[f] = "ProxyOpNone"
      /\ place[f] = "ring"
  BY <1>1 DEF AdvancePeer, AdvanceUnlink, ListInv, ThreadInv, RingIsOneCycle, Ring, In,
              Queued
<1>3. PICK ch : ch = proxyTail[f]
  OBVIOUS
<1>4. ch \in Channels
  BY <1>2, <1>3 DEF ListInv, ChannelTails
<1>5. ASSUME NEW d \in Channels
      PROVE  /\ \E s : IsQueueOf(s, d)'
             /\ ChannelQueue(d)' = IF d = ch THEN Tail(ChannelQueue(d))
                                            ELSE ChannelQueue(d)
             /\ d = ch => ChannelQueue(d) # <<>> /\ Head(ChannelQueue(d)) = f
  <2>1. PICK s : IsQueueOf(s, d)
    BY DEF Listed
  <2>2. ChannelQueue(d) = s
    BY <2>1 DEF QueuesRead
  <2>3. /\ d # ch => IsQueueOf(s, d)'
        /\ d = ch => IsQueueOf(Tail(s), d)'
    BY <1>1, <1>3, <2>1, AdvanceLists
  <2>4. /\ d # ch => ChannelQueue(d)' = s
        /\ d = ch => ChannelQueue(d)' = Tail(s)
    BY <2>3 DEF QueuesRead
  <2>5. d = ch => s # <<>> /\ Head(s) = f
    BY <1>2, <1>3, <2>1, RingIsHead
  <2>6. QED
    BY <2>2, <2>3, <2>4, <2>5
<1>6. Queues' = [Queues EXCEPT ![ch] = Tail(@)]
  BY <1>5 DEF Queues
<1>7. Queues[ch] # <<>> /\ Head(Queues[ch]) = f
  BY <1>4, <1>5 DEF Queues
<1>8. f \in Finished
  BY <1>2 DEF Finished
<1>9. Finished' = Finished \ {f}
  <2> DEFINE p == nextPeer[f]
  <2>1. place \in [Args -> {"unmapped", "pool", "held", "ring", "peer"}]
    BY DEF ListInv, TypeOK
  <2>2. p # NULL => p \in Args /\ place[p] = "peer"
    BY <1>2 DEF ListInv, NothingLost, Peers, In
  <2>3. /\ state' = state
        /\ p = NULL => place' = [place EXCEPT ![f] = "pool"]
        /\ p # NULL => place' = [place EXCEPT ![f] = "pool", ![p] = "ring"]
    BY <1>1 DEF AdvancePeer, AdvanceUnlink
  <2>4. \A a \in Args : place'[a] \in {"ring", "peer"}
                           <=> place[a] \in {"ring", "peer"} /\ a # f
    <3>1. /\ place'[f] = "pool"
          /\ p # NULL => place'[p] = "ring"
          /\ \A a \in Args : a # f /\ a # p => place'[a] = place[a]
      BY <1>2, <2>1, <2>2, <2>3, ProxyAssumption DEF ProxyAssumption
    <3>2. QED
      BY <1>2, <2>2, <3>1, ProxyAssumption DEF ProxyAssumption
  <2>5. QED
    BY <2>3, <2>4 DEF Finished
<1>10. Abstract!Reclaim(ch)
  BY <1>6, <1>7, <1>8, <1>9 DEF Abstract!Reclaim, Queues
<1>11. QED
  BY <1>4, <1>5, <1>10 DEF Listed, Abstract!Next

\* allocateArgs hands out elements that no queue holds.
LEMMA AllocImplements ==
  ASSUME ListInv, Listed, QueuesRead, QueuesRead', NEW c \in Clients,
         AllocFromPool(c) \/ \E b \in Blocks : AllocNewBlock(c, b)
  PROVE  Listed' /\ [Abstract!Next]_(Abstract!vars)
<1> USE ProxyAssumption DEF ProxyAssumption
<1> DEFINE Kept(a) == /\ place'[a] = place[a] /\ state'[a] = state[a]
                      /\ nextPeer'[a] = nextPeer[a] /\ proxyTail'[a] = proxyTail[a]
           Outside(a) == /\ place[a] # "ring" /\ place[a] # "peer"
                         /\ place'[a] # "ring" /\ place'[a] # "peer"
<1>1. ASSUME NEW a \in Args PROVE Kept(a) \/ Outside(a)
  <2>1. CASE AllocFromPool(c)
    <3>1. pool \in Args /\ place[pool] = "pool"
      BY <2>1 DEF AllocFromPool, ListInv, PoolIsFree, Pool, In
    <3>2. /\ place' = [place EXCEPT ![pool] = "held"]
          /\ nextPeer' = [nextPeer EXCEPT ![pool] = NULL]
          /\ UNCHANGED <<state, proxyTail>>
      BY <2>1 DEF AllocFromPool, LinkCleared
    <3>3. /\ place \in [Args -> {"unmapped", "pool", "held", "ring", "peer"}]
          /\ nextPeer \in [Args -> Args \union {NULL}]
      BY DEF ListInv, TypeOK
    <3>4. CASE a = pool
      BY <3>1, <3>2, <3>3, <3>4
    <3>5. CASE a # pool
      BY <3>2, <3>3, <3>5
    <3>6. QED
      BY <3>4, <3>5
  <2>2. ASSUME NEW b \in Blocks, AllocNewBlock(c, b) PROVE Kept(a) \/ Outside(a)
    <3>1. CASE a[1] = b
      BY <2>2, <3>1 DEF AllocNewBlock
    <3>2. CASE a[1] # b
      BY <2>2, <3>2 DEF AllocNewBlock
    <3>3. QED
      BY <3>1, <3>2
  <2>3. QED
    BY <2>1, <2>2
<1>2. Ring' = Ring /\ Peers' = Peers
  BY <1>1 DEF Ring, Peers, In
<1>3. \A a \in Queued : nextPeer'[a] = nextPeer[a] /\ proxyTail'[a] = proxyTail[a]
  BY <1>1 DEF Queued, Ring, Peers, In
<1>4. Listed' /\ Queues' = Queues
  BY <1>2, <1>3, QuietKeepsQueues
<1>5. Finished' = Finished
  BY <1>1 DEF Finished
<1>6. QED
  BY <1>4, <1>5 DEF Abstract!vars, Queues

\* Every step of the proxy is a step of the queues or leaves them alone.
LEMMA NextImplements ==
  ASSUME ListInv, Listed, QueuesRead, QueuesRead', [Next]_vars
  PROVE  Listed' /\ [Abstract!Next]_(Abstract!vars)
<1>1. CASE UNCHANGED <<nextPeer, proxyTail, place, state>>
  <2>1. Ring' = Ring /\ Peers' = Peers /\ Finished' = Finished
    BY <1>1 DEF Ring, Peers, In, Finished
  <2>2. Listed' /\ Queues' = Queues
    BY <1>1, <2>1, QuietKeepsQueues
  <2>3. QED
    BY <2>1, <2>2 DEF Abstract!vars, Queues
<1>2. CASE Progress
  BY <1>2, ProgressImplements
<1>3. CASE AdvancePeer \/ AdvanceUnlink
  BY <1>3, AdvanceImplements
<1>4. ASSUME NEW c \in Clients,
             AllocFromPool(c) \/ \E b \in Blocks : AllocNewBlock(c, b)
      PROVE  Listed' /\ [Abstract!Next]_(Abstract!vars)
  BY <1>4, AllocImplements
<1>5. ASSUME NEW c \in Clients, NEW ch \in Channels, ProxyArgsAppend(c, ch)
      PROVE  Listed' /\ [Abstract!Next]_(Abstract!vars)
  BY <1>5, AppendImplements
<1>6. CASE \/ UNCHANGED vars
           \/ CheckAbort \/ Fetch \/ AdvanceKeep \/ SpuriousWakeup \/ ProxyCreate
           \/ RaiseAbort
           \/ \E c \in Clients : \/ ProxyStart(c) \/ WaitAllCall(c)
                                \/ WaitAllReturn(c) \/ DestroyStop(c)
                                \/ DestroyFree(c)
  <2>1. UNCHANGED <<nextPeer, proxyTail, place, state>>
    BY <1>6 DEF vars, argsVars, CheckAbort, Fetch, AdvanceKeep, SpuriousWakeup,
                ProxyCreate, CreateThread, RaiseAbort, ProxyStart, WaitAllCall,
                WaitAllReturn, DestroyStop, DestroyFree
  <2>2. QED
    BY <1>1, <2>1
<1>7. QED
  BY <1>2, <1>3, <1>4, <1>5, <1>6 DEF Next, ThreadStep, ClientStep

\* In the initial state every queue is empty.
LEMMA InitImplements ==
  ASSUME Init, QueuesRead
  PROVE  Listed /\ Abstract!Init
<1>1. \A ch : Of(ch) = {}
  BY DEF Init, InitExceptThread, Of
<1>2. \A ch : IsQueueOf(<<>>, ch)
  <2> TAKE ch
  <2>1. <<>> \in Seq(Of(ch)) /\ Len(<<>>) = 0
    BY EmptySeq
  <2>2. Lists(<<>>, Of(ch))
    BY <1>1, <2>1 DEF Lists
  <2>3. QED
    BY <2>1, <2>2 DEF IsQueueOf
<1>3. \A ch \in Channels : ChannelQueue(ch) = <<>>
  BY <1>2 DEF QueuesRead
<1>4. Finished = {}
  BY DEF Init, InitExceptThread, Finished
<1>5. QED
  BY <1>2, <1>3, <1>4 DEF Listed, Abstract!Init

\* The ring, the peer chains and the tail pointers that ProxyArgsAppend and
\* persistentThread maintain are one FIFO queue per channel: elements run and
\* leave in the order in which they were appended, one at a time and only
\* when they have finished, whatever the thread and the clients do.
THEOREM ProxyImplementsQueues == Spec => ImplementsQueues
<1>1. Init => ListInv
  BY InitListInv
<1>2. ListInv /\ [Next]_vars => ListInv'
  BY NextKeepsListInv
<1>3. ListInv => QueuesRead
  BY TheQueue
<1>4. Init /\ QueuesRead => Listed /\ Abstract!Init
  BY InitImplements
<1>5. ListInv /\ Listed /\ QueuesRead /\ QueuesRead' /\ [Next]_vars
        => Listed' /\ [Abstract!Next]_(Abstract!vars)
  BY NextImplements
<1>6. QED
  BY <1>1, <1>2, <1>3, <1>4, <1>5, PTL DEF Spec, ImplementsQueues, Abstract!Spec
=============================================================================
