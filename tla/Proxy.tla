------------------------------- MODULE Proxy -------------------------------
(***************************************************************************)
(* The proxy of src/csrc/proxy.cc: client threads allocate ProxyArgs        *)
(* elements from a pool, fill them and append them to a work list; one      *)
(* proxy thread (persistentThread) walks the list, calls each element's     *)
(* progress function and returns finished elements to the pool.             *)
(*                                                                          *)
(* The work list is a circular list linked by `next', which holds one       *)
(* element per channel; the later elements of a channel hang off it in a    *)
(* chain linked by `nextPeer', whose end the channel's own tail pointer     *)
(* (the target of proxyTail in the code, channelTail here) names.           *)
(*                                                                          *)
(* Everything between pthread_mutex_lock and pthread_mutex_unlock is one    *)
(* action.  What the code does outside the mutex (the abort flag, the       *)
(* progress call, the wait loop of ProxyWaitAllOpFinished, pthread_join)    *)
(* has actions of its own.                                                  *)
(***************************************************************************)
EXTENDS Naturals

CONSTANTS
  Clients,                  \* threads that call the API of proxy.h
  Channels,                 \* owners of a tail pointer
  Blocks,                   \* ProxyPool blocks malloc can return; bounds the model
  PROXYARGS_ALLOCATE_SIZE,  \* elements of one block (32 in the code)
  IdleSpinLimit,            \* idle passes before a yield (10 in the code)
  MaxIterations,            \* progress calls a task needs at most (10 in the examples)
  MayAbort,                 \* whether the owner of *abortFlag may raise it
  NULL

\* ProxyArgs elements: the i-th element of a block.
Args == Blocks \X (1 .. PROXYARGS_ALLOCATE_SIZE)

ASSUME ProxyAssumption ==
  /\ PROXYARGS_ALLOCATE_SIZE \in Nat \ {0}
  /\ IdleSpinLimit \in Nat \ {0}
  /\ MaxIterations \in Nat \ {0}
  /\ MayAbort \in BOOLEAN
  /\ NULL \notin Args
  /\ NULL \notin Channels

ProxyOpState == {"ProxyOpNone", "ProxyOpReady", "ProxyOpProgress"}

VARIABLES
  \* ProxyHandler
  proxyThread,  \* TRUE iff the pthread_t is non-zero
  ops,          \* some element of the ring, or NULL
  stop,
  abortFlag,
  pool,         \* first free element, or NULL
  pools,        \* blocks allocated and not freed
  \* fields of every ProxyArgs
  next,
  nextPeer,
  state,
  proxyTail,    \* the channel whose tail pointer proxyTail points to
  iterations,
  \* *proxyTail of every channel
  channelTail,
  \* persistentThread: program counter and locals
  tpc,
  op,
  idle,
  idleSpin,
  \* client threads
  cpc,
  held,         \* element allocated and not yet appended
  unsignalled,  \* appended since its last ProxyStart
  \* history variable: which list an element belongs to
  place

handlerVars == <<proxyThread, ops, stop, abortFlag, pool, pools>>
argsVars    == <<next, nextPeer, state, proxyTail, iterations>>
threadVars  == <<tpc, op, idle, idleSpin>>
clientVars  == <<cpc, held, unsignalled>>
vars == <<handlerVars, argsVars, channelTail, threadVars, clientVars, place>>

In(p) == {a \in Args : place[a] = p}
Ring   == In("ring")   \* linked by next, one element per channel
Peers  == In("peer")   \* behind a ring element, linked by nextPeer
Pool   == In("pool")   \* free
Queued == Ring \union Peers

\* Everything but proxyThread at the start.
InitExceptThread ==
  /\ ops = NULL
  /\ stop = FALSE
  /\ abortFlag = FALSE
  /\ pool = NULL
  /\ pools = {}
  /\ next = [a \in Args |-> NULL]
  /\ nextPeer = [a \in Args |-> NULL]
  /\ state = [a \in Args |-> "ProxyOpNone"]
  /\ proxyTail = [a \in Args |-> NULL]
  /\ iterations = [a \in Args |-> 0]
  /\ channelTail = [ch \in Channels |-> NULL]
  /\ tpc = "none"
  /\ op = NULL
  /\ idle = TRUE
  /\ idleSpin = 0
  /\ cpc = [c \in Clients |-> "new"]
  /\ held = [c \in Clients |-> NULL]
  /\ unsignalled = [c \in Clients |-> FALSE]
  /\ place = [a \in Args |-> "unmapped"]

\* The caller hands over a zeroed handler.
Init == proxyThread = FALSE /\ InitExceptThread

----------------------------------------------------------------------------
(* The proxy thread.                                                       *)

\* The unlocked test of *abortFlag that every round starts with.
CheckAbort ==
  /\ tpc = "check"
  /\ tpc' = IF abortFlag THEN "exited"
            ELSE IF op = NULL THEN "fetch" ELSE "progress"
  /\ UNCHANGED <<handlerVars, argsVars, channelTail, op, idle, idleSpin,
                 clientVars, place>>

\* Mutants: look at stop before ops; sleep without looking at stop.
FetchStopFirst ==
  /\ tpc = "fetch"
  /\ op' = IF stop THEN NULL ELSE ops
  /\ tpc' = IF stop THEN "exited" ELSE IF ops # NULL THEN "progress" ELSE "waiting"
  /\ UNCHANGED <<handlerVars, argsVars, channelTail, idle, idleSpin,
                 clientVars, place>>
FetchIgnoresStop ==
  /\ tpc = "fetch"
  /\ op' = ops
  /\ tpc' = IF ops # NULL THEN "progress" ELSE "waiting"
  /\ UNCHANGED <<handlerVars, argsVars, channelTail, idle, idleSpin,
                 clientVars, place>>

\* With no element in hand: take ops, or exit if stopping, or wait on cond.
Fetch ==
  /\ tpc = "fetch"
  /\ op' = ops
  /\ tpc' = IF ops # NULL THEN "progress"
            ELSE IF stop THEN "exited" ELSE "waiting"
  /\ UNCHANGED <<handlerVars, argsVars, channelTail, idle, idleSpin,
                 clientVars, place>>

\* pthread_cond_wait may return without a signal.
SpuriousWakeup ==
  /\ tpc = "waiting"
  /\ tpc' = "check"
  /\ UNCHANGED <<handlerVars, argsVars, channelTail, op, idle, idleSpin,
                 clientVars, place>>

\* A progress function, as the ones of the examples: one more iteration,
\* ProxyOpNone when it was the last.  (send_benchmark's early return for a
\* full send queue does not happen in ten iterations on 256 entries;
\* recv_benchmark's calls that find no completion change nothing here.)
ProgressCallback(a) ==
  /\ iterations' = [iterations EXCEPT ![a] = @ + 1]
  /\ state' = [state EXCEPT ![a] = IF iterations[a] + 1 = MaxIterations
                                   THEN "ProxyOpNone" ELSE "ProxyOpProgress"]

\* Mutant: every element is run.
AlwaysRunnable(a) == TRUE

\* Only an element that has not finished is run.
Runnable(a) == state[a] # "ProxyOpNone"

\* Call progress on the element in hand unless it has finished.  The
\* callback may leave op->idle set; a finished element never counts as idle.
Progress ==
  /\ tpc = "progress"
  /\ \/ /\ Runnable(op)
        /\ ProgressCallback(op)
        /\ \E opIdle \in BOOLEAN : idle' = (idle /\ opIdle)
     \/ /\ ~Runnable(op)
        /\ idle' = FALSE
        /\ UNCHANGED <<state, iterations>>
  /\ tpc' = "advance"
  /\ UNCHANGED <<handlerVars, next, nextPeer, proxyTail, channelTail, op,
                 idleSpin, clientVars, place>>

\* Mutant: idleSpin is not reset after the yield.
CountIdleForever(newOp, newOps) ==
  /\ idleSpin' = IF idle THEN (IF newOp = newOps THEN idleSpin + 1 ELSE idleSpin)
                          ELSE 0
  /\ idle' = (newOp = newOps \/ idle)

\* Count idle passes: a pass ends when the walk is back at ops.
CountIdle(newOp, newOps) ==
  LET spin == IF idle THEN idleSpin ELSE 0
      passEnds == newOp = newOps
  IN  /\ idleSpin' = IF passEnds /\ idle THEN (spin + 1) % IdleSpinLimit
                                         ELSE spin
      /\ idle' = (passEnds \/ idle)

\* Mutant: the walk stays where it is.
AdvanceNowhere ==
  /\ tpc = "advance"
  /\ state[next[op]] # "ProxyOpNone"
  /\ CountIdle(op, ops)
  /\ tpc' = "check"
  /\ UNCHANGED <<handlerVars, argsVars, channelTail, op, clientVars, place>>

\* The successor has work left: move on to it.
AdvanceKeep ==
  /\ tpc = "advance"
  /\ state[next[op]] # "ProxyOpNone"
  /\ op' = next[op]
  /\ CountIdle(next[op], ops)
  /\ tpc' = "check"
  /\ UNCHANGED <<handlerVars, argsVars, channelTail, clientVars, place>>

\* Mutant: the handler forgets the rest of the ring with the element.
OpsForgotten(freeOp, successor) == IF freeOp = ops THEN NULL ELSE ops

\* handler->ops moves on when it is the element that leaves the ring.
OpsAfter(freeOp, successor) == IF freeOp = ops THEN successor ELSE ops

\* The links of the ring when peer takes the place of freeOp, the successor
\* of op (or op itself, when it is alone).
PeerLinks(freeOp, peer) ==
  IF op # freeOp THEN [next EXCEPT ![peer] = next[freeOp], ![op] = peer]
                 ELSE [next EXCEPT ![peer] = peer]

\* Mutant: op keeps pointing to the element that leaves.
UnlinkNothing(freeOp, after) == next

\* The links of the ring when freeOp leaves it and after follows op.
UnlinkLinks(freeOp, after) ==
  IF op # freeOp THEN [next EXCEPT ![op] = after] ELSE next

\* The successor has finished and its channel has more: the next peer takes
\* its place in the ring and the finished element goes to the pool.
AdvancePeer ==
  /\ tpc = "advance"
  /\ state[next[op]] = "ProxyOpNone"
  /\ nextPeer[next[op]] # NULL
  /\ LET freeOp == next[op]
         peer   == nextPeer[freeOp]
         newOps == OpsAfter(freeOp, peer)
     IN  /\ next' = [PeerLinks(freeOp, peer) EXCEPT ![freeOp] = pool]
         /\ ops' = newOps
         /\ pool' = freeOp
         /\ op' = peer
         /\ place' = [place EXCEPT ![freeOp] = "pool", ![peer] = "ring"]
         /\ CountIdle(peer, newOps)
  /\ tpc' = "check"
  /\ UNCHANGED <<proxyThread, stop, abortFlag, pools, nextPeer, state,
                 proxyTail, iterations, channelTail, clientVars>>

\* The successor has finished and was the last of its channel: unlink it.
AdvanceUnlink ==
  /\ tpc = "advance"
  /\ state[next[op]] = "ProxyOpNone"
  /\ nextPeer[next[op]] = NULL
  /\ LET freeOp == next[op]
         after  == IF op # freeOp THEN next[freeOp] ELSE NULL
         newOps == OpsAfter(freeOp, after)
     IN  /\ channelTail' = [channelTail EXCEPT ![proxyTail[freeOp]] = NULL]
         /\ next' = [UnlinkLinks(freeOp, after) EXCEPT ![freeOp] = pool]
         /\ ops' = newOps
         /\ pool' = freeOp
         /\ op' = after
         /\ place' = [place EXCEPT ![freeOp] = "pool"]
         /\ CountIdle(after, newOps)
  /\ tpc' = "check"
  /\ UNCHANGED <<proxyThread, stop, abortFlag, pools, nextPeer, state,
                 proxyTail, iterations, clientVars>>

ThreadStep ==
  \/ CheckAbort \/ Fetch \/ Progress
  \/ AdvanceKeep \/ AdvancePeer \/ AdvanceUnlink

----------------------------------------------------------------------------
(* The API, called by client threads.                                      *)

\* Mutant: nobody is woken.
SignalLost == UNCHANGED tpc

\* pthread_cond_signal: the proxy thread is the only waiter.
Signal == tpc' = IF tpc = "waiting" THEN "check" ELSE tpc

\* The body of ProxyCreate: nothing happens when proxyThread is set.
CreateThread ==
  /\ proxyThread' = TRUE
  /\ stop' = (proxyThread /\ stop)
  /\ ops' = IF proxyThread THEN ops ELSE NULL
  /\ tpc' = IF proxyThread THEN tpc ELSE "check"
  /\ op' = IF proxyThread THEN op ELSE NULL
  /\ idle' = (proxyThread => idle)
  /\ idleSpin' = IF proxyThread THEN idleSpin ELSE 0
  /\ UNCHANGED <<abortFlag, pool, pools, argsVars, channelTail, held,
                 unsignalled, place>>

\* One client creates the proxy; the others start using it afterwards.
ProxyCreate ==
  /\ \A c \in Clients : cpc[c] = "new"
  /\ CreateThread
  /\ cpc' = [c \in Clients |-> "ready"]

\* Mutant: a recycled element keeps its old links.
LinkKept(links, a) == links

\* elem->next = elem->nextPeer = NULL
LinkCleared(links, a) == [links EXCEPT ![a] = NULL]

\* allocateArgs with a free element at hand.
AllocFromPool(c) ==
  /\ cpc[c] = "ready"
  /\ held[c] = NULL
  /\ pool # NULL
  /\ pool' = next[pool]
  /\ next' = LinkCleared(next, pool)
  /\ nextPeer' = LinkCleared(nextPeer, pool)
  /\ held' = [held EXCEPT ![c] = pool]
  /\ place' = [place EXCEPT ![pool] = "held"]
  /\ UNCHANGED <<proxyThread, ops, stop, abortFlag, pools, state, proxyTail,
                 iterations, channelTail, threadVars, cpc, unsignalled>>

\* allocateArgs with an empty pool: a zeroed block b is chained into the
\* pool and its first element is handed out.
AllocNewBlock(c, b) ==
  /\ cpc[c] = "ready"
  /\ held[c] = NULL
  /\ pool = NULL
  /\ \A a \in Args : a[1] = b => place[a] = "unmapped"
  /\ LET chain(i) == IF i < PROXYARGS_ALLOCATE_SIZE THEN <<b, i + 1>> ELSE NULL
     IN  /\ pool' = chain(1)
         /\ next' = [a \in Args |->
                       IF a[1] # b THEN next[a]
                       ELSE IF a[2] = 1 THEN NULL ELSE chain(a[2])]
         /\ nextPeer' = [a \in Args |-> IF a[1] = b THEN NULL ELSE nextPeer[a]]
         /\ state' = [a \in Args |->
                        IF a[1] = b THEN "ProxyOpNone" ELSE state[a]]
         /\ proxyTail' = [a \in Args |-> IF a[1] = b THEN NULL ELSE proxyTail[a]]
         /\ iterations' = [a \in Args |-> IF a[1] = b THEN 0 ELSE iterations[a]]
         /\ held' = [held EXCEPT ![c] = <<b, 1>>]
         /\ place' = [a \in Args |->
                        IF a[1] # b THEN place[a]
                        ELSE IF a[2] = 1 THEN "held" ELSE "pool"]
  /\ pools' = pools \union {b}
  /\ UNCHANGED <<proxyThread, ops, stop, abortFlag, channelTail, threadVars,
                 cpc, unsignalled>>

\* What a client stores in its element before it appends it.  A task that
\* needs fewer than MaxIterations calls starts with a higher count.
Fill(a, ch, done) ==
  /\ state' = [state EXCEPT ![a] = "ProxyOpReady"]
  /\ proxyTail' = [proxyTail EXCEPT ![a] = ch]
  /\ iterations' = [iterations EXCEPT ![a] = done]

\* Mutant: the last element of the channel is not linked to the new one.
PeerNotLinked(ch, args) == nextPeer

\* (*args->proxyTail)->nextPeer = args
PeerLinked(ch, args) == [nextPeer EXCEPT ![channelTail[ch]] = args]

\* Mutant: the tail pointer moves only when the channel was empty.
TailOnlyFirst(ch, args) ==
  IF channelTail[ch] = NULL THEN [channelTail EXCEPT ![ch] = args] ELSE channelTail

\* *args->proxyTail = args, in both branches.
TailMoved(ch, args) == [channelTail EXCEPT ![ch] = args]

\* ProxyArgsAppend of the element the client holds, filled for channel ch.
ProxyArgsAppend(c, ch) ==
  /\ cpc[c] = "ready"
  /\ held[c] # NULL
  /\ \E done \in 0 .. MaxIterations - 1 : Fill(held[c], ch, done)
  /\ LET args == held[c] IN
     \/ /\ channelTail[ch] = NULL
        /\ next' = IF ops = NULL
                   THEN [next EXCEPT ![args] = args]
                   ELSE [next EXCEPT ![args] = next[ops], ![ops] = args]
        /\ ops' = IF ops = NULL THEN args ELSE ops
        /\ place' = [place EXCEPT ![args] = "ring"]
        /\ UNCHANGED nextPeer
     \/ /\ channelTail[ch] # NULL
        /\ nextPeer' = PeerLinked(ch, args)
        /\ place' = [place EXCEPT ![args] = "peer"]
        /\ UNCHANGED <<next, ops>>
  /\ channelTail' = TailMoved(ch, held[c])
  /\ held' = [held EXCEPT ![c] = NULL]
  /\ unsignalled' = [unsignalled EXCEPT ![c] = TRUE]
  /\ UNCHANGED <<proxyThread, stop, abortFlag, pool, pools, threadVars, cpc>>

\* ProxyStart signals only when there is something to do.
ProxyStart(c) ==
  /\ cpc[c] = "ready"
  /\ \/ /\ ops # NULL
        /\ stop' = FALSE
        /\ Signal
     \/ /\ ops = NULL
        /\ UNCHANGED <<stop, tpc>>
  /\ unsignalled' = [unsignalled EXCEPT ![c] = FALSE]
  /\ UNCHANGED <<proxyThread, ops, abortFlag, pool, pools, argsVars,
                 channelTail, op, idle, idleSpin, cpc, held, place>>

\* ProxyWaitAllOpFinished: called once the client's appends are started ...
WaitAllCall(c) ==
  /\ cpc[c] = "ready"
  /\ ~unsignalled[c]
  /\ cpc' = [cpc EXCEPT ![c] = "waitall"]
  /\ UNCHANGED <<handlerVars, argsVars, channelTail, threadVars, held,
                 unsignalled, place>>

\* ... and left when its unlocked read of ops yields NULL.
WaitAllReturn(c) ==
  /\ cpc[c] = "waitall"
  /\ ops = NULL
  /\ cpc' = [cpc EXCEPT ![c] = "ready"]
  /\ UNCHANGED <<handlerVars, argsVars, channelTail, threadVars, held,
                 unsignalled, place>>

\* ProxyDestroy, first part.  Its contract: no other call is under way, no
\* element is held back, and no client calls the API afterwards.
DestroyStop(c) ==
  /\ \A d \in Clients : cpc[d] = "ready" /\ held[d] = NULL
  /\ stop' = TRUE
  /\ Signal
  /\ cpc' = [d \in Clients |-> IF d = c THEN "join" ELSE "gone"]
  /\ UNCHANGED <<proxyThread, ops, abortFlag, pool, pools, argsVars,
                 channelTail, op, idle, idleSpin, held, unsignalled, place>>

\* Mutant: the thread is not joined.
NotJoined == TRUE

\* pthread_join returns when the thread has.
Joined == tpc = "exited"

\* ProxyDestroy, second part: pthread_join returns and the blocks are freed.
\* pool, ops and proxyThread keep their values.
DestroyFree(c) ==
  /\ cpc[c] = "join"
  /\ Joined
  /\ pools' = {}
  /\ cpc' = [cpc EXCEPT ![c] = "over"]
  /\ UNCHANGED <<proxyThread, ops, stop, abortFlag, pool, argsVars,
                 channelTail, threadVars, held, unsignalled, place>>

\* The owner of the flag raises it, at any time.
RaiseAbort ==
  /\ MayAbort
  /\ ~abortFlag
  /\ abortFlag' = TRUE
  /\ UNCHANGED <<proxyThread, ops, stop, pool, pools, argsVars, channelTail,
                 threadVars, clientVars, place>>

ClientStep(c) ==
  \/ AllocFromPool(c)
  \/ \E b \in Blocks : AllocNewBlock(c, b)
  \/ \E ch \in Channels : ProxyArgsAppend(c, ch)
  \/ ProxyStart(c)
  \/ WaitAllCall(c) \/ WaitAllReturn(c)
  \/ DestroyStop(c) \/ DestroyFree(c)

Next ==
  \/ ThreadStep
  \/ SpuriousWakeup
  \/ ProxyCreate
  \/ \E c \in Clients : ClientStep(c)
  \/ RaiseAbort

Spec == Init /\ [][Next]_vars

\* The proxy thread keeps running; a client that has appended goes on to
\* ProxyStart, and one that has entered ProxyWaitAllOpFinished or
\* ProxyDestroy goes on as soon as it can.  Nobody has to append or destroy.
Fairness ==
  /\ WF_vars(ThreadStep)
  /\ \A c \in Clients : /\ WF_vars(ProxyStart(c))
                         /\ WF_vars(WaitAllReturn(c))
                         /\ WF_vars(DestroyFree(c))

FairSpec == Spec /\ Fairness

----------------------------------------------------------------------------
(* Properties.                                                             *)

\* Every variable stays in its type.
TypeOK ==
  /\ proxyThread \in BOOLEAN
  /\ ops \in Args \union {NULL}
  /\ stop \in BOOLEAN
  /\ abortFlag \in BOOLEAN
  /\ pool \in Args \union {NULL}
  /\ pools \in SUBSET Blocks
  /\ next \in [Args -> Args \union {NULL}]
  /\ nextPeer \in [Args -> Args \union {NULL}]
  /\ state \in [Args -> ProxyOpState]
  /\ proxyTail \in [Args -> Channels \union {NULL}]
  /\ iterations \in [Args -> 0 .. MaxIterations]
  /\ channelTail \in [Channels -> Args \union {NULL}]
  /\ tpc \in {"none", "check", "fetch", "waiting", "progress", "advance",
              "exited"}
  /\ op \in Args \union {NULL}
  /\ idle \in BOOLEAN
  /\ idleSpin \in 0 .. IdleSpinLimit - 1
  /\ cpc \in [Clients -> {"new", "ready", "waitall", "join", "gone", "over"}]
  /\ held \in [Clients -> Args \union {NULL}]
  /\ unsignalled \in [Clients -> BOOLEAN]
  /\ place \in [Args -> {"unmapped", "pool", "held", "ring", "peer"}]

\* The ring is one cycle: ops is NULL exactly when it is empty, successors
\* stay inside it and are distinct, and no proper part of it is closed under
\* next, so the walk of persistentThread visits every element.
RingIsOneCycle ==
  /\ IF ops = NULL THEN Ring = {} ELSE ops \in Ring
  /\ \A a \in Ring : next[a] \in Ring
  /\ \A a, b \in Ring : next[a] = next[b] => a = b
  /\ \A S \in SUBSET Ring :
       S # {} /\ (\A a \in S : next[a] \in S) => S = Ring

\* Channels and peer chains: at most one ring element per channel, the tail
\* pointer of a channel names the one element of it without a successor, and
\* is NULL when the channel has none.
ChannelTails ==
  /\ \A a, b \in Ring : proxyTail[a] = proxyTail[b] => a = b
  /\ \A a \in Queued :
       /\ proxyTail[a] \in Channels
       /\ channelTail[proxyTail[a]] # NULL
       /\ nextPeer[a] = NULL => channelTail[proxyTail[a]] = a
  /\ \A ch \in Channels : channelTail[ch] # NULL =>
       /\ channelTail[ch] \in Queued
       /\ proxyTail[channelTail[ch]] = ch
       /\ nextPeer[channelTail[ch]] = NULL
       /\ \E a \in Ring : proxyTail[a] = ch

\* No appended element is lost: whatever is queued is reached from the ring
\* along nextPeer.
NothingLost ==
  /\ \A a \in Queued : nextPeer[a] # NULL =>
       nextPeer[a] \in Peers /\ proxyTail[nextPeer[a]] = proxyTail[a]
  /\ \A a, b \in Queued :
       nextPeer[a] # NULL /\ nextPeer[a] = nextPeer[b] => a = b
  /\ \A S \in SUBSET Queued :
       Ring \subseteq S /\ (\A a \in S : nextPeer[a] # NULL => nextPeer[a] \in S)
         => S = Queued

\* ProxyWaitAllOpFinished is sound: when its unlocked read finds ops NULL,
\* every appended element has finished and is back in the pool.
WaitAllSound == ops = NULL => Queued = {}

\* Until the thread has exited, every element in use lies in a live block.
MemoryInv ==
  tpc # "exited" => \A a \in Args : place[a] # "unmapped" => a[1] \in pools

\* The proxy thread touches only elements of the ring, and nothing it may
\* still reach is freed: ProxyDestroy waits for it, and frees every block.
NoUseAfterFree ==
  /\ MemoryInv
  /\ tpc \in {"progress", "advance"} => op \in Ring

\* allocateArgs hands out free elements: no element is given to two clients
\* or to a client while it is queued, and the pool holds free ones only.
PoolIsFree ==
  /\ pool # NULL => pool \in Pool
  /\ \A a \in Pool : next[a] # NULL => next[a] \in Pool /\ next[a] # pool
  /\ \A a, b \in Pool : next[a] # NULL /\ next[a] = next[b] => a = b
  /\ \A c \in Clients : held[c] # NULL =>
       /\ place[held[c]] = "held"
       /\ nextPeer[held[c]] = NULL
       /\ \A d \in Clients : held[d] = held[c] => d = c

\* The element in hand is in the ring whenever the thread is about to use
\* it; only live tasks run; there is no list without a proxy thread.
ThreadInv ==
  /\ op # NULL => op \in Ring
  /\ tpc \in {"progress", "advance"} => op # NULL
  /\ \A a \in Args : state[a] # "ProxyOpNone" => iterations[a] < MaxIterations
  /\ ~proxyThread => ops = NULL /\ tpc = "none"
  /\ \A c \in Clients : cpc[c] # "new" => proxyThread

\* The list part of the inductive invariant.
ListInv ==
  /\ TypeOK
  /\ RingIsOneCycle
  /\ ChannelTails
  /\ NothingLost
  /\ PoolIsFree
  /\ ThreadInv

\* No wakeup is lost: the thread sleeps on a non-empty list only while some
\* client has yet to call ProxyStart, and never sleeps once stop is set.
NoLostWakeup ==
  tpc = "waiting" =>
    /\ ~stop
    /\ ops # NULL => \E c \in Clients : unsignalled[c]

\* Unless it was aborted, the thread exits only with all the work done.
DrainedAtExit == tpc = "exited" /\ ~abortFlag => Queued = {}

\* stop is set only while ProxyDestroy has the handler to itself, so nothing
\* is appended after the thread has left for it.
ShutdownInv ==
  /\ stop => \A c \in Clients : cpc[c] \in {"join", "gone", "over"}
  /\ tpc = "exited" /\ ~abortFlag => stop /\ ops = NULL

\* The inductive invariant: what every step of the proxy and of its clients
\* preserves, and what all of the safety properties follow from.
IndInv == ListInv /\ MemoryInv /\ ShutdownInv /\ NoLostWakeup

\* A finished element is not run again: the only step that takes an element
\* out of ProxyOpNone is the client's that appends it.
FinishedStaysFinished ==
  [][\A a \in Queued : state[a] = "ProxyOpNone" => state'[a] = "ProxyOpNone"]_vars

\* Every appended element finishes and returns to the pool, whatever the
\* other clients append meanwhile, unless the proxy is aborted.
OpCompletes == \A a \in Args : a \in Queued ~> a \in Pool \/ abortFlag

\* ProxyWaitAllOpFinished returns when its caller is the only client, unless
\* the proxy is aborted: the wait loop does not look at abortFlag.
WaitAllReturns ==
  \A c \in Clients : cpc[c] = "waitall" ~> cpc[c] = "ready" \/ abortFlag

\* ProxyDestroy returns, aborted or not: it does not join in vain.
DestroyReturns == \A c \in Clients : cpc[c] = "join" ~> cpc[c] = "over"
=============================================================================
