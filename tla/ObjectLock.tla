----------------------------- MODULE ObjectLock -----------------------------
(***************************************************************************)
(* common/object_lock.h: a lock per object of a huge object space.  A      *)
(* bucket lists a node, with a mutex and a reference count, for each of    *)
(* its objects that somebody has locked or waits for; the node goes back   *)
(* to a pool with the last of them.                                        *)
(*                                                                         *)
(* A critical section of bucketMutex is two steps: it is entered and the   *)
(* list searched, and the node is changed and the section left.  A thread  *)
(* locks one object at a time, as the admin handlers do.                   *)
(***************************************************************************)
EXTENDS Naturals, FiniteSets

CONSTANTS Thread, Object,
          Node,       \* addresses of nodes
          NoNode,     \* nodes.end()
          Free,       \* nobody has the mutex
          Bucket,
          BucketOf,   \* BucketOf[o]: hasher_(o) % nBucket_
          PoolSize    \* maxOutstandingLocksHint, the size of nodePool_

ASSUME ThreadAssumption == IsFiniteSet(Thread) /\ Free \notin Thread
ASSUME NodeAssumption == IsFiniteSet(Node) /\ NoNode \notin Node
ASSUME BucketAssumption == BucketOf \in [Object -> Bucket]
ASSUME PoolSizeAssumption == PoolSize \in Nat

VARIABLES
    bucketMutex,  \* bucketMutex[b]
    nodes,        \* the nodes linked in a bucket's list
    object,       \* object[n]: Node::object
    nodeMutex,    \* nodeMutex[n]: Node::nodeMutex
    refCount,     \* refCount[n]: Node::refCount
    nodePool,     \* nodePool_
    pc,           \* where thread t is
    obj,          \* obj[t]: the object of t's last call
    itor          \* itor[t]: what FindNodeLocked() returned to t

vars == <<bucketMutex, nodes, object, nodeMutex, refCount, nodePool, pc, obj, itor>>

\* "wait": blocked in nodeMutex.lock(); the others are inside bucketMutex.
InBucket == {"lock_ref", "try_ref", "unlock_ref"}

TypeOK ==
    /\ bucketMutex \in [Bucket -> Thread \cup {Free}]
    /\ nodes \subseteq Node
    /\ object \in [Node -> Object]
    /\ nodeMutex \in [Node -> Thread \cup {Free}]
    /\ refCount \in [Node -> Nat]
    /\ nodePool \subseteq Node
    /\ pc \in [Thread -> InBucket \cup {"idle", "wait", "held"}]
    /\ obj \in [Thread -> Object]
    /\ itor \in [Thread -> Node \cup {NoNode}]

Init ==
    /\ bucketMutex = [b \in Bucket |-> Free]
    /\ nodes = {}
    /\ object \in [Node -> Object]
    /\ nodeMutex = [n \in Node |-> Free]
    /\ refCount = [n \in Node |-> 0]
    /\ nodePool = {}
    /\ pc = [t \in Thread |-> "idle"]
    /\ obj \in [Thread -> Object]
    /\ itor = [t \in Thread |-> NoNode]

-----------------------------------------------------------------------------
FindNodeLocked(o) ==
    IF \E n \in nodes : object[n] = o
      THEN CHOOSE n \in nodes : object[n] = o
      ELSE NoNode

\* A node of the pool, or a new one if the pool is empty.
AllocNode == IF nodePool # {} THEN nodePool ELSE Node \ nodes

\* std::lock_guard<MutexType> g(bucketMutex).
Enter(t, o) ==
    /\ bucketMutex[BucketOf[o]] = Free
    /\ bucketMutex' = [bucketMutex EXCEPT ![BucketOf[o]] = t]

Leave(t) == bucketMutex' = [bucketMutex EXCEPT ![BucketOf[obj[t]]] = Free]

EnterLock_NoGuard(t, o) ==
    /\ pc[t] = "idle"
    /\ obj' = [obj EXCEPT ![t] = o]
    /\ itor' = [itor EXCEPT ![t] = FindNodeLocked(o)]
    /\ pc' = [pc EXCEPT ![t] = "lock_ref"]
    /\ bucketMutex' = [bucketMutex EXCEPT ![BucketOf[o]] = t]
    /\ UNCHANGED <<nodes, object, nodeMutex, refCount, nodePool>>

EnterLock(t, o) ==
    /\ pc[t] = "idle"
    /\ Enter(t, o)
    /\ obj' = [obj EXCEPT ![t] = o]
    /\ itor' = [itor EXCEPT ![t] = FindNodeLocked(o)]
    /\ pc' = [pc EXCEPT ![t] = "lock_ref"]
    /\ UNCHANGED <<nodes, object, nodeMutex, refCount, nodePool>>

\* A node for the object is found, or linked; t counts as one of its users
\* before it gives bucketMutex back and waits for nodeMutex.
LockFound(t) ==
    /\ pc[t] = "lock_ref" /\ itor[t] # NoNode
    /\ refCount' = [refCount EXCEPT ![itor[t]] = @ + 1]
    /\ pc' = [pc EXCEPT ![t] = "wait"]
    /\ Leave(t)
    /\ UNCHANGED <<nodes, object, nodeMutex, nodePool, obj, itor>>

LockNew_NotCounted(t) ==
    /\ pc[t] = "lock_ref" /\ itor[t] = NoNode
    /\ \E n \in AllocNode :
          /\ nodePool' = nodePool \ {n}
          /\ object' = [object EXCEPT ![n] = obj[t]]
          /\ nodes' = nodes \cup {n}
          /\ itor' = [itor EXCEPT ![t] = n]
    /\ pc' = [pc EXCEPT ![t] = "wait"]
    /\ Leave(t)
    /\ UNCHANGED <<nodeMutex, refCount, obj>>

LockNew(t) ==
    /\ pc[t] = "lock_ref" /\ itor[t] = NoNode
    /\ \E n \in AllocNode :
          /\ nodePool' = nodePool \ {n}
          /\ object' = [object EXCEPT ![n] = obj[t]]
          /\ nodes' = nodes \cup {n}
          /\ refCount' = [refCount EXCEPT ![n] = @ + 1]
          /\ itor' = [itor EXCEPT ![t] = n]
    /\ pc' = [pc EXCEPT ![t] = "wait"]
    /\ Leave(t)
    /\ UNCHANGED <<nodeMutex, obj>>

LockNode_BacksOff(t) ==
    /\ pc[t] = "wait"
    /\ nodeMutex[itor[t]] = Free
    /\ IF refCount[itor[t]] > 1
         THEN /\ refCount' = [refCount EXCEPT ![itor[t]] = @ - 1]
              /\ pc' = [pc EXCEPT ![t] = "idle"]
              /\ UNCHANGED nodeMutex
         ELSE /\ nodeMutex' = [nodeMutex EXCEPT ![itor[t]] = t]
              /\ pc' = [pc EXCEPT ![t] = "held"]
              /\ UNCHANGED refCount
    /\ UNCHANGED <<bucketMutex, nodes, object, nodePool, obj, itor>>

\* nodeMutex.lock() returns.
LockNode(t) ==
    /\ pc[t] = "wait"
    /\ nodeMutex[itor[t]] = Free
    /\ nodeMutex' = [nodeMutex EXCEPT ![itor[t]] = t]
    /\ pc' = [pc EXCEPT ![t] = "held"]
    /\ UNCHANGED <<bucketMutex, nodes, object, refCount, nodePool, obj, itor>>

EnterTry(t, o) ==
    /\ pc[t] = "idle"
    /\ Enter(t, o)
    /\ obj' = [obj EXCEPT ![t] = o]
    /\ itor' = [itor EXCEPT ![t] = FindNodeLocked(o)]
    /\ pc' = [pc EXCEPT ![t] = "try_ref"]
    /\ UNCHANGED <<nodes, object, nodeMutex, refCount, nodePool>>

\* TryLock() gives up, also when only another object of the bucket is busy
\* (bucketMutex.try_lock() fails: nothing changes and there is no step here).
TryFound(t) ==
    /\ pc[t] = "try_ref" /\ itor[t] # NoNode
    /\ pc' = [pc EXCEPT ![t] = "idle"]
    /\ itor' = [itor EXCEPT ![t] = NoNode]
    /\ Leave(t)
    /\ UNCHANGED <<nodes, object, nodeMutex, refCount, nodePool, obj>>

\* nodeMutex is locked with bucketMutex held, which must not block.
TryNew(t) ==
    /\ pc[t] = "try_ref" /\ itor[t] = NoNode
    /\ \E n \in AllocNode :
          /\ nodeMutex[n] = Free
          /\ nodePool' = nodePool \ {n}
          /\ object' = [object EXCEPT ![n] = obj[t]]
          /\ refCount' = [refCount EXCEPT ![n] = @ + 1]
          /\ nodeMutex' = [nodeMutex EXCEPT ![n] = t]
          /\ nodes' = nodes \cup {n}
          /\ itor' = [itor EXCEPT ![t] = n]
    /\ pc' = [pc EXCEPT ![t] = "held"]
    /\ Leave(t)
    /\ UNCHANGED obj

EnterUnlock_KeepsMutex(t) ==
    /\ pc[t] = "held"
    /\ Enter(t, obj[t])
    /\ itor' = [itor EXCEPT ![t] = FindNodeLocked(obj[t])]
    /\ pc' = [pc EXCEPT ![t] = "unlock_ref"]
    /\ UNCHANGED <<nodes, object, nodeMutex, refCount, nodePool, obj>>

\* Unlock() searches the node again and unlocks its mutex.
EnterUnlock(t) ==
    /\ pc[t] = "held"
    /\ Enter(t, obj[t])
    /\ LET n == FindNodeLocked(obj[t]) IN
          /\ itor' = [itor EXCEPT ![t] = n]
          /\ nodeMutex' = [nodeMutex EXCEPT ![n] = Free]
    /\ pc' = [pc EXCEPT ![t] = "unlock_ref"]
    /\ UNCHANGED <<nodes, object, refCount, nodePool, obj>>

UnlockRef_AlwaysErases(t) ==
    LET n == itor[t] IN
    /\ pc[t] = "unlock_ref"
    /\ refCount' = [refCount EXCEPT ![n] = @ - 1]
    /\ nodes' = nodes \ {n}
    /\ nodePool' = IF Cardinality(nodePool) < PoolSize THEN nodePool \cup {n} ELSE nodePool
    /\ pc' = [pc EXCEPT ![t] = "idle"]
    /\ itor' = [itor EXCEPT ![t] = NoNode]
    /\ Leave(t)
    /\ UNCHANGED <<object, nodeMutex, obj>>

\* The last user unlinks the node; DeallocNode() keeps it in the pool, or
\* deletes it if the pool is full.
UnlockRef(t) ==
    LET n == itor[t] IN
    /\ pc[t] = "unlock_ref"
    /\ refCount' = [refCount EXCEPT ![n] = @ - 1]
    /\ IF refCount[n] = 1
         THEN /\ nodes' = nodes \ {n}
              /\ nodePool' = IF Cardinality(nodePool) < PoolSize
                               THEN nodePool \cup {n} ELSE nodePool
         ELSE UNCHANGED <<nodes, nodePool>>
    /\ pc' = [pc EXCEPT ![t] = "idle"]
    /\ itor' = [itor EXCEPT ![t] = NoNode]
    /\ Leave(t)
    /\ UNCHANGED <<object, nodeMutex, obj>>

Step(t) ==
    \/ LockFound(t)
    \/ LockNew(t)
    \/ LockNode(t)
    \/ TryFound(t)
    \/ TryNew(t)
    \/ EnterUnlock(t)
    \/ UnlockRef(t)

Next ==
    \E t \in Thread :
        \/ \E o \in Object : EnterLock(t, o) \/ EnterTry(t, o)
        \/ Step(t)

Spec == Init /\ [][Next]_vars

\* Every thread runs, and every holder unlocks (SCOPE_EXIT at the callers).
\* A bucketMutex is free again and again; waiting for it needs strong fairness.
FairSpec ==
    /\ Spec
    /\ \A t \in Thread : WF_vars(Step(t)) /\ SF_vars(EnterUnlock(t))

-----------------------------------------------------------------------------
(***************************************************************************)
(* Properties.                                                             *)
(***************************************************************************)

\* The threads between Lock() or TryLock() counting them in and Unlock()
\* counting them out of node n.
Users(n) == {t \in Thread : pc[t] \in {"wait", "held", "unlock_ref"} /\ itor[t] = n}

\* A node lives exactly as long as it has users (lines 76, 113-118): nobody
\* waits for, holds or unlocks the mutex of a node that is in the pool or
\* deleted, nor one that was reused for another object.
NodesAreTheUsed ==
    /\ nodes = {n \in Node : Users(n) # {}}
    /\ \A n \in nodes : \A t \in Users(n) : object[n] = obj[t]

\* Line 92: "Currently the object is not locked by anyone, lock() won't block
\* us".  An allocated node is unlocked, also when it comes from the pool.
TryLockWontBlock ==
    \A t \in Thread :
        pc[t] = "try_ref" /\ itor[t] = NoNode =>
            \A n \in AllocNode : nodeMutex[n] = Free /\ refCount[n] = 0

\* Lock() and Unlock() are a mutex per object.
ImplementsLock ==
    INSTANCE ObjectLockSpec WITH held <- {<<t, obj[t]>> : t \in {u \in Thread : pc[u] = "held"}}

LockIsMutex == ImplementsLock!SpecObjectLock

\* While somebody waits for an object, somebody gets it.
WaitedForIsLocked ==
    \A o \in Object :
        (\E t \in Thread : pc[t] = "wait" /\ obj[t] = o)
            ~> (\E t \in Thread : pc[t] = "held" /\ obj[t] = o)
=============================================================================
