-------------------------- MODULE ObjectLockProofs --------------------------
(***************************************************************************)
(* Proofs about ObjectLock, for any finite set of threads, any objects,    *)
(* buckets and hash function, and any size of the pool.                    *)
(*                                                                         *)
(* The argument: bucketMutex makes search and change one step for the      *)
(* objects of a bucket (FoundIsCurrent), so an object has at most one node *)
(* (OneNode); refCount is the number of users of a node (CountIsExact), so *)
(* a node is unlinked when its last user leaves and not earlier            *)
(* (UsersAreLinked); all that lock an object therefore use the same mutex. *)
(***************************************************************************)
EXTENDS ObjectLock, FiniteSetTheorems, TLAPS

Using == {"wait", "held", "unlock_ref"}

BucketIsLocked ==
    \A t \in Thread : pc[t] \in InBucket => bucketMutex[BucketOf[obj[t]]] = t

FoundIsCurrent ==
    \A t \in Thread :
        pc[t] \in {"lock_ref", "try_ref"} =>
            \/ itor[t] = NoNode /\ \A n \in nodes : object[n] # obj[t]
            \/ itor[t] \in nodes /\ object[itor[t]] = obj[t]

UsersAreLinked ==
    \A t \in Thread : pc[t] \in Using => itor[t] \in nodes /\ object[itor[t]] = obj[t]

LinkedAreUsed == \A n \in nodes : Users(n) # {}

CountIsExact == \A n \in Node : refCount[n] = Cardinality(Users(n))

OneNode == \A m, n \in nodes : object[m] = object[n] => m = n

PoolIsUnlinked == \A n \in nodePool : n \notin nodes

MutexIsHeld ==
    /\ \A n \in Node : nodeMutex[n] # Free =>
          pc[nodeMutex[n]] = "held" /\ itor[nodeMutex[n]] = n
    /\ \A t \in Thread : pc[t] = "held" => nodeMutex[itor[t]] = t

Structure ==
    /\ BucketIsLocked
    /\ FoundIsCurrent
    /\ UsersAreLinked
    /\ OneNode
    /\ PoolIsUnlinked
    /\ MutexIsHeld

IInv ==
    /\ TypeOK
    /\ Structure
    /\ LinkedAreUsed
    /\ CountIsExact

-----------------------------------------------------------------------------
\* FindNodeLocked() returns the node of the object, or nodes.end() if the
\* object has none.
LEMMA FindIsCurrent ==
    ASSUME NEW o \in Object
    PROVE  \/ FindNodeLocked(o) = NoNode /\ \A n \in nodes : object[n] # o
           \/ FindNodeLocked(o) \in nodes /\ object[FindNodeLocked(o)] = o
  BY DEF FindNodeLocked

\* AllocNode() returns a node that no list links.
LEMMA AllocIsUnlinked ==
    ASSUME TypeOK, PoolIsUnlinked, NEW n \in AllocNode
    PROVE  n \in Node /\ n \notin nodes
  BY DEF AllocNode, TypeOK, PoolIsUnlinked

\* The users of a node are finitely many.
LEMMA UsersFinite == \A n : IsFiniteSet(Users(n))
  BY ThreadAssumption, FS_Subset DEF Users

\* Every step of Lock(), TryLock() and Unlock() keeps the types.
LEMMA NextTypeOK == IInv /\ [Next]_vars => TypeOK'
  <1> SUFFICES ASSUME IInv, [Next]_vars PROVE TypeOK'
    OBVIOUS
  <1> USE BucketAssumption DEF IInv, TypeOK, InBucket, Enter, Leave
  <1>1. ASSUME NEW t \in Thread, NEW o \in Object, EnterLock(t, o) \/ EnterTry(t, o)
        PROVE  TypeOK'
    <2>1. FindNodeLocked(o) \in Node \cup {NoNode}
      BY FindIsCurrent
    <2>2. QED BY <1>1, <2>1 DEF EnterLock, EnterTry
  <1>2. ASSUME NEW t \in Thread, LockFound(t) PROVE TypeOK'
    BY <1>2 DEF LockFound
  <1>3. ASSUME NEW t \in Thread, LockNew(t) PROVE TypeOK'
    <2>1. \A n \in AllocNode : n \in Node
      BY AllocIsUnlinked DEF Structure
    <2>2. QED BY <1>3, <2>1 DEF LockNew
  <1>4. ASSUME NEW t \in Thread, LockNode(t) PROVE TypeOK'
    BY <1>4 DEF LockNode
  <1>5. ASSUME NEW t \in Thread, TryFound(t) PROVE TypeOK'
    BY <1>5 DEF TryFound
  <1>6. ASSUME NEW t \in Thread, TryNew(t) PROVE TypeOK'
    <2>1. \A n \in AllocNode : n \in Node
      BY AllocIsUnlinked DEF Structure
    <2>2. QED BY <1>6, <2>1 DEF TryNew
  <1>7. ASSUME NEW t \in Thread, EnterUnlock(t) PROVE TypeOK'
    <2>1. FindNodeLocked(obj[t]) \in Node \cup {NoNode}
      BY FindIsCurrent
    <2>2. QED BY <1>7, <2>1 DEF EnterUnlock
  <1>8. ASSUME NEW t \in Thread, UnlockRef(t) PROVE TypeOK'
    <2>1. t \in Users(itor[t]) /\ itor[t] \in Node
      BY <1>8 DEF UnlockRef, Users, Structure, UsersAreLinked, Using
    <2>2. refCount[itor[t]] - 1 \in Nat
      BY <2>1, UsersFinite, FS_RemoveElement, FS_CardinalityType, FS_EmptySet
      DEF CountIsExact
    <2>3. QED BY <1>8, <2>1, <2>2 DEF UnlockRef
  <1>9. CASE UNCHANGED vars
    BY <1>9 DEF vars
  <1>10. QED
    BY <1>1, <1>2, <1>3, <1>4, <1>5, <1>6, <1>7, <1>8, <1>9 DEF Next, Step

\* The reference count tells Unlock() whether t is the last user.
LEMMA LastUser ==
    ASSUME TypeOK, UsersAreLinked, CountIsExact, NEW t \in Thread, pc[t] \in Using
    PROVE  IF refCount[itor[t]] = 1 THEN Users(itor[t]) = {t}
                                    ELSE Users(itor[t]) \ {t} # {}
  <1> DEFINE U == Users(itor[t])
  <1>1. t \in U /\ IsFiniteSet(U) /\ refCount[itor[t]] = Cardinality(U)
    BY UsersFinite DEF Users, Using, UsersAreLinked, CountIsExact, TypeOK
  <1>2. /\ IsFiniteSet(U \ {t})
        /\ Cardinality(U \ {t}) = Cardinality(U) - 1
        /\ Cardinality(U) \in Nat
    BY <1>1, FS_RemoveElement, FS_CardinalityType
  <1>3. (Cardinality(U \ {t}) = 0) <=> (U \ {t} = {})
    BY <1>2, FS_EmptySet
  <1>4. QED
    BY <1>1, <1>2, <1>3

\* Every step keeps the structure: a change of a list is made by the thread
\* that has the bucket's mutex, and a node is unlinked by its last user.
LEMMA NextStructure == IInv /\ [Next]_vars => Structure'
  <1> SUFFICES ASSUME IInv, [Next]_vars PROVE Structure'
    OBVIOUS
  <1> USE BucketAssumption, NodeAssumption, ThreadAssumption
      DEF IInv, TypeOK, InBucket, Using, Leave,
          Structure, BucketIsLocked, FoundIsCurrent, UsersAreLinked, OneNode,
          PoolIsUnlinked, MutexIsHeld
  <1>1. ASSUME NEW t \in Thread, NEW o \in Object, EnterLock(t, o) \/ EnterTry(t, o)
        PROVE  Structure'
    <2>1. \/ FindNodeLocked(o) = NoNode /\ \A n \in nodes : object[n] # o
          \/ FindNodeLocked(o) \in nodes /\ object[FindNodeLocked(o)] = o
      BY FindIsCurrent
    <2>2. QED BY <1>1, <2>1 DEF EnterLock, EnterTry, Enter
  <1>2. ASSUME NEW t \in Thread, LockFound(t) PROVE Structure'
    BY <1>2 DEF LockFound
  <1>3. ASSUME NEW t \in Thread, LockNew(t) PROVE Structure'
    <2>1. PICK n \in AllocNode :
             /\ nodePool' = nodePool \ {n}
             /\ object' = [object EXCEPT ![n] = obj[t]]
             /\ nodes' = nodes \cup {n}
             /\ itor' = [itor EXCEPT ![t] = n]
      BY <1>3 DEF LockNew
    <2>2. n \in Node /\ n \notin nodes
      BY AllocIsUnlinked
    <2>3. BucketIsLocked'
      BY <1>3 DEF LockNew
    <2>4. FoundIsCurrent'
      BY <1>3, <2>1, <2>2 DEF LockNew
    <2>5. UsersAreLinked' /\ OneNode' /\ PoolIsUnlinked'
      BY <1>3, <2>1, <2>2 DEF LockNew
    <2>6. MutexIsHeld'
      BY <1>3, <2>1, <2>2 DEF LockNew
    <2>7. QED BY <2>3, <2>4, <2>5, <2>6
  <1>4. ASSUME NEW t \in Thread, LockNode(t) PROVE Structure'
    BY <1>4 DEF LockNode
  <1>5. ASSUME NEW t \in Thread, TryFound(t) PROVE Structure'
    BY <1>5 DEF TryFound
  <1>6. ASSUME NEW t \in Thread, TryNew(t) PROVE Structure'
    <2>1. PICK n \in AllocNode :
             /\ nodeMutex[n] = Free
             /\ nodePool' = nodePool \ {n}
             /\ object' = [object EXCEPT ![n] = obj[t]]
             /\ nodeMutex' = [nodeMutex EXCEPT ![n] = t]
             /\ nodes' = nodes \cup {n}
             /\ itor' = [itor EXCEPT ![t] = n]
      BY <1>6 DEF TryNew
    <2>2. n \in Node /\ n \notin nodes
      BY AllocIsUnlinked
    <2>3. BucketIsLocked'
      BY <1>6 DEF TryNew
    <2>4. FoundIsCurrent'
      BY <1>6, <2>1, <2>2 DEF TryNew
    <2>5. UsersAreLinked' /\ OneNode' /\ PoolIsUnlinked'
      BY <1>6, <2>1, <2>2 DEF TryNew
    <2>6. MutexIsHeld'
      BY <1>6, <2>1, <2>2 DEF TryNew
    <2>7. QED BY <2>3, <2>4, <2>5, <2>6
  <1>7. ASSUME NEW t \in Thread, EnterUnlock(t) PROVE Structure'
    <2>1. FindNodeLocked(obj[t]) = itor[t] /\ itor[t] \in nodes
      BY <1>7, FindIsCurrent DEF EnterUnlock
    <2>2. QED BY <1>7, <2>1 DEF EnterUnlock, Enter
  <1>8. ASSUME NEW t \in Thread, UnlockRef(t) PROVE Structure'
    <2>1. CASE refCount[itor[t]] = 1
      <3>1. \A u \in Thread : pc[u] \in Using /\ itor[u] = itor[t] => u = t
        BY <1>8, <2>1, LastUser DEF UnlockRef, Users
      <3>2. /\ nodes' = nodes \ {itor[t]}
            /\ nodePool' \subseteq nodePool \cup {itor[t]}
        BY <1>8, <2>1 DEF UnlockRef
      <3>3. BucketIsLocked'
        BY <1>8 DEF UnlockRef
      <3>4. FoundIsCurrent'
        BY <1>8, <3>2 DEF UnlockRef
      <3>5. UsersAreLinked' /\ OneNode' /\ PoolIsUnlinked'
        BY <1>8, <3>1, <3>2 DEF UnlockRef
      <3>6. MutexIsHeld'
        BY <1>8 DEF UnlockRef
      <3>7. QED BY <3>3, <3>4, <3>5, <3>6
    <2>2. CASE refCount[itor[t]] # 1
      BY <1>8, <2>2 DEF UnlockRef
    <2>3. QED BY <2>1, <2>2
  <1>9. CASE UNCHANGED vars
    BY <1>9 DEF vars
  <1>10. QED
    BY <1>1, <1>2, <1>3, <1>4, <1>5, <1>6, <1>7, <1>8, <1>9 DEF Next, Step

\* A thread that starts to use node n is counted in, and nobody else.
LEMMA CountIn ==
    ASSUME IInv, NEW t \in Thread, NEW n \in Node, t \notin Users(n),
           refCount' = [refCount EXCEPT ![n] = @ + 1],
           \A m \in Node : Users(m)' = IF m = n THEN Users(m) \cup {t} ELSE Users(m)
    PROVE  CountIsExact'
  <1>1. Cardinality(Users(n) \cup {t}) = Cardinality(Users(n)) + 1
    BY UsersFinite, FS_AddElement
  <1>2. \A m \in Node : refCount'[m] = Cardinality(Users(m)')
    BY <1>1 DEF IInv, TypeOK, CountIsExact
  <1>3. QED BY <1>2 DEF CountIsExact

\* A thread that stops to use node n is counted out, and nobody else.
LEMMA CountOut ==
    ASSUME IInv, NEW t \in Thread, NEW n \in Node, t \in Users(n),
           refCount' = [refCount EXCEPT ![n] = @ - 1],
           \A m \in Node : Users(m)' = IF m = n THEN Users(m) \ {t} ELSE Users(m)
    PROVE  CountIsExact'
  <1>1. Cardinality(Users(n) \ {t}) = Cardinality(Users(n)) - 1
    BY UsersFinite, FS_RemoveElement
  <1>2. \A m \in Node : refCount'[m] = Cardinality(Users(m)')
    BY <1>1 DEF IInv, TypeOK, CountIsExact
  <1>3. QED BY <1>2 DEF CountIsExact

\* Every step keeps refCount equal to the number of users, and a linked node
\* used.
LEMMA NextCounts == IInv /\ [Next]_vars => LinkedAreUsed' /\ CountIsExact'
  <1> SUFFICES ASSUME IInv, [Next]_vars PROVE LinkedAreUsed' /\ CountIsExact'
    OBVIOUS
  <1>0. TypeOK /\ UsersAreLinked /\ PoolIsUnlinked /\ FoundIsCurrent
        /\ LinkedAreUsed /\ CountIsExact
    BY DEF IInv, Structure
  <1>a. ASSUME UNCHANGED <<refCount, nodes>>, \A n \in Node : Users(n)' = Users(n)
        PROVE  LinkedAreUsed' /\ CountIsExact'
    BY <1>0, <1>a DEF LinkedAreUsed, CountIsExact, TypeOK
  <1>1. ASSUME NEW t \in Thread, NEW o \in Object, EnterLock(t, o) \/ EnterTry(t, o)
        PROVE  LinkedAreUsed' /\ CountIsExact'
    <2>1. \A n \in Node : Users(n)' = Users(n)
      BY <1>0, <1>1 DEF EnterLock, EnterTry, Users, TypeOK
    <2>2. QED BY <1>1, <1>a, <2>1 DEF EnterLock, EnterTry
  <1>2. ASSUME NEW t \in Thread, LockFound(t) PROVE LinkedAreUsed' /\ CountIsExact'
    <2> DEFINE n == itor[t]
    <2>1. n \in nodes /\ n \in Node /\ t \notin Users(n)
      BY <1>0, <1>2 DEF LockFound, Users, FoundIsCurrent, TypeOK
    <2>2. \A m \in Node : Users(m)' = IF m = n THEN Users(m) \cup {t} ELSE Users(m)
      BY <1>0, <1>2 DEF LockFound, Users, TypeOK
    <2>3. CountIsExact'
      BY <1>2, <2>1, <2>2, CountIn DEF LockFound
    <2>4. LinkedAreUsed'
      BY <1>0, <1>2, <2>2 DEF LockFound, LinkedAreUsed, TypeOK
    <2>5. QED BY <2>3, <2>4
  <1>3. ASSUME NEW t \in Thread, LockNew(t) \/ TryNew(t)
        PROVE  LinkedAreUsed' /\ CountIsExact'
    <2>1. PICK n \in AllocNode :
             /\ nodes' = nodes \cup {n}
             /\ refCount' = [refCount EXCEPT ![n] = @ + 1]
             /\ itor' = [itor EXCEPT ![t] = n]
      BY <1>3 DEF LockNew, TryNew
    <2>2. n \in Node /\ n \notin nodes /\ t \notin Users(n)
      BY <1>0, <1>3, AllocIsUnlinked DEF LockNew, TryNew, Users
    <2>3. pc' = [pc EXCEPT ![t] = IF pc[t] = "lock_ref" THEN "wait" ELSE "held"]
      BY <1>0, <1>3 DEF LockNew, TryNew, TypeOK
    <2>4. pc[t] \notin Using
      BY <1>3 DEF LockNew, TryNew, Using
    <2>5. \A m \in Node : Users(m)' = IF m = n THEN Users(m) \cup {t} ELSE Users(m)
      BY <1>0, <2>1, <2>3, <2>4 DEF Users, TypeOK, Using
    <2>6. CountIsExact'
      BY <2>1, <2>2, <2>5, CountIn
    <2>7. LinkedAreUsed'
      BY <1>0, <2>1, <2>2, <2>5 DEF LinkedAreUsed, TypeOK
    <2>8. QED BY <2>6, <2>7
  <1>4. ASSUME NEW t \in Thread, LockNode(t) \/ TryFound(t)
        PROVE  LinkedAreUsed' /\ CountIsExact'
    <2>1. \A n \in Node : Users(n)' = Users(n)
      BY <1>0, <1>4 DEF LockNode, TryFound, Users, TypeOK
    <2>2. QED BY <1>4, <1>a, <2>1 DEF LockNode, TryFound
  <1>5. ASSUME NEW t \in Thread, EnterUnlock(t) PROVE LinkedAreUsed' /\ CountIsExact'
    <2>1. FindNodeLocked(obj[t]) = itor[t]
      BY <1>5, FindIsCurrent
      DEF EnterUnlock, IInv, Structure, TypeOK, UsersAreLinked, OneNode, Using
    <2>2. \A n \in Node : Users(n)' = Users(n)
      BY <1>0, <1>5, <2>1 DEF EnterUnlock, Users, TypeOK
    <2>3. QED BY <1>5, <1>a, <2>2 DEF EnterUnlock
  <1>6. ASSUME NEW t \in Thread, UnlockRef(t) PROVE LinkedAreUsed' /\ CountIsExact'
    <2> DEFINE n == itor[t]
    <2>1. n \in nodes /\ n \in Node /\ t \in Users(n) /\ pc[t] \in Using
      BY <1>0, <1>6 DEF UnlockRef, Users, UsersAreLinked, TypeOK, Using
    <2>2. \A m \in Node : Users(m)' = IF m = n THEN Users(m) \ {t} ELSE Users(m)
      BY <1>0, <1>6, NodeAssumption DEF UnlockRef, Users, TypeOK
    <2>3. CountIsExact'
      BY <1>6, <2>1, <2>2, CountOut DEF UnlockRef
    <2>4. CASE refCount[n] = 1
      BY <1>0, <1>6, <2>2, <2>3, <2>4 DEF UnlockRef, LinkedAreUsed, TypeOK
    <2>5. CASE refCount[n] # 1
      <3>1. Users(n) \ {t} # {}
        BY <1>0, <2>1, <2>5, LastUser
      <3>2. LinkedAreUsed'
        BY <1>0, <1>6, <2>2, <2>5, <3>1 DEF UnlockRef, LinkedAreUsed, TypeOK
      <3>3. QED BY <2>3, <3>2
    <2>6. QED BY <2>3, <2>4, <2>5
  <1>7. CASE UNCHANGED vars
    BY <1>7, <1>a DEF vars, Users
  <1>8. QED
    BY <1>1, <1>2, <1>3, <1>4, <1>5, <1>6, <1>7 DEF Next, Step

\* The initial state, no node linked, satisfies the inductive invariant.
LEMMA InitIInv == Init => IInv
  <1> SUFFICES ASSUME Init PROVE IInv
    OBVIOUS
  <1>1. TypeOK /\ Structure
    BY DEF Init, TypeOK, InBucket, Using, Structure, BucketIsLocked, FoundIsCurrent,
           UsersAreLinked, OneNode, PoolIsUnlinked, MutexIsHeld
  <1>2. \A n \in Node : Users(n) = {}
    BY DEF Init, Users
  <1>3. LinkedAreUsed /\ CountIsExact
    BY <1>2, FS_EmptySet DEF Init, LinkedAreUsed, CountIsExact
  <1>4. QED BY <1>1, <1>3 DEF IInv

\* Every reachable state satisfies the inductive invariant.
LEMMA AlwaysIInv == Spec => []IInv
  <1>1. IInv /\ [Next]_vars => IInv'
    BY NextTypeOK, NextStructure, NextCounts DEF IInv
  <1>2. QED BY InitIInv, <1>1, PTL DEF Spec

\* Nobody uses a node after it went back to the pool or to another object,
\* and no node stays linked without a user.
THEOREM NodeLifetime == Spec => []NodesAreTheUsed
  <1>1. IInv => NodesAreTheUsed
    BY DEF IInv, Structure, TypeOK, UsersAreLinked, LinkedAreUsed, NodesAreTheUsed,
           Users, Using
  <1>2. QED BY AlwaysIInv, <1>1, PTL

\* The comment of TryLock(): locking the mutex of an allocated node does not
\* block, so bucketMutex is never held across a wait.
THEOREM TryLockIsNonBlocking == Spec => []TryLockWontBlock
  <1>1. IInv => TryLockWontBlock
    <2> SUFFICES ASSUME IInv, NEW n \in AllocNode
                 PROVE  nodeMutex[n] = Free /\ refCount[n] = 0
      BY DEF TryLockWontBlock
    <2>1. n \in Node /\ n \notin nodes
      BY AllocIsUnlinked DEF IInv, Structure
    <2>2. Users(n) = {}
      BY <2>1 DEF IInv, Structure, UsersAreLinked, Users, Using
    <2>3. refCount[n] = 0
      BY <2>1, <2>2, FS_EmptySet DEF IInv, CountIsExact
    <2>4. nodeMutex[n] = Free
      BY <2>1 DEF IInv, TypeOK, Structure, MutexIsHeld, UsersAreLinked, Using
    <2>5. QED BY <2>3, <2>4
  <1>2. QED BY AlwaysIInv, <1>1, PTL

Held == {<<t, obj[t]>> : t \in {u \in Thread : pc[u] = "held"}}

\* Every step of the buckets is a step of the mutex per object, or none.
LEMMA StepRefines ==
    IInv /\ IInv' /\ [Next]_vars => [ImplementsLock!SpecNext]_Held
  <1> SUFFICES ASSUME IInv, [Next]_vars PROVE ImplementsLock!SpecNext \/ Held' = Held
    BY DEF Held
  <1> USE DEF IInv, TypeOK
  <1>1. ASSUME NEW t \in Thread, NEW o \in Object, o = obj[t], pc[t] # "held",
               \A u \in Thread : pc[u] = "held" => obj[u] # o,
               obj' = obj, pc' = [pc EXCEPT ![t] = "held"]
        PROVE  ImplementsLock!SpecNext
    <2>1. \A u \in Thread : <<u, o>> \notin Held
      BY <1>1 DEF Held
    <2>2. \A p \in Object : <<t, p>> \notin Held
      BY <1>1 DEF Held
    <2>3. Held' = Held \cup {<<t, o>>}
      BY <1>1 DEF Held
    <2>4. ImplementsLock!Acquire(t, o)
      BY <2>1, <2>2, <2>3 DEF Held, ImplementsLock!Acquire
    <2>5. QED BY <2>4 DEF ImplementsLock!SpecNext
  <1>2. ASSUME NEW t \in Thread, LockNode(t) PROVE ImplementsLock!SpecNext
    <2>1. \A u \in Thread : pc[u] = "held" => obj[u] # obj[t]
      BY <1>2, ThreadAssumption
      DEF LockNode, Structure, UsersAreLinked, OneNode, MutexIsHeld, Using
    <2>2. QED BY <1>1, <1>2, <2>1 DEF LockNode
  <1>3. ASSUME NEW t \in Thread, TryNew(t) PROVE ImplementsLock!SpecNext
    <2>1. \A u \in Thread : pc[u] = "held" => obj[u] # obj[t]
      BY <1>3, NodeAssumption
      DEF TryNew, Structure, UsersAreLinked, FoundIsCurrent, Using
    <2>2. QED BY <1>1, <1>3, <2>1 DEF TryNew
  <1>4. ASSUME NEW t \in Thread, EnterUnlock(t) PROVE ImplementsLock!SpecNext
    <2>1. PICK o \in Object : o = obj[t]
      OBVIOUS
    <2>2. <<t, o>> \in Held
      BY <1>4, <2>1 DEF EnterUnlock, Held
    <2>3. Held' = Held \ {<<t, o>>}
      BY <1>4, <2>1 DEF EnterUnlock, Held
    <2>4. ImplementsLock!Release(t, o)
      BY <2>2, <2>3 DEF Held, ImplementsLock!Release
    <2>5. QED BY <2>4 DEF ImplementsLock!SpecNext
  <1>5. ASSUME NEW t \in Thread, NEW o \in Object, EnterLock(t, o) \/ EnterTry(t, o)
        PROVE  Held' = Held
    BY <1>5 DEF EnterLock, EnterTry, Held
  <1>6. ASSUME NEW t \in Thread,
               LockFound(t) \/ LockNew(t) \/ TryFound(t) \/ UnlockRef(t)
        PROVE  Held' = Held
    <2>1. CASE LockFound(t)
      BY <2>1 DEF LockFound, Held
    <2>2. CASE LockNew(t)
      BY <2>2 DEF LockNew, Held
    <2>3. CASE TryFound(t)
      BY <2>3 DEF TryFound, Held
    <2>4. CASE UnlockRef(t)
      BY <2>4 DEF UnlockRef, Held
    <2>5. QED BY <1>6, <2>1, <2>2, <2>3, <2>4
  <1>7. CASE UNCHANGED vars
    BY <1>7 DEF vars, Held
  <1>8. QED
    BY <1>2, <1>3, <1>4, <1>5, <1>6, <1>7 DEF Next, Step

\* Lock(), TryLock() and Unlock() implement a mutex per object, for any
\* number of threads and any hash function.
THEOREM Refinement == Spec => LockIsMutex
  <1>1. Init => ImplementsLock!SpecInit
    BY DEF Init, ImplementsLock!SpecInit
  <1>2. QED
    BY AlwaysIInv, StepRefines, <1>1, PTL
    DEF Spec, LockIsMutex, ImplementsLock!SpecObjectLock, Held
=============================================================================
