------------------------ MODULE MagicSingleton_proofs ------------------------
(***************************************************************************)
(* Proofs about GetInstance and DesInstance for any number of threads,     *)
(* calls and objects.                                                      *)
(***************************************************************************)
EXTENDS MagicSingleton, FiniteSetTheorems, TLAPS

(***************************************************************************)
(* The lock belongs to the thread inside, and DesInstance runs alone.      *)
(***************************************************************************)
Locked == \A t \in Threads : pc[t] \in Critical <=> mutex_ = t

Alone ==
  \A t, u \in Threads : pc[t] \in Resetting /\ u # t => pc[u] \in {"idle", "returned"}

(***************************************************************************)
(* Each temporary and each result belongs to a thread that has come to the *)
(* place where it gets it.                                                 *)
(***************************************************************************)
Places ==
  \A t \in Threads :
    /\ new[t] # nullptr <=> pc[t] \in {"store_ptr", "store_count"}
    /\ result_ptr[t] # nullptr <=> pc[t] \in {"copy_count", "returned"}
    /\ result_count[t] # nullptr => pc[t] = "returned"

(***************************************************************************)
(* The two words of instance_ are of one object, or one of them is null:   *)
(* the count while it is not stored yet, the pointer while DesInstance has *)
(* yet to drop the share.                                                  *)
(***************************************************************************)
Words ==
  /\ instance_ptr \in (made \ dropped) \cup {nullptr}
  /\ instance_count \in {instance_ptr, nullptr} \cup dropped
  /\ instance_count \in dropped => \E t \in Threads : pc[t] = "reset_count"
  /\ \A t \in Threads :
       /\ pc[t] \in {"store_ptr", "reset_count", "assign_ptr", "assign_count"} =>
            instance_ptr = nullptr
       /\ pc[t] \in {"store_count", "unlock", "copy_ptr", "reset_ptr"} => instance_ptr # nullptr
       /\ pc[t] = "store_count" => instance_count = nullptr

(***************************************************************************)
(* What the second look is for: who may make an object does so while there *)
(* is none, and one that was made has a share from then on, the            *)
(* temporary's or that of instance_, until DesInstance takes it out.       *)
(***************************************************************************)
Making ==
  /\ \A t \in Threads : /\ pc[t] = "make" => made \ dropped = {}
                        /\ new[t] \in (made \ dropped) \cup {nullptr}
  /\ \A o \in made \ dropped : instance_count = o \/ \E t \in Threads : new[t] = o

(* A result is of the object there is, or of one DesInstance took out.       *)
Results ==
  \A t \in Threads :
    /\ result_ptr[t] \in {instance_ptr, nullptr} \cup dropped
    /\ result_count[t] \in {result_ptr[t], nullptr}
    /\ pc[t] = "copy_count" => result_ptr[t] = instance_ptr

(* An object lives as long as it is counted.                                 *)
Living == \A o \in made : o \in alive <=> use[o] # 0

Inv ==
  /\ TypeOK /\ Locked /\ Alone /\ Places /\ Words /\ Making /\ Results /\ Living
  /\ OneObject /\ CountsShares

LEMMA NullIsNoObject == nullptr \notin Objects /\ nullptr \notin Threads
  BY NullAssumption

(***************************************************************************)
(* Lemmas about the shares of an object.                                   *)
(***************************************************************************)
LEMMA SharesAreFinite ==
  ASSUME NEW o
  PROVE  /\ IsFiniteSet(Holders(o)) /\ Cardinality(Holders(o)) \in Nat
         /\ IsFiniteSet(Makers(o)) /\ Cardinality(Makers(o)) \in Nat
<1>1. Holders(o) \in SUBSET Threads /\ Makers(o) \in SUBSET Threads
  BY DEF Holders, Makers
<1>2. IsFiniteSet(Holders(o)) /\ IsFiniteSet(Makers(o))
  BY <1>1, ThreadsAssumption, FS_Subset
<1> QED BY <1>2, FS_CardinalityType

LEMMA SharesUnchanged ==
  CountsShares /\ UNCHANGED <<use, instance_count, result_count, new>> => CountsShares'
  BY DEF CountsShares, Holders, Makers

LEMMA ShareIsCounted ==
  ASSUME CountsShares, NEW o \in Objects,
         instance_count = o \/ \E t \in Threads : result_count[t] = o \/ new[t] = o
  PROVE  use[o] \in Nat /\ use[o] >= 1
<1>1. /\ IsFiniteSet(Holders(o)) /\ Cardinality(Holders(o)) \in Nat
      /\ IsFiniteSet(Makers(o)) /\ Cardinality(Makers(o)) \in Nat
  BY SharesAreFinite
<1>2. use[o] = Cardinality(Holders(o)) + Cardinality(Makers(o))
                 + (IF instance_count = o THEN 1 ELSE 0)
  BY DEF CountsShares
<1>3. CASE instance_count = o
  BY <1>1, <1>2, <1>3
<1>4. CASE Holders(o) # {}
  <2>1. Cardinality(Holders(o)) # 0
    BY <1>1, <1>4, FS_EmptySet
  <2> QED BY <1>1, <1>2, <2>1
<1>5. CASE Makers(o) # {}
  <2>1. Cardinality(Makers(o)) # 0
    BY <1>1, <1>5, FS_EmptySet
  <2> QED BY <1>1, <1>2, <2>1
<1>6. instance_count = o \/ Holders(o) # {} \/ Makers(o) # {}
  BY DEF Holders, Makers
<1> QED BY <1>3, <1>4, <1>5, <1>6

(* What Drop does to the counts and to the objects that live.                *)
LEMMA DropKeepsLiving ==
  ASSUME TypeOK, Living, NEW c \in Objects \cup {nullptr}, Drop(c),
         c # nullptr => use[c] >= 1
  PROVE  /\ use' \in [Objects -> Nat]
         /\ \A o \in Objects : use'[o] = IF o = c THEN use[o] - 1 ELSE use[o]
         /\ made' = made /\ alive' \subseteq alive
         /\ Living'
<1>1. made' = made /\ alive' \subseteq alive
  BY DEF Drop
<1>2. CASE c = nullptr
  BY <1>2, NullIsNoObject DEF Drop, TypeOK, Living
<1>3. CASE c # nullptr
  <2>1. c \in Objects /\ use[c] \in Nat /\ use[c] - 1 \in Nat
    BY <1>3 DEF TypeOK
  <2>2. use' = [use EXCEPT ![c] = use[c] - 1]
    BY <1>3 DEF Drop
  <2>3. /\ use' \in [Objects -> Nat]
        /\ \A o \in Objects : use'[o] = IF o = c THEN use[o] - 1 ELSE use[o]
    BY <2>1, <2>2 DEF TypeOK
  <2>4. Living'
    <3> SUFFICES ASSUME NEW o \in made PROVE o \in alive' <=> use'[o] # 0
      BY <1>1 DEF Living
    <3>1. o \in Objects /\ (o \in alive <=> use[o] # 0)
      BY DEF TypeOK, Living
    <3>2. CASE o # c
      BY <1>3, <2>3, <3>1, <3>2 DEF Drop
    <3>3. CASE o = c
      <4>1. o \in alive
        BY <2>1, <3>1, <3>3
      <4>2. o \in alive' <=> use[o] # 1
        BY <1>3, <3>3, <4>1 DEF Drop
      <4>3. use'[o] = use[o] - 1
        BY <2>3, <3>1, <3>3
      <4> QED BY <2>1, <3>3, <4>2, <4>3
    <3> QED BY <3>2, <3>3
  <2> QED BY <1>1, <2>3, <2>4
<1> QED BY <1>2, <1>3

(* While someone is in DesInstance the others are not in a call, and nobody  *)
(* has the lock.                                                             *)
LEMMA AloneMeans ==
  ASSUME Inv, NEW t \in Threads, pc[t] \in Resetting
  PROVE  /\ \A u \in Threads : u # t => pc[u] \in {"idle", "returned"}
         /\ \A u \in Threads : pc[u] \notin Critical \cup {"look", "lock", "copy_ptr", "copy_count"}
         /\ \A u \in Threads : new[u] = nullptr
  BY DEF Inv, Alone, Places, Resetting, Critical

LEMMA InitEstablishesInv == Init => Inv
<1> SUFFICES ASSUME Init PROVE Inv
  OBVIOUS
<1>1. TypeOK
  BY CallsBound DEF Init, TypeOK, Steps, Critical
<1>2. Locked /\ Alone /\ Places
  BY NullIsNoObject DEF Init, Locked, Alone, Places, Critical, Resetting
<1>3. Words /\ Making /\ Results /\ Living /\ OneObject
  BY DEF Init, Words, Making, Results, Living, OneObject
<1>4. CountsShares
  <2> SUFFICES ASSUME NEW o \in Objects
               PROVE  use[o] = Cardinality(Holders(o)) + Cardinality(Makers(o))
                                 + (IF instance_count = o THEN 1 ELSE 0)
    BY DEF CountsShares
  <2>1. Holders(o) = {} /\ Makers(o) = {} /\ instance_count # o /\ use[o] = 0
    BY NullIsNoObject DEF Init, Holders, Makers
  <2> QED BY <2>1, FS_EmptySet
<1> QED BY <1>1, <1>2, <1>3, <1>4 DEF Inv

(***************************************************************************)
(* The steps that move no share.                                           *)
(***************************************************************************)
LEMMA MovesKeepInv ==
  ASSUME Inv, NEW t \in Threads,
         \/ Call(t) \/ Look(t) \/ Lock(t) \/ LookAgain(t) \/ ConstructorThrows(t) \/ Unlock(t)
         \/ DesInstance(t)
  PROVE  Inv'
<1> USE NullIsNoObject
<1>0. UNCHANGED <<instance, memory, new, result>>
  BY DEF Call, Look, Lock, LookAgain, ConstructorThrows, Unlock, DesInstance
<1>1. TypeOK'
  <2>1. pc' \in [Threads -> Steps] /\ mutex_' \in Threads \cup {nullptr}
    BY DEF Inv, TypeOK, Steps, Critical, Resetting, Go, Call, Look, Lock, LookAgain,
           ConstructorThrows, Unlock, DesInstance
  <2>2. calls' \in [Threads -> 0..MaxCalls]
    BY CallsBound DEF Inv, TypeOK, Call, Look, Lock, LookAgain, ConstructorThrows, Unlock,
                      DesInstance
  <2> QED BY <1>0, <2>1, <2>2 DEF Inv, TypeOK, instance, memory, result
<1>2. Locked'
  BY DEF Inv, TypeOK, Locked, Critical, Go, Call, Look, Lock, LookAgain, ConstructorThrows, Unlock,
         DesInstance
<1>3. Alone'
  BY DEF Inv, TypeOK, Alone, Resetting, Go, Call, Look, Lock, LookAgain, ConstructorThrows, Unlock,
         DesInstance
<1>4. Places'
  BY <1>0 DEF Inv, TypeOK, Places, Go, Call, Look, Lock, LookAgain, ConstructorThrows,
         Unlock, DesInstance, instance, memory, result
<1>5. Words'
  <2>1. \A u \in Threads : pc[u] = "reset_count" => pc'[u] = "reset_count"
    BY DEF Inv, TypeOK, Go, Call, Look, Lock, LookAgain, ConstructorThrows, Unlock, DesInstance
  <2>2. \A u \in Threads :
          /\ pc'[u] \in {"store_ptr", "reset_count", "assign_ptr", "assign_count"} =>
               instance_ptr = nullptr
          /\ pc'[u] \in {"store_count", "unlock", "copy_ptr", "reset_ptr"} =>
               instance_ptr # nullptr
          /\ pc'[u] = "store_count" => instance_count = nullptr
    BY DEF Inv, TypeOK, Words, Go, Call, Look, Lock, LookAgain, ConstructorThrows, Unlock,
           DesInstance
  <2> QED BY <1>0, <2>1, <2>2 DEF Inv, Words, instance, memory
<1>6. Making'
  <2>1. \A u \in Threads : pc'[u] = "make" => made \ dropped = {}
    <3> SUFFICES ASSUME LookAgain(t), instance_ptr = nullptr, NEW o \in made \ dropped
                 PROVE  FALSE
      BY DEF Inv, TypeOK, Making, Go, Call, Look, Lock, LookAgain, ConstructorThrows, Unlock,
             DesInstance
    <3>1. pc[t] = "look_again" /\ mutex_ = t
      BY DEF Inv, Locked, Critical, LookAgain, Go
    <3>2. instance_count # o
      BY <3>1 DEF Inv, TypeOK, Words
    <3>3. PICK u \in Threads : new[u] = o
      BY <3>2 DEF Inv, Making
    <3>4. pc[u] \in {"store_ptr", "store_count"}
      BY <3>3 DEF Inv, TypeOK, Places
    <3> QED BY <3>1, <3>4 DEF Inv, Locked, Critical
  <2> QED BY <1>0, <2>1 DEF Inv, Making, instance, memory
<1>7. Results'
  BY <1>0 DEF Inv, TypeOK, Results, Go, Call, Look, Lock, LookAgain, ConstructorThrows, Unlock,
         DesInstance, instance, memory, result
<1>8. Living' /\ OneObject'
  BY <1>0 DEF Inv, Living, OneObject, memory
<1>9. CountsShares'
  BY <1>0, SharesUnchanged DEF Inv, instance, memory, result
<1> QED BY <1>1, <1>2, <1>3, <1>4, <1>5, <1>6, <1>7, <1>8, <1>9 DEF Inv

LEMMA MakeSharedKeepsInv == ASSUME Inv, NEW t \in Threads, MakeShared(t) PROVE Inv'
<1> USE NullIsNoObject
<1>1. PICK o \in Objects \ made : /\ made' = made \cup {o}
                                  /\ alive' = alive \cup {o}
                                  /\ use' = [use EXCEPT ![o] = 1]
                                  /\ new' = [new EXCEPT ![t] = o]
  BY DEF MakeShared
<1>2. /\ made \ dropped = {} /\ dropped' = dropped /\ dropped \subseteq made
      /\ new[t] = nullptr /\ instance_ptr = nullptr
      /\ instance_ptr' = instance_ptr /\ instance_count' = instance_count
  BY DEF Inv, TypeOK, Making, Words, Places, MakeShared, Go, instance
<1>3. made' \ dropped' = {o}
  BY <1>1, <1>2
<1>4. instance_count = nullptr
  <2>1. pc[t] \notin {"idle", "returned"} \cup Resetting
    BY DEF MakeShared, Go, Resetting
  <2>2. \A u \in Threads : pc[u] # "reset_count"
    BY <2>1 DEF Inv, Alone, Resetting
  <2> QED BY <1>2, <2>2 DEF Inv, Words
<1>5. TypeOK'
  BY <1>1 DEF Inv, TypeOK, Steps, Critical, Go, MakeShared, instance, result
<1>6. Locked'
  BY DEF Inv, TypeOK, Locked, Critical, Go, MakeShared
<1>7. Alone'
  BY DEF Inv, TypeOK, Alone, Resetting, Go, MakeShared
<1>8. Places'
  BY <1>1 DEF Inv, TypeOK, Places, Go, MakeShared, result
<1>9. Words'
  BY <1>2, <1>4 DEF Inv, TypeOK, Words, Go, MakeShared
<1>10. Making'
  <2>1. \A u \in Threads : u # t => new[u] = nullptr
    BY <1>2 DEF Inv, Making
  <2>2. \A u \in Threads : pc'[u] # "make"
    BY DEF Inv, TypeOK, Locked, Critical, Go, MakeShared
  <2>3. new'[t] = o /\ \A u \in Threads : u # t => new'[u] = nullptr
    BY <1>1, <2>1 DEF Inv, TypeOK
  <2> QED BY <1>3, <2>2, <2>3 DEF Making
<1>11. Results'
  BY <1>2 DEF Inv, TypeOK, Results, Go, MakeShared, result
<1>12. Living' /\ OneObject'
  BY <1>1, <1>3 DEF Inv, TypeOK, Living, OneObject
<1>13. CountsShares'
  <2> SUFFICES ASSUME NEW p \in Objects
               PROVE  use'[p] = Cardinality(Holders(p)') + Cardinality(Makers(p)')
                                  + (IF instance_count' = p THEN 1 ELSE 0)
    BY DEF CountsShares
  <2>1. Holders(p)' = Holders(p) /\ instance_count' = instance_count
    BY DEF Holders, MakeShared, instance, result
  <2>2. CASE p = o
    <3>1. Holders(o) = {}
      BY <1>1, <1>2 DEF Inv, TypeOK, Results, Holders
    <3>2. Makers(o) = {}
      BY <1>1 DEF Inv, Making, Makers
    <3>3. Makers(o)' = {t}
      BY <1>1, <3>2 DEF Inv, TypeOK, Makers
    <3>4. use'[o] = 1 /\ instance_count # o
      BY <1>1, <1>4 DEF Inv, TypeOK
    <3> QED BY <2>1, <2>2, <3>1, <3>3, <3>4, FS_EmptySet, FS_Singleton
  <2>3. CASE p # o
    <3>1. Makers(p)' = Makers(p) /\ use'[p] = use[p]
      BY <1>1, <1>2, <2>3 DEF Inv, TypeOK, Makers
    <3> QED BY <2>1, <3>1 DEF Inv, CountsShares
  <2> QED BY <2>2, <2>3
<1> QED BY <1>5, <1>6, <1>7, <1>8, <1>9, <1>10, <1>11, <1>12, <1>13 DEF Inv

(* Who stores has the object there is, and instance_ holds no share yet.     *)
LEMMA WhatIsStored ==
  ASSUME Inv, NEW t \in Threads, pc[t] \in {"store_ptr", "store_count"}
  PROVE  /\ new[t] \in made \ dropped /\ new[t] \in Objects /\ new[t] # nullptr
         /\ instance_count = nullptr
         /\ pc[t] = "store_ptr" => instance_ptr = nullptr
         /\ pc[t] = "store_count" => instance_ptr = new[t]
<1>1. new[t] # nullptr /\ new[t] \in made \ dropped /\ new[t] \in Objects
  BY DEF Inv, TypeOK, Places, Making
<1>2. \A u \in Threads : pc[u] # "reset_count"
  BY DEF Inv, Alone, Resetting
<1>3. /\ pc[t] = "store_ptr" => instance_ptr = nullptr /\ instance_count = nullptr
      /\ pc[t] = "store_count" => /\ instance_ptr \in made \ dropped
                                  /\ instance_count = nullptr
  BY <1>2 DEF Inv, Words
<1>4. pc[t] = "store_count" => instance_ptr = new[t]
  BY <1>1, <1>3 DEF Inv, OneObject
<1> QED BY <1>1, <1>3, <1>4

LEMMA StorePtrKeepsInv == ASSUME Inv, NEW t \in Threads, StorePtr(t) PROVE Inv'
<1> USE NullIsNoObject
<1>1. /\ new[t] \in made \ dropped /\ new[t] \in Objects
      /\ instance_ptr = nullptr /\ instance_count = nullptr
  BY WhatIsStored DEF StorePtr, Go
<1>2. TypeOK'
  BY <1>1 DEF Inv, TypeOK, Steps, Critical, Go, StorePtr, memory, result
<1>3. Locked'
  BY DEF Inv, TypeOK, Locked, Critical, Go, StorePtr
<1>4. Alone'
  BY DEF Inv, TypeOK, Alone, Resetting, Go, StorePtr
<1>5. Places'
  BY DEF Inv, TypeOK, Places, Go, StorePtr, result
<1>6. Words'
  <2>1. \A u \in Threads : u # t => pc[u] \notin Critical \cup Resetting
    BY DEF Inv, Locked, Alone, Resetting, Critical, StorePtr, Go
  <2>2. \A u \in Threads :
          /\ pc'[u] \notin {"store_ptr", "reset_count", "assign_ptr", "assign_count"}
          /\ u # t => pc'[u] # "store_count"
    BY <2>1 DEF Inv, TypeOK, Critical, Resetting, StorePtr, Go
  <2> QED BY <1>1, <2>2 DEF Inv, TypeOK, Words, StorePtr, memory
<1>7. Making'
  BY DEF Inv, TypeOK, Making, Go, StorePtr, memory
<1>8. Results'
  <2>1. \A u \in Threads : pc[u] # "copy_count"
    BY <1>1 DEF Inv, Places, Results
  <2> QED BY <1>1, <2>1 DEF Inv, TypeOK, Results, Go, StorePtr, memory, result
<1>9. Living' /\ OneObject'
  BY DEF Inv, Living, OneObject, StorePtr, memory
<1>10. CountsShares'
  BY SharesUnchanged DEF Inv, StorePtr, memory, result
<1> QED BY <1>2, <1>3, <1>4, <1>5, <1>6, <1>7, <1>8, <1>9, <1>10 DEF Inv

LEMMA StoreCountKeepsInv == ASSUME Inv, NEW t \in Threads, StoreCount(t) PROVE Inv'
<1> USE NullIsNoObject
<1>1. /\ new[t] \in made \ dropped /\ new[t] \in Objects
      /\ instance_ptr = new[t] /\ instance_count = nullptr
  BY WhatIsStored DEF StoreCount, Go
<1>2. UNCHANGED memory
  BY <1>1 DEF StoreCount, Drop, memory
<1>3. TypeOK'
  BY <1>1, <1>2 DEF Inv, TypeOK, Steps, Critical, Go, StoreCount, memory, result
<1>4. Locked'
  BY DEF Inv, TypeOK, Locked, Critical, Go, StoreCount
<1>5. Alone'
  BY DEF Inv, TypeOK, Alone, Resetting, Go, StoreCount
<1>6. Places'
  BY DEF Inv, TypeOK, Places, Go, StoreCount, result
<1>7. Words'
  <2>1. \A u \in Threads : u # t => pc[u] \notin Critical \cup Resetting
    BY DEF Inv, Locked, Alone, Resetting, Critical, StoreCount, Go
  <2>2. \A u \in Threads :
          pc'[u] \notin {"store_ptr", "reset_count", "assign_ptr", "assign_count", "store_count"}
    BY <2>1 DEF Inv, TypeOK, Critical, Resetting, StoreCount, Go
  <2> QED BY <1>1, <1>2, <2>2 DEF Inv, TypeOK, Words, StoreCount, memory
<1>8. Making'
  <2>1. \A u \in Threads : pc'[u] = "make" => pc[u] = "make"
    BY DEF Inv, TypeOK, StoreCount, Go
  <2>2. \A p \in made \ dropped : p = new[t]
    BY <1>1 DEF Inv, OneObject
  <2> QED BY <1>1, <1>2, <2>1, <2>2 DEF Inv, TypeOK, Making, StoreCount, memory
<1>9. Results'
  BY <1>1, <1>2 DEF Inv, TypeOK, Results, Go, StoreCount, memory, result
<1>10. Living' /\ OneObject'
  BY <1>2 DEF Inv, Living, OneObject, memory
<1>11. CountsShares'
  <2> SUFFICES ASSUME NEW p \in Objects
               PROVE  use'[p] = Cardinality(Holders(p)') + Cardinality(Makers(p)')
                                  + (IF instance_count' = p THEN 1 ELSE 0)
    BY DEF CountsShares
  <2>1. Holders(p)' = Holders(p) /\ use' = use /\ instance_count' = new[t]
    BY <1>2 DEF Holders, StoreCount, memory, result
  <2>2. Makers(p)' = IF p = new[t] THEN Makers(p) \ {t} ELSE Makers(p)
    BY DEF Inv, TypeOK, Makers, StoreCount
  <2>3. t \in Makers(p) <=> p = new[t]
    BY DEF Makers
  <2>4. /\ IsFiniteSet(Makers(p)) /\ Cardinality(Makers(p)) \in Nat
        /\ Cardinality(Holders(p)) \in Nat
    BY SharesAreFinite
  <2>5. Cardinality(Makers(p)') = IF p = new[t] THEN Cardinality(Makers(p)) - 1
                                                ELSE Cardinality(Makers(p))
    BY <2>2, <2>3, <2>4, FS_RemoveElement
  <2>6. use[p] = Cardinality(Holders(p)) + Cardinality(Makers(p))
    BY <1>1, <2>4 DEF Inv, CountsShares
  <2>7. CASE p = new[t]
    BY <2>1, <2>4, <2>5, <2>6, <2>7
  <2>8. CASE p # new[t]
    BY <2>1, <2>4, <2>5, <2>6, <2>8
  <2> QED BY <2>7, <2>8
<1> QED BY <1>3, <1>4, <1>5, <1>6, <1>7, <1>8, <1>9, <1>10, <1>11 DEF Inv

LEMMA CopyPtrKeepsInv == ASSUME Inv, NEW t \in Threads, CopyPtr(t) PROVE Inv'
<1> USE NullIsNoObject
<1>1. instance_ptr # nullptr /\ result_count[t] = nullptr
  BY DEF Inv, Words, Places, CopyPtr, Go
<1>2. TypeOK'
  BY DEF Inv, TypeOK, Steps, Critical, Go, CopyPtr, instance, memory
<1>3. Locked' /\ Alone'
  BY DEF Inv, TypeOK, Locked, Alone, Critical, Resetting, Go, CopyPtr
<1>4. Places'
  BY <1>1 DEF Inv, TypeOK, Places, Go, CopyPtr
<1>5. Words' /\ Making'
  BY DEF Inv, TypeOK, Words, Making, Go, CopyPtr, instance, memory
<1>6. Results'
  BY <1>1 DEF Inv, TypeOK, Results, Go, CopyPtr, instance, memory
<1>7. Living' /\ OneObject'
  BY DEF Inv, Living, OneObject, CopyPtr, memory
<1>8. CountsShares'
  BY SharesUnchanged DEF Inv, CopyPtr, instance, memory
<1> QED BY <1>2, <1>3, <1>4, <1>5, <1>6, <1>7, <1>8 DEF Inv

LEMMA CopyCountKeepsInv == ASSUME Inv, NEW t \in Threads, CopyCount(t) PROVE Inv'
<1> USE NullIsNoObject
<1>1. /\ result_count[t] = nullptr /\ result_ptr[t] = instance_ptr /\ instance_ptr # nullptr
      /\ instance_count \in {instance_ptr, nullptr}
  <2>1. \A u \in Threads : pc[u] # "reset_count"
    BY DEF Inv, Alone, Resetting, CopyCount, Go
  <2> QED BY <2>1 DEF Inv, Places, Words, Results, CopyCount, Go
<1>2. TypeOK'
  BY DEF Inv, TypeOK, Steps, Critical, Go, CopyCount, instance
<1>3. Locked' /\ Alone'
  BY DEF Inv, TypeOK, Locked, Alone, Critical, Resetting, Go, CopyCount
<1>4. Places'
  BY DEF Inv, TypeOK, Places, Go, CopyCount
<1>5. Words' /\ Making'
  BY DEF Inv, TypeOK, Words, Making, Go, CopyCount, instance
<1>6. Results'
  BY <1>1 DEF Inv, TypeOK, Results, Go, CopyCount, instance
<1>7. Living' /\ OneObject'
  <2>1. instance_count # nullptr => use[instance_count] \in Nat /\ use[instance_count] >= 1
    BY ShareIsCounted DEF Inv, TypeOK
  <2>2. \A o \in Objects : /\ o # instance_count => use'[o] = use[o]
                           /\ o = instance_count => use'[o] = use[o] + 1
    BY DEF Inv, TypeOK, CopyCount
  <2>3. \A o \in Objects : use'[o] # 0 <=> use[o] # 0
    BY <2>1, <2>2 DEF Inv, TypeOK
  <2>4. made' = made /\ alive' = alive /\ dropped' = dropped /\ made \subseteq Objects
    BY DEF Inv, TypeOK, CopyCount
  <2> QED BY <2>3, <2>4 DEF Inv, Living, OneObject
<1>8. CountsShares'
  <2> SUFFICES ASSUME NEW p \in Objects
               PROVE  use'[p] = Cardinality(Holders(p)') + Cardinality(Makers(p)')
                                  + (IF instance_count' = p THEN 1 ELSE 0)
    BY DEF CountsShares
  <2>1. Makers(p)' = Makers(p) /\ instance_count' = instance_count
    BY DEF Makers, CopyCount, instance
  <2>2. Holders(p)' = IF p = instance_count THEN Holders(p) \cup {t} ELSE Holders(p)
    BY <1>1 DEF Inv, TypeOK, Holders, CopyCount
  <2>3. t \notin Holders(p)
    BY <1>1 DEF Holders
  <2>4. /\ IsFiniteSet(Holders(p)) /\ Cardinality(Holders(p)) \in Nat
        /\ Cardinality(Makers(p)) \in Nat
    BY SharesAreFinite
  <2>5. Cardinality(Holders(p)') = IF p = instance_count THEN Cardinality(Holders(p)) + 1
                                                         ELSE Cardinality(Holders(p))
    BY <2>2, <2>3, <2>4, FS_AddElement
  <2>6. use'[p] = IF p = instance_count THEN use[p] + 1 ELSE use[p]
    BY DEF Inv, TypeOK, CopyCount
  <2>7. use[p] = Cardinality(Holders(p)) + Cardinality(Makers(p))
                   + (IF instance_count = p THEN 1 ELSE 0)
    BY DEF Inv, CountsShares
  <2> QED BY <2>1, <2>4, <2>5, <2>6, <2>7
<1> QED BY <1>2, <1>3, <1>4, <1>5, <1>6, <1>7, <1>8 DEF Inv

(***************************************************************************)
(* A caller lets go.  The share may be the last one only of an object that *)
(* DesInstance took out: of the other instance_ or the temporary has one.  *)
(***************************************************************************)
LEMMA ReleaseKeepsInv == ASSUME Inv, NEW t \in Threads, Release(t) PROVE Inv'
<1> USE NullIsNoObject
<1>1. /\ use' \in [Objects -> Nat]
      /\ \A o \in Objects : use'[o] = IF o = result_count[t] THEN use[o] - 1 ELSE use[o]
      /\ made' = made /\ alive' \subseteq alive /\ Living'
  <2>1. result_count[t] \in Objects \cup {nullptr}
    BY DEF Inv, TypeOK
  <2>2. result_count[t] # nullptr => use[result_count[t]] >= 1
    BY <2>1, ShareIsCounted DEF Inv
  <2> QED BY <2>1, <2>2, DropKeepsLiving DEF Inv, Release
<1>2. TypeOK'
  BY <1>1 DEF Inv, TypeOK, Steps, Critical, Go, Release, instance
<1>3. Locked' /\ Alone'
  BY DEF Inv, TypeOK, Locked, Alone, Critical, Resetting, Go, Release
<1>4. Places'
  BY DEF Inv, TypeOK, Places, Go, Release
<1>5. Words' /\ Making'
  BY <1>1 DEF Inv, TypeOK, Words, Making, Go, Release, instance
<1>6. Results'
  BY DEF Inv, TypeOK, Results, Go, Release, instance
<1>7. OneObject'
  BY <1>1 DEF Inv, OneObject, Release
<1>8. CountsShares'
  <2> SUFFICES ASSUME NEW p \in Objects
               PROVE  use'[p] = Cardinality(Holders(p)') + Cardinality(Makers(p)')
                                  + (IF instance_count' = p THEN 1 ELSE 0)
    BY DEF CountsShares
  <2>1. Makers(p)' = Makers(p) /\ instance_count' = instance_count
    BY DEF Makers, Release, instance
  <2>2. Holders(p)' = IF p = result_count[t] THEN Holders(p) \ {t} ELSE Holders(p)
    BY DEF Inv, TypeOK, Holders, Release
  <2>3. t \in Holders(p) <=> p = result_count[t]
    BY DEF Holders
  <2>4. /\ IsFiniteSet(Holders(p)) /\ Cardinality(Holders(p)) \in Nat
        /\ Cardinality(Makers(p)) \in Nat
    BY SharesAreFinite
  <2>5. Cardinality(Holders(p)') = IF p = result_count[t] THEN Cardinality(Holders(p)) - 1
                                                          ELSE Cardinality(Holders(p))
    BY <2>2, <2>3, <2>4, FS_RemoveElement
  <2>6. use'[p] = IF p = result_count[t] THEN use[p] - 1 ELSE use[p]
    BY <1>1
  <2>7. use[p] = Cardinality(Holders(p)) + Cardinality(Makers(p))
                   + (IF instance_count = p THEN 1 ELSE 0)
    BY DEF Inv, CountsShares
  <2> QED BY <2>1, <2>4, <2>5, <2>6, <2>7
<1> QED BY <1>1, <1>2, <1>3, <1>4, <1>5, <1>6, <1>7, <1>8 DEF Inv

(***************************************************************************)
(* DesInstance.  Before it drops the share it has taken the object out of  *)
(* instance_, and nobody is about to copy it.                              *)
(***************************************************************************)
LEMMA NullPtrKeepsInv == ASSUME Inv, NEW t \in Threads, NullPtr(t) PROVE Inv'
<1> USE NullIsNoObject
<1>1. /\ pc[t] \in {"reset_ptr", "assign_ptr"} /\ pc'[t] \in {"reset_count", "assign_count"}
      /\ pc' \in [Threads -> Steps]
      /\ \A u \in Threads : u # t => pc'[u] = pc[u]
  BY DEF Inv, TypeOK, Steps, Critical, Resetting, NullPtr, Go
<1>2. /\ \A u \in Threads : u # t => pc[u] \in {"idle", "returned"}
      /\ \A u \in Threads : new[u] = nullptr
  BY <1>1, AloneMeans DEF Resetting
<1>3. instance_count \in {instance_ptr, nullptr}
  <2>1. \A u \in Threads : pc[u] # "reset_count"
    BY <1>1, <1>2
  <2> QED BY <2>1 DEF Inv, Words
<1>4. made' \ dropped' = {} /\ made' = made /\ dropped \subseteq dropped' /\ dropped' \subseteq made
  <2>1. instance_ptr = nullptr => made \ dropped = {}
    <3> SUFFICES ASSUME instance_ptr = nullptr, NEW o \in made \ dropped PROVE FALSE
      OBVIOUS
    <3>1. instance_count # o
      BY <1>3 DEF Inv, TypeOK
    <3> QED BY <1>2, <3>1 DEF Inv, TypeOK, Making
  <2>2. instance_ptr # nullptr => made \ dropped = {instance_ptr}
    BY DEF Inv, Words, OneObject
  <2> QED BY <2>1, <2>2 DEF Inv, TypeOK, NullPtr
<1>5. TypeOK'
  BY <1>1, <1>4 DEF Inv, TypeOK, NullPtr, result
<1>6. Locked' /\ Alone'
  BY <1>1, <1>2 DEF Inv, Locked, Alone, Critical, Resetting, NullPtr
<1>7. Places'
  BY <1>1 DEF Inv, Places, NullPtr, result
<1>8. Words'
  <2>1. instance_ptr' = nullptr /\ instance_count' = instance_count
    BY DEF NullPtr
  <2>2. instance_count \in dropped' => pc'[t] = "reset_count"
    <3> SUFFICES ASSUME instance_count # nullptr PROVE pc'[t] = "reset_count"
      BY <1>4 DEF Inv, TypeOK
    <3>1. pc[t] # "assign_ptr"
      BY <1>3 DEF Inv, Words
    <3> QED BY <1>1, <3>1 DEF Inv, TypeOK, NullPtr, Go
  <2>3. instance_count \in {nullptr} \cup dropped'
    BY <1>3 DEF NullPtr
  <2> QED BY <1>1, <1>2, <2>1, <2>2, <2>3 DEF Words
<1>9. Making'
  <2>1. \A u \in Threads : pc'[u] # "make"
    BY <1>1, <1>2
  <2> QED BY <1>2, <1>4, <2>1 DEF Making, NullPtr
<1>10. Results'
  BY <1>1, <1>2, <1>4 DEF Inv, Results, NullPtr, result
<1>11. Living' /\ OneObject'
  BY <1>4 DEF Inv, Living, OneObject, NullPtr
<1>12. CountsShares'
  BY SharesUnchanged DEF Inv, NullPtr, result
<1> QED BY <1>5, <1>6, <1>7, <1>8, <1>9, <1>10, <1>11, <1>12 DEF Inv

LEMMA NullCountKeepsInv == ASSUME Inv, NEW t \in Threads, NullCount(t) PROVE Inv'
<1> USE NullIsNoObject
<1>1. /\ pc[t] \in {"reset_count", "assign_count"} /\ pc'[t] \in {"assign_ptr", "idle"}
      /\ pc' \in [Threads -> Steps]
      /\ \A u \in Threads : u # t => pc'[u] = pc[u]
      /\ instance_ptr = nullptr
  BY DEF Inv, TypeOK, Words, Steps, Critical, Resetting, NullCount, Go
<1>2. /\ \A u \in Threads : u # t => pc[u] \in {"idle", "returned"}
      /\ \A u \in Threads : new[u] = nullptr
  BY <1>1, AloneMeans DEF Resetting
<1>3. /\ use' \in [Objects -> Nat]
      /\ \A o \in Objects : use'[o] = IF o = instance_count THEN use[o] - 1 ELSE use[o]
      /\ made' = made /\ alive' \subseteq alive /\ Living'
  <2>1. instance_count \in Objects \cup {nullptr}
    BY DEF Inv, TypeOK
  <2>2. instance_count # nullptr => use[instance_count] >= 1
    BY <2>1, ShareIsCounted DEF Inv
  <2> QED BY <2>1, <2>2, DropKeepsLiving DEF Inv, NullCount
<1>4. made \ dropped = {}
  BY <1>1, <1>2 DEF Inv, TypeOK, Words, Making
<1>5. TypeOK'
  BY <1>1, <1>3 DEF Inv, TypeOK, NullCount, result
<1>6. Locked' /\ Alone'
  BY <1>1, <1>2 DEF Inv, Locked, Alone, Critical, Resetting, NullCount
<1>7. Places'
  BY <1>1 DEF Inv, Places, NullCount, result
<1>8. Words'
  <2>1. instance_ptr' = nullptr /\ instance_count' = nullptr /\ nullptr \notin dropped'
    BY <1>1 DEF Inv, TypeOK, NullCount
  <2> QED BY <1>1, <1>2, <2>1 DEF Words
<1>9. Making'
  <2>1. \A u \in Threads : pc'[u] # "make"
    BY <1>1, <1>2
  <2> QED BY <1>2, <1>3, <1>4, <2>1 DEF Making, NullCount
<1>10. Results'
  BY <1>1, <1>2 DEF Inv, Results, NullCount, result
<1>11. OneObject'
  BY <1>3 DEF Inv, OneObject, NullCount
<1>12. CountsShares'
  <2> SUFFICES ASSUME NEW p \in Objects
               PROVE  use'[p] = Cardinality(Holders(p)') + Cardinality(Makers(p)')
                                  + (IF instance_count' = p THEN 1 ELSE 0)
    BY DEF CountsShares
  <2>1. Makers(p)' = Makers(p) /\ Holders(p)' = Holders(p) /\ instance_count' # p
    BY DEF Makers, Holders, NullCount, result
  <2>2. Cardinality(Holders(p)) \in Nat /\ Cardinality(Makers(p)) \in Nat
    BY SharesAreFinite
  <2>3. use[p] = Cardinality(Holders(p)) + Cardinality(Makers(p))
                   + (IF instance_count = p THEN 1 ELSE 0)
    BY DEF Inv, CountsShares
  <2> QED BY <1>3, <2>1, <2>2, <2>3
<1> QED BY <1>3, <1>5, <1>6, <1>7, <1>8, <1>9, <1>10, <1>11, <1>12 DEF Inv

LEMMA StutterKeepsInv == Inv /\ UNCHANGED vars => Inv'
<1> SUFFICES ASSUME Inv, UNCHANGED vars PROVE Inv'
  OBVIOUS
<1>1. TypeOK' /\ Locked' /\ Alone' /\ Places'
  BY DEF vars, instance, memory, result, Inv, TypeOK, Locked, Alone, Places
<1>2. Words' /\ Making' /\ Results'
  BY DEF vars, instance, memory, result, Inv, Words, Making, Results
<1>3. Living' /\ OneObject' /\ CountsShares'
  BY SharesUnchanged DEF vars, instance, memory, result, Inv, Living, OneObject
<1> QED BY <1>1, <1>2, <1>3 DEF Inv

THEOREM InvAlways == Spec => []Inv
<1>1. Init => Inv
  BY InitEstablishesInv
<1>2. Inv /\ [Next]_vars => Inv'
  <2> SUFFICES ASSUME Inv, [Next]_vars PROVE Inv'
    OBVIOUS
  <2>1. CASE UNCHANGED vars
    BY <2>1, StutterKeepsInv
  <2>2. CASE Next
    <3>1. PICK t \in Threads : InCall(t) \/ Call(t) \/ Release(t) \/ DesInstance(t)
      BY <2>2 DEF Next
    <3> QED BY <3>1, MovesKeepInv, MakeSharedKeepsInv, StorePtrKeepsInv, StoreCountKeepsInv,
               CopyPtrKeepsInv, CopyCountKeepsInv, ReleaseKeepsInv, NullPtrKeepsInv,
               NullCountKeepsInv DEF InCall
  <2> QED BY <2>1, <2>2
<1> QED BY <1>1, <1>2, PTL DEF Spec

(* The variables have their types: the use count in particular never goes    *)
(* below zero.                                                               *)
THEOREM SingletonTypeAlwaysOK == Spec => []TypeOK
<1>1. Inv => TypeOK
  BY DEF Inv
<1> QED BY <1>1, InvAlways, PTL

(* However many threads call GetInstance at once, there is one object that   *)
(* DesInstance did not take out.                                             *)
THEOREM AlwaysOneObject == Spec => []OneObject
<1>1. Inv => OneObject
  BY DEF Inv
<1> QED BY <1>1, InvAlways, PTL

(* Every caller is returned that object, or one that DesInstance took out    *)
(* since, and has it alive until it lets go, unless it has no share of it    *)
(* and DesInstance took it out.                                              *)
THEOREM AlwaysReturnsTheObject == Spec => []ReturnsTheObject
<1>1. ASSUME Inv, NEW t \in Threads, pc[t] = "returned"
      PROVE  /\ result_ptr[t] \in {instance_ptr} \cup dropped
             /\ result_ptr[t] \in alive \/ (result_ptr[t] \in dropped /\ result_count[t] = nullptr)
  <2> DEFINE o == result_ptr[t]
  <2>1. o # nullptr /\ o \in {instance_ptr} \cup dropped /\ o \in made /\ o \in Objects
    BY <1>1 DEF Inv, TypeOK, Places, Words, Results
  <2>2. CASE result_count[t] # nullptr
    <3>1. result_count[t] = o
      BY <1>1, <2>2 DEF Inv, Results
    <3>2. use[o] # 0
      BY <1>1, <2>1, <3>1, ShareIsCounted DEF Inv
    <3> QED BY <1>1, <2>1, <3>2 DEF Inv, Living
  <2>3. CASE o \notin dropped
    <3>1. instance_count = o \/ \E u \in Threads : new[u] = o
      BY <1>1, <2>1, <2>3 DEF Inv, Making
    <3>2. use[o] # 0
      BY <1>1, <2>1, <3>1, ShareIsCounted DEF Inv
    <3> QED BY <1>1, <2>1, <3>2 DEF Inv, Living
  <2> QED BY <2>1, <2>2, <2>3
<1>2. Inv => ReturnsTheObject
  BY <1>1 DEF ReturnsTheObject
<1> QED BY <1>2, InvAlways, PTL

(* The use count is the number of shares, and who holds a share holds the    *)
(* object alive, also after DesInstance.                                     *)
THEOREM SharesAlwaysKeepAlive == Spec => []SharesKeepAlive
<1>1. ASSUME Inv, NEW o \in Objects, o \in made,
             instance_count = o \/ \E t \in Threads : result_count[t] = o
      PROVE  o \in alive
  <2>1. use[o] # 0
    BY <1>1, ShareIsCounted DEF Inv
  <2> QED BY <1>1, <2>1 DEF Inv, Living
<1>2. ASSUME Inv, instance_count # nullptr PROVE instance_count \in alive
  <2>1. instance_count \in made /\ instance_count \in Objects
    BY <1>2 DEF Inv, TypeOK, Words
  <2> QED BY <1>1, <1>2, <2>1
<1>3. ASSUME Inv, NEW t \in Threads, result_count[t] # nullptr
      PROVE  result_count[t] \in alive /\ result_ptr[t] = result_count[t]
  <2>1. result_count[t] = result_ptr[t] /\ result_count[t] \in made /\ result_count[t] \in Objects
    BY <1>3 DEF Inv, TypeOK, Words, Results
  <2> QED BY <1>1, <1>3, <2>1
<1>4. Inv => SharesKeepAlive
  <2> SUFFICES ASSUME Inv PROVE SharesKeepAlive
    OBVIOUS
  <2> QED BY <1>2, <1>3 DEF Inv, SharesKeepAlive
<1> QED BY <1>4, InvAlways, PTL
=============================================================================
