--------------------------- MODULE MagicSingleton ---------------------------
(***************************************************************************)
(* utils/magicsingleton.hpp: GetInstance, DesInstance, and the callers     *)
(* that keep what GetInstance returns for a while.                         *)
(*                                                                         *)
(* A shared_ptr is two words, the pointer and the control block with the   *)
(* use count; a null one has neither.  The first look at instance_ and the *)
(* copy that is returned are outside the lock, so a thread may see one     *)
(* word written and not yet the other.  The count itself is atomic.        *)
(***************************************************************************)
EXTENDS Naturals, FiniteSets

CONSTANTS
  Threads,
  Objects,      \* what make_shared may return; a control block is named for its object
  nullptr,
  Destroying,   \* DesInstance is called "never", or "alone": while no other call runs
  MaxCalls      \* bound on the calls of GetInstance and DesInstance a thread makes

ASSUME ThreadsAssumption == IsFiniteSet(Threads)
ASSUME NullAssumption == nullptr \notin Objects \cup Threads
ASSUME DestroyingAssumption == Destroying \in {"never", "alone"}
ASSUME CallsBound == MaxCalls \in Nat

VARIABLES
  instance_ptr, instance_count,  \* the two words of instance_
  mutex_,                        \* the thread that holds it
  made, alive, use,              \* objects, those not destroyed, and their use counts
  dropped,                       \* history: those DesInstance took out of instance_
  pc, new, calls,                \* of each thread; `new' is its temporary
  result_ptr, result_count       \* the shared_ptr each thread was returned

instance == <<instance_ptr, instance_count>>
memory == <<made, alive, use, dropped>>
result == <<result_ptr, result_count>>
vars == <<instance, mutex_, memory, pc, new, calls, result>>

Init ==
  /\ instance_ptr = nullptr /\ instance_count = nullptr
  /\ mutex_ = nullptr
  /\ made = {} /\ alive = {} /\ use = [o \in Objects |-> 0] /\ dropped = {}
  /\ pc = [t \in Threads |-> "idle"]
  /\ new = [t \in Threads |-> nullptr]
  /\ calls = [t \in Threads |-> 0]
  /\ result_ptr = [t \in Threads |-> nullptr]
  /\ result_count = [t \in Threads |-> nullptr]

Go(t, from, to) == pc[t] = from /\ pc' = [pc EXCEPT ![t] = to]

Resetting == {"reset_ptr", "reset_count", "assign_ptr", "assign_count"}

(***************************************************************************)
(* A shared_ptr with control block c goes away: the last one destroys the  *)
(* object.                                                                 *)
(***************************************************************************)
Drop(c) ==
  /\ use' = IF c = nullptr THEN use ELSE [use EXCEPT ![c] = @ - 1]
  /\ alive' = IF c # nullptr /\ use[c] = 1 THEN alive \ {c} ELSE alive
  /\ UNCHANGED made

Call(t) ==
  /\ Go(t, "idle", "look")
  /\ \A u \in Threads : pc[u] \notin Resetting
  /\ calls[t] < MaxCalls
  /\ calls' = [calls EXCEPT ![t] = @ + 1]
  /\ UNCHANGED <<instance, mutex_, memory, new, result>>

(* if (!instance_)                                                           *)
Look(t) ==
  /\ Go(t, "look", IF instance_ptr = nullptr THEN "lock" ELSE "copy_ptr")
  /\ UNCHANGED <<instance, mutex_, memory, new, calls, result>>

Lock(t) ==
  /\ Go(t, "lock", "look_again")
  /\ mutex_ = nullptr
  /\ mutex_' = t
  /\ UNCHANGED <<instance, memory, new, calls, result>>

\* BUG: under the lock the pointer is not looked at again.
LookOnce(t) ==
  /\ Go(t, "look_again", "make")
  /\ UNCHANGED <<instance, mutex_, memory, new, calls, result>>

LookAgain(t) ==
  /\ Go(t, "look_again", IF instance_ptr = nullptr THEN "make" ELSE "unlock")
  /\ UNCHANGED <<instance, mutex_, memory, new, calls, result>>

MakeShared(t) ==
  /\ Go(t, "make", "store_ptr")
  /\ \E o \in Objects \ made :
       /\ made' = made \cup {o}
       /\ alive' = alive \cup {o}
       /\ use' = [use EXCEPT ![o] = 1]
       /\ new' = [new EXCEPT ![t] = o]
  /\ UNCHANGED <<instance, mutex_, dropped, calls, result>>

\* BUG: the lock is kept when the constructor throws.
ConstructorThrowsLocked(t) ==
  /\ Go(t, "make", "idle")
  /\ UNCHANGED <<instance, mutex_, memory, new, calls, result>>

(* The constructor of T throws: the guard unlocks and the call is over.      *)
ConstructorThrows(t) ==
  /\ Go(t, "make", "idle")
  /\ mutex_' = nullptr
  /\ UNCHANGED <<instance, memory, new, calls, result>>

(***************************************************************************)
(* The assignment to instance_ writes one word, then the other; what       *)
(* instance_ held before is dropped.                                       *)
(***************************************************************************)
StorePtr(t) ==
  /\ Go(t, "store_ptr", "store_count")
  /\ instance_ptr' = new[t]
  /\ UNCHANGED <<instance_count, mutex_, memory, new, calls, result>>

\* BUG: the temporary drops its share after the assignment.
StoreCountDrops(t) ==
  /\ Go(t, "store_count", "unlock")
  /\ instance_count' = new[t]
  /\ Drop(new[t])
  /\ new' = [new EXCEPT ![t] = nullptr]
  /\ UNCHANGED <<instance_ptr, mutex_, dropped, calls, result>>

StoreCount(t) ==
  /\ Go(t, "store_count", "unlock")
  /\ instance_count' = new[t]
  /\ Drop(instance_count)
  /\ new' = [new EXCEPT ![t] = nullptr]
  /\ UNCHANGED <<instance_ptr, mutex_, dropped, calls, result>>

Unlock(t) ==
  /\ Go(t, "unlock", "copy_ptr")
  /\ mutex_' = nullptr
  /\ UNCHANGED <<instance, memory, new, calls, result>>

(* return instance_                                                          *)
CopyPtr(t) ==
  /\ Go(t, "copy_ptr", "copy_count")
  /\ result_ptr' = [result_ptr EXCEPT ![t] = instance_ptr]
  /\ UNCHANGED <<instance, mutex_, memory, new, calls, result_count>>

\* BUG: the copy is not counted.
CopyUncounted(t) ==
  /\ Go(t, "copy_count", "returned")
  /\ result_count' = [result_count EXCEPT ![t] = instance_count]
  /\ UNCHANGED <<instance, mutex_, memory, new, calls, result_ptr>>

CopyCount(t) ==
  /\ Go(t, "copy_count", "returned")
  /\ result_count' = [result_count EXCEPT ![t] = instance_count]
  /\ use' = IF instance_count = nullptr THEN use ELSE [use EXCEPT ![instance_count] = @ + 1]
  /\ UNCHANGED <<instance, mutex_, made, alive, dropped, new, calls, result_ptr>>

(* The caller lets go of what it was returned.                               *)
Release(t) ==
  /\ Go(t, "returned", "idle")
  /\ Drop(result_count[t])
  /\ result_ptr' = [result_ptr EXCEPT ![t] = nullptr]
  /\ result_count' = [result_count EXCEPT ![t] = nullptr]
  /\ UNCHANGED <<instance, mutex_, dropped, new, calls>>

(***************************************************************************)
(* DesInstance: if (instance_), reset() and then the assignment of         *)
(* nullptr, each again word by word.  No lock is taken: a call that runs   *)
(* at the same time races with it, and nothing could be said of the rest.  *)
(***************************************************************************)
DesInstance(t) ==
  /\ Destroying = "alone"
  /\ \A u \in Threads : pc[u] \in {"idle", "returned"}
  /\ Go(t, "idle", IF instance_ptr = nullptr THEN "idle" ELSE "reset_ptr")
  /\ calls[t] < MaxCalls
  /\ calls' = [calls EXCEPT ![t] = @ + 1]
  /\ UNCHANGED <<instance, mutex_, memory, new, result>>

NullPtr(t) ==
  /\ Go(t, "reset_ptr", "reset_count") \/ Go(t, "assign_ptr", "assign_count")
  /\ instance_ptr' = nullptr
  /\ dropped' = dropped \cup ({instance_ptr} \ {nullptr})
  /\ UNCHANGED <<instance_count, mutex_, made, alive, use, new, calls, result>>

\* BUG: the object is destroyed, whoever else holds it.
NullCountDestroys(t) ==
  /\ Go(t, "reset_count", "assign_ptr") \/ Go(t, "assign_count", "idle")
  /\ instance_count' = nullptr
  /\ use' = IF instance_count = nullptr THEN use ELSE [use EXCEPT ![instance_count] = @ - 1]
  /\ alive' = alive \ {instance_count}
  /\ UNCHANGED <<instance_ptr, mutex_, made, dropped, new, calls, result>>

NullCount(t) ==
  /\ Go(t, "reset_count", "assign_ptr") \/ Go(t, "assign_count", "idle")
  /\ instance_count' = nullptr
  /\ Drop(instance_count)
  /\ UNCHANGED <<instance_ptr, mutex_, dropped, new, calls, result>>

-----------------------------------------------------------------------------
(* What a thread does once it is in a call, until the call is over.          *)
InCall(t) ==
  \/ Look(t)
  \/ Lock(t)
  \/ LookAgain(t)
  \/ MakeShared(t)
  \/ ConstructorThrows(t)
  \/ StorePtr(t)
  \/ StoreCount(t)
  \/ Unlock(t)
  \/ CopyPtr(t)
  \/ CopyCount(t)
  \/ NullPtr(t)
  \/ NullCount(t)

Next == \E t \in Threads : InCall(t) \/ Call(t) \/ Release(t) \/ DesInstance(t)

(***************************************************************************)
(* A running thread is scheduled again and again.  The mutex promises no   *)
(* order among those who wait: fairness of a thread is weak, and nothing   *)
(* makes a caller release what it holds or call again.                     *)
(***************************************************************************)
Spec == Init /\ [][Next]_vars /\ \A t \in Threads : WF_vars(InCall(t))

-----------------------------------------------------------------------------
Critical == {"look_again", "make", "store_ptr", "store_count", "unlock"}
Steps == Critical \cup Resetting
           \cup {"idle", "look", "lock", "copy_ptr", "copy_count", "returned"}

(* The variables have the values the declarations promise.                  *)
TypeOK ==
  /\ instance_ptr \in Objects \cup {nullptr} /\ instance_count \in Objects \cup {nullptr}
  /\ mutex_ \in Threads \cup {nullptr}
  /\ made \subseteq Objects /\ alive \subseteq made /\ dropped \subseteq made
  /\ use \in [Objects -> Nat]
  /\ pc \in [Threads -> Steps]
  /\ new \in [Threads -> Objects \cup {nullptr}]
  /\ calls \in [Threads -> 0..MaxCalls]
  /\ result_ptr \in [Threads -> Objects \cup {nullptr}]
  /\ result_count \in [Threads -> Objects \cup {nullptr}]

(* However the threads' first looks and locks fall, there is one object that *)
(* DesInstance did not take out: it is made once, though instance_ is looked *)
(* at outside the lock.                                                      *)
OneObject == \A o, p \in made \ dropped : o = p

(* What GetInstance returns is the object, and keeps being it until the      *)
(* caller lets go, also for a caller that copied the pointer before its      *)
(* control block was stored and so holds no share of it: only DesInstance    *)
(* takes it from that one, and from the others not even that.                *)
ReturnsTheObject ==
  \A t \in Threads : pc[t] = "returned" =>
    /\ result_ptr[t] \in {instance_ptr} \cup dropped
    /\ result_ptr[t] \in alive \/ (result_ptr[t] \in dropped /\ result_count[t] = nullptr)

(* The use count is the number of shares there are: that of instance_, that  *)
(* of the temporary before it, and those of the callers.                     *)
Holders(o) == {t \in Threads : result_count[t] = o}
Makers(o) == {t \in Threads : new[t] = o}
CountsShares ==
  \A o \in Objects :
    use[o] = Cardinality(Holders(o)) + Cardinality(Makers(o))
               + (IF instance_count = o THEN 1 ELSE 0)

(* The shares are counted, so who holds one holds the object alive, also     *)
(* after DesInstance; and what instance_ holds a share of is alive.          *)
SharesKeepAlive ==
  /\ TypeOK
  /\ CountsShares
  /\ instance_count # nullptr => instance_count \in alive
  /\ \A t \in Threads : result_count[t] # nullptr =>
       result_count[t] \in alive /\ result_ptr[t] = result_count[t]

(* A call returns or throws: no thread waits for the lock for ever, since    *)
(* those before it either made the object or used up a call.                 *)
CallsEnd ==
  \A t \in Threads : pc[t] \in {"look", "reset_ptr"} ~> pc[t] \in {"returned", "idle"}
=============================================================================
