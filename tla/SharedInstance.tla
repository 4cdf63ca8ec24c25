--------------------------- MODULE SharedInstance ---------------------------
(***************************************************************************)
(* The IREE VM instance that all Handles of a process share, and the life  *)
(* of a Handle: Handle::create, createSharedInstance, the devices, and     *)
(* destruction.                                                            *)
(*                                                                         *)
(* A static weak_ptr remembers the instance without keeping it alive; the  *)
(* shared_ptr in each Handle does that.  A mutex orders the threads inside *)
(* createSharedInstance, but not the destructors, which drop references    *)
(* and release the instance at any time.                                   *)
(***************************************************************************)
EXTENDS Naturals, FiniteSets

CONSTANTS
  Thread,    \* threads; each has at most one Handle at a time, in the making or made
  Instance,  \* VM instances IREE can allocate; one that was released may be allocated again
  None,      \* a null pointer; nobody
  MaxCalls,  \* how often a thread calls Handle::create
  PoolFails, \* the system may refuse a proactor pool
  TypesFail  \* the instance may refuse the HAL types

\* What is assumed of them.
Constants ==
  /\ None \notin Thread \cup Instance /\ MaxCalls \in Nat
  /\ {PoolFails, TypesFail} \subseteq BOOLEAN

VARIABLES
  drivers,   \* registrationStatus of registerHalDriversOnce: "unset" before call_once ran
  mutex,     \* the thread in the critical section of createSharedInstance
  weak,      \* the instance weakInstance was last assigned; it may have expired
  raw,       \* rawInstance: an instance that no shared_ptr owns yet
  instance,  \* the state of each instance
  owns,      \* owns[t]: the instance t's shared_ptr points to
  hal,       \* hal[t]: the HAL objects made for t's Handle and not released
  stranded,  \* HAL objects that were not released by the last who could
  at,        \* at[t]: where t's create or destructor stands; "handle": it has a Handle
  calls      \* calls[t]: how often t has called create

objects == <<hal, stranded>>
vars == <<drivers, mutex, weak, raw, instance, owns, objects, at, calls>>

Locked == {"peek", "create", "types", "publish", "unlock"}
Making == {"drivers", "status", "lock", "driver", "pool", "device", "group"} \cup Locked
Place  == {"idle", "handle", "drop", "release"} \cup Making
Object == {"driver", "pool", "device", "group"}

TypeOK ==
  /\ drivers  \in {"unset", "ok", "failed"}
  /\ mutex    \in Thread \cup {None}
  /\ weak     \in Instance \cup {None}
  /\ raw      \in Instance \cup {None}
  /\ instance \in [Instance -> {"none", "raw", "live", "dying"}]
  /\ owns     \in [Thread -> Instance \cup {None}]
  /\ hal      \in [Thread -> SUBSET Object]
  /\ stranded \in SUBSET Object
  /\ at       \in [Thread -> Place]
  /\ calls    \in [Thread -> 0..MaxCalls]

Init ==
  /\ drivers = "unset"
  /\ mutex = None /\ weak = None /\ raw = None
  /\ instance = [i \in Instance |-> "none"]
  /\ owns  = [t \in Thread |-> None]
  /\ hal   = [t \in Thread |-> {}] /\ stranded = {}
  /\ at    = [t \in Thread |-> "idle"]
  /\ calls = [t \in Thread |-> 0]

Goto(t, place) == at' = [at EXCEPT ![t] = place]

-----------------------------------------------------------------------------
(* Handle::create and registerHalDriversOnce                               *)

Create(t) ==
  /\ at[t] = "idle" /\ calls[t] < MaxCalls
  /\ calls' = [calls EXCEPT ![t] = @ + 1]
  /\ Goto(t, "drivers")
  /\ UNCHANGED <<drivers, mutex, weak, raw, instance, owns, objects>>

\* call_once runs the registration in one thread; the others wait for it.
RegisterDrivers(t) ==
  /\ at[t] = "drivers"
  /\ drivers' \in IF drivers = "unset" THEN {"ok", "failed"} ELSE {drivers}
  /\ Goto(t, "status")
  /\ UNCHANGED <<mutex, weak, raw, instance, owns, calls, objects>>

\* The status stays what it was: after a failure no create succeeds any more.
CheckStatus(t) ==
  /\ at[t] = "status"
  /\ Goto(t, IF drivers = "ok" THEN "lock" ELSE "idle")
  /\ UNCHANGED <<drivers, mutex, weak, raw, instance, owns, calls, objects>>

-----------------------------------------------------------------------------
(* createSharedInstance, with the lock_guard                               *)

\* Mutant of Lock: there is no mutex.
LockNothing(t) ==
  /\ at[t] = "lock"
  /\ mutex' = t
  /\ Goto(t, "peek")
  /\ UNCHANGED <<drivers, weak, raw, instance, owns, calls, objects>>

Lock(t) ==
  /\ at[t] = "lock" /\ mutex = None
  /\ mutex' = t
  /\ Goto(t, "peek")
  /\ UNCHANGED <<drivers, weak, raw, instance, owns, calls, objects>>

\* Mutant of Owners: the static is a shared_ptr.
OwnersWithStatic(i) ==
  {t \in Thread : owns[t] = i /\ at[t] # "release"} \cup {n \in {None} : weak = i}

\* The shared_ptrs that own an instance: the last to go has at "release".
Owners(i) == {t \in Thread : owns[t] = i /\ at[t] # "release"}

\* Mutant of Peek: the static is a plain pointer, taken while the instance is there.
PeekPlain(t) ==
  /\ at[t] = "peek"
  /\ IF weak # None /\ instance[weak] # "none"
       THEN owns' = [owns EXCEPT ![t] = weak] /\ Goto(t, "unlock")
       ELSE Goto(t, "create") /\ UNCHANGED owns
  /\ UNCHANGED <<drivers, mutex, weak, raw, instance, calls, objects>>

\* weakInstance.lock() is null once the last owner has let go.
Peek(t) ==
  /\ at[t] = "peek"
  /\ IF weak # None /\ Owners(weak) # {}
       THEN owns' = [owns EXCEPT ![t] = weak] /\ Goto(t, "unlock")
       ELSE Goto(t, "create") /\ UNCHANGED owns
  /\ UNCHANGED <<drivers, mutex, weak, raw, instance, calls, objects>>

\* iree_vm_instance_create
CreateInstance(t) == \E i \in Instance :
  /\ at[t] = "create" /\ instance[i] = "none"
  /\ instance' = [instance EXCEPT ![i] = "raw"]
  /\ raw' = i
  /\ Goto(t, "types")
  /\ UNCHANGED <<drivers, mutex, weak, owns, calls, objects>>

\* iree_hal_module_register_all_types
RegisterTypes(t) ==
  /\ at[t] = "types"
  /\ Goto(t, "publish")
  /\ UNCHANGED <<drivers, mutex, weak, raw, instance, owns, calls, objects>>

\* The shared_ptr is made, and the weak_ptr of it.
Publish(t) ==
  /\ at[t] = "publish"
  /\ instance' = [instance EXCEPT ![raw] = "live"]
  /\ owns' = [owns EXCEPT ![t] = raw]
  /\ weak' = raw
  /\ raw'  = None
  /\ Goto(t, "unlock")
  /\ UNCHANGED <<drivers, mutex, calls, objects>>

Unlock(t) ==
  /\ at[t] = "unlock"
  /\ mutex' = None
  /\ Goto(t, "driver")
  /\ UNCHANGED <<drivers, weak, raw, instance, owns, calls, objects>>

\* Mutant of InstanceFails: a mutex that is unlocked by hand, not here.
InstanceFailsLocked(t) ==
  /\ at[t] \in {"create"} \cup {p \in {"types"} : TypesFail}
  /\ raw' = None
  /\ Goto(t, "idle")
  /\ UNCHANGED <<drivers, mutex, weak, instance, owns, calls, objects>>

\* Creating the instance or registering its types fails.  In the second case
\* the instance stays, and nothing points to it any more.
InstanceFails(t) ==
  /\ at[t] \in {"create"} \cup {p \in {"types"} : TypesFail}
  /\ mutex' = None
  /\ raw' = None
  /\ Goto(t, "idle")
  /\ UNCHANGED <<drivers, weak, instance, owns, calls, objects>>

-----------------------------------------------------------------------------
(* The device, the device group, and the destructor of Handle              *)

Made(t, object) == hal' = [hal EXCEPT ![t] = @ \cup {object}] /\ UNCHANGED stranded

\* A scope or a Handle ends, and releases some of what was made for t.
Released(t, some) ==
  /\ hal' = [hal EXCEPT ![t] = {}]
  /\ stranded' = stranded \cup (hal[t] \ some)

\* iree_hal_driver_registry_try_create
CreateDriver(t) ==
  /\ at[t] = "driver"
  /\ Made(t, "driver")
  /\ Goto(t, "pool")
  /\ UNCHANGED <<drivers, mutex, weak, raw, instance, owns, calls>>

CreatePool(t) ==
  /\ at[t] = "pool"
  /\ Made(t, "pool")
  /\ Goto(t, "device")
  /\ UNCHANGED <<drivers, mutex, weak, raw, instance, owns, calls>>

\* The error is returned before anything holds the driver.
PoolCreationFails(t) ==
  /\ at[t] = "pool" /\ PoolFails
  /\ Released(t, {})
  /\ Goto(t, "drop")
  /\ UNCHANGED <<drivers, mutex, weak, raw, instance, owns, calls>>

\* The pool and the driver are released before the status is looked at.
CreateDevice(t) ==
  /\ at[t] = "device"
  /\ hal' = [hal EXCEPT ![t] = (@ \ {"pool", "driver"}) \cup {"device"}]
  /\ Goto(t, "group")
  /\ UNCHANGED <<drivers, mutex, weak, raw, instance, owns, calls, stranded>>

\* Mutant of DeviceFails: the status is looked at first.
DeviceFailsEarly(t) ==
  /\ at[t] = "device"
  /\ Released(t, {})
  /\ Goto(t, "drop")
  /\ UNCHANGED <<drivers, mutex, weak, raw, instance, owns, calls>>

DeviceFails(t) ==
  /\ at[t] = "device"
  /\ Released(t, {"pool", "driver"})
  /\ Goto(t, "drop")
  /\ UNCHANGED <<drivers, mutex, weak, raw, instance, owns, calls>>

\* Its frontier tracker is released on both paths.
CreateDeviceGroup(t) ==
  /\ at[t] = "group"
  /\ Made(t, "group")
  /\ Goto(t, "handle")
  /\ UNCHANGED <<drivers, mutex, weak, raw, instance, owns, calls>>

\* There is no driver for the backend, the group fails, or the Handle goes out of
\* scope: its members are destroyed last to first, the instance after the others.
Destroy(t) ==
  /\ at[t] \in {"driver", "group", "handle"}
  /\ Released(t, {"device", "group"})
  /\ Goto(t, "drop")
  /\ UNCHANGED <<drivers, mutex, weak, raw, instance, owns, calls>>

\* ~shared_ptr: only the last owner goes on to release the instance.
DropInstance(t) ==
  /\ at[t] = "drop"
  /\ IF Owners(owns[t]) = {t}
       THEN /\ instance' = [instance EXCEPT ![owns[t]] = "dying"]
            /\ Goto(t, "release")
            /\ UNCHANGED owns
       ELSE /\ owns' = [owns EXCEPT ![t] = None]
            /\ Goto(t, "idle")
            /\ UNCHANGED instance
  /\ UNCHANGED <<drivers, mutex, weak, raw, calls, objects>>

\* iree_vm_instance_release by the deleter
ReleaseInstance(t) ==
  /\ at[t] = "release"
  /\ instance' = [instance EXCEPT ![owns[t]] = "none"]
  /\ owns' = [owns EXCEPT ![t] = None]
  /\ Goto(t, "idle")
  /\ UNCHANGED <<drivers, mutex, weak, raw, calls, objects>>

\* u constructs or assigns its Handle from that of t.  The instance it lets go of
\* then is the one it gets (OneInstance), so nothing is released.
Move(t, u) ==
  /\ t # u /\ at[t] = "handle" /\ at[u] \in {"idle", "handle"}
  /\ owns' = [owns EXCEPT ![u] = owns[t], ![t] = None]
  /\ hal'  = [hal EXCEPT ![u] = hal[t], ![t] = {}]
  /\ stranded' = stranded \cup (hal[u] \ {"device", "group"})
  /\ at'   = [at EXCEPT ![u] = "handle", ![t] = "idle"]
  /\ UNCHANGED <<drivers, mutex, weak, raw, instance, calls>>

-----------------------------------------------------------------------------
\* What a thread does once it is inside create or a destructor.
Step(t) ==
  \/ RegisterDrivers(t) \/ CheckStatus(t)
  \/ Lock(t) \/ Peek(t) \/ CreateInstance(t) \/ RegisterTypes(t) \/ Publish(t)
  \/ Unlock(t) \/ InstanceFails(t)
  \/ CreateDriver(t) \/ CreatePool(t) \/ PoolCreationFails(t)
  \/ CreateDevice(t) \/ DeviceFails(t) \/ CreateDeviceGroup(t)
  \/ Destroy(t) \/ DropInstance(t) \/ ReleaseInstance(t)

Next == \E t \in Thread :
  \/ Create(t) \/ Step(t)
  \/ \E u \in Thread : Move(t, u)

Spec == Init /\ [][Next]_vars

-----------------------------------------------------------------------------
(* The inductive invariant.                                                *)

Holding == {"unlock", "driver", "pool", "device", "group", "handle", "drop"}

\* The mutex and the places of threads agree, and so do the places and what is owned.
Placed ==
  /\ \A t \in Thread : at[t] \in Locked <=> mutex = t
  /\ \A t \in Thread : owns[t] # None <=> at[t] \in Holding \cup {"release"}
  /\ \A t \in Thread : at[t] \in {"types", "publish"} =>
       raw # None /\ instance[raw] = "raw"
  /\ raw # None => mutex # None /\ at[mutex] \in {"types", "publish"}

\* Whoever holds an instance holds the one the weak_ptr points to; a thread that
\* makes one has found that nobody holds any, and a dying one has no other owner.
Shared ==
  /\ \A t \in Thread : at[t] \in Holding =>
       owns[t] = weak /\ instance[owns[t]] = "live"
  /\ \A t \in Thread : at[t] \in {"create", "types", "publish"} =>
       \A u \in Thread : at[u] \notin Holding
  /\ \A t \in Thread : at[t] = "release" =>
       instance[owns[t]] = "dying" /\ \A u \in Thread \ {t} : owns[u] # owns[t]

Owned == \A i \in Instance :
  instance[i] \in {"live", "dying"} => \E t \in Thread : owns[t] = i

\* What has been made for a Handle at each place, no more and no less.
Equipped == \A t \in Thread :
  /\ at[t] = "pool"   => hal[t] = {"driver"}
  /\ at[t] = "device" => hal[t] = {"driver", "pool"}
  /\ at[t] = "group"  => hal[t] = {"device"}
  /\ at[t] = "handle" => hal[t] = {"device", "group"}
  /\ at[t] \notin {"pool", "device", "group", "handle"} => hal[t] = {}

\* Nobody can release an instance that no pointer refers to.
Abandoned == {i \in Instance : instance[i] = "raw" /\ raw # i}

\* Whatever fails on the way to a Handle, and whichever Handles are moved or
\* destroyed, all that was made for one is released by somebody: except the driver
\* of createCPUDevice if there is no proactor pool, and the instance of
\* createSharedInstance if it does not take the HAL types.
NothingStranded ==
  /\ stranded \subseteq {x \in {"driver"} : PoolFails}
  /\ Abandoned # {} => TypesFail
  /\ \A t \in Thread : at[t] \in {"idle", "drop", "release"} => hal[t] = {}

Inv == TypeOK /\ Placed /\ Shared /\ Owned /\ Equipped /\ NothingStranded

-----------------------------------------------------------------------------
(* Properties.                                                             *)

\* All handles of the process, and all creates that have come so far, share one
\* instance ("only one will succeed in creating the instance, and others will
\* use it"), whichever handles die in the meantime.
OneInstance == \A t, u \in Thread :
  owns[t] # None /\ owns[u] # None /\ at[t] # "release" /\ at[u] # "release"
    => owns[t] = owns[u]

\* The instance of a handle is alive: a destructor that found itself the last
\* owner never races with a create that takes the instance up again.
HeldIsLive == \A t \in Thread :
  owns[t] # None /\ at[t] # "release" => instance[owns[t]] = "live"

\* An instance that was shared goes when its last handle goes ("released when
\* the last handle owning it goes out of scope"): the static does not hog it.
ReleasedWithLastHandle == \A i \in Instance :
  instance[i] = "live" => \E t \in Thread : at[t] # "release" /\ owns[t] = i
=============================================================================
