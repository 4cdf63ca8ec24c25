------------------------ MODULE SharedInstance_proofs ------------------------
(***************************************************************************)
(* Proofs about SharedInstance, for any number of threads, instances and   *)
(* calls.  The mutex makes the find-or-create step of one thread exclude   *)
(* that of another, but destructors run beside it.  What keeps the two     *)
(* apart is that whoever holds an instance holds the one weakInstance      *)
(* points to, and that a thread which found it expired can count on nobody *)
(* holding any until it publishes its own (Shared).                        *)
(***************************************************************************)
EXTENDS SharedInstance, TLAPS

\* Initially nobody holds anything.
LEMMA InvInit == ASSUME Constants, Init PROVE Inv
  BY DEF Constants, Init, Inv, TypeOK, Placed, Shared, Owned, Equipped, NothingStranded,
         Abandoned, Object, Place, Making, Locked, Holding

-----------------------------------------------------------------------------
(* Each action preserves the invariant.                                    *)

LEMMA CreateInv == ASSUME Constants, Inv, NEW t \in Thread, Create(t) PROVE Inv'
<1> USE DEF Constants, Inv, TypeOK, Placed, Shared, Owned, Equipped, NothingStranded, Abandoned,
           objects, Object, Goto, Place, Making, Locked, Holding
<1>1. calls'[t] \in 0..MaxCalls
  BY DEF Create
<1> QED BY <1>1 DEF Create

LEMMA MoveInv ==
  ASSUME Constants, Inv, NEW t \in Thread, NEW u \in Thread, Move(t, u)
  PROVE  Inv'
<1> USE DEF Constants, Inv, TypeOK, Placed, Shared, Owned, Equipped, NothingStranded, Abandoned,
           objects, Object, Goto, Place, Making, Locked, Holding
<1>0. stranded' = stranded
  BY DEF Move
<1>1. TypeOK'
  <2>1. hal' \in [Thread -> SUBSET Object] BY DEF Move
  <2>2. owns' \in [Thread -> Instance \cup {None}] /\ at' \in [Thread -> Place] BY DEF Move
  <2>3. UNCHANGED <<drivers, mutex, weak, raw, instance, calls>> BY DEF Move
  <2> QED BY <1>0, <2>1, <2>2, <2>3
<1>2. Placed' BY DEF Move
<1>3. Shared' BY DEF Move
<1>4. Owned' BY DEF Move
<1>5. Equipped' BY DEF Move
<1>6. NothingStranded'
  <2>1. \A x \in Thread : at'[x] \in {"idle", "drop", "release"} => hal'[x] = {}
    BY DEF Move
  <2>2. UNCHANGED <<raw, instance>> BY DEF Move
  <2> QED BY <1>0, <2>1, <2>2
<1> QED BY <1>1, <1>2, <1>3, <1>4, <1>5, <1>6

\* What matters most: Peek, Publish and DropInstance.  A thread that peeks holds
\* the mutex, so nobody else creates; if it finds an owner, that one holds the
\* weak pointer's instance, alive; if it finds none, nobody holds any.
LEMMA StepInv == ASSUME Constants, Inv, NEW t \in Thread, Step(t) PROVE Inv'
<1> USE DEF Constants, Inv, TypeOK, Placed, Shared, Owned, Equipped, NothingStranded, Abandoned,
           objects, Object, Goto, Place, Making, Locked, Holding
<1>1. CASE RegisterDrivers(t)
  BY <1>1 DEF RegisterDrivers
<1>2. CASE CheckStatus(t)
  BY <1>2 DEF CheckStatus
<1>3. CASE Lock(t)
  BY <1>3 DEF Lock
<1>4. CASE Peek(t)
  <2>1. TypeOK' BY <1>4 DEF Peek, Owners
  <2>2. Placed' BY <1>4 DEF Peek, Owners
  <2>3. Shared' BY <1>4 DEF Peek, Owners
  <2>4. Owned' BY <1>4 DEF Peek, Owners
  <2>5. Equipped' BY <1>4 DEF Peek, Owners
  <2>6. NothingStranded' BY <1>4 DEF Peek, Owners
  <2> QED BY <2>1, <2>2, <2>3, <2>4, <2>5, <2>6
<1>5. CASE CreateInstance(t)
  <2>1. TypeOK' BY <1>5 DEF CreateInstance
  <2>2. Placed' BY <1>5 DEF CreateInstance
  <2>3. Shared' BY <1>5 DEF CreateInstance
  <2>4. Owned' BY <1>5 DEF CreateInstance
  <2>5. Equipped' BY <1>5 DEF CreateInstance
  <2>6. NothingStranded' BY <1>5 DEF CreateInstance
  <2> QED BY <2>1, <2>2, <2>3, <2>4, <2>5, <2>6
<1>6. CASE RegisterTypes(t)
  BY <1>6 DEF RegisterTypes
<1>7. CASE Publish(t)
  <2>1. TypeOK' BY <1>7 DEF Publish
  <2>2. Placed' BY <1>7 DEF Publish
  <2>3. Shared' BY <1>7 DEF Publish
  <2>4. Owned' BY <1>7 DEF Publish
  <2>5. Equipped' BY <1>7 DEF Publish
  <2>6. NothingStranded' BY <1>7 DEF Publish
  <2> QED BY <2>1, <2>2, <2>3, <2>4, <2>5, <2>6
<1>8. CASE Unlock(t)
  BY <1>8 DEF Unlock
<1>9. CASE InstanceFails(t)
  <2>1. TypeOK' BY <1>9 DEF InstanceFails
  <2>2. Placed' BY <1>9 DEF InstanceFails
  <2>3. Shared' BY <1>9 DEF InstanceFails
  <2>4. Owned' BY <1>9 DEF InstanceFails
  <2>5. Equipped' BY <1>9 DEF InstanceFails
  <2>6. NothingStranded' BY <1>9 DEF InstanceFails
  <2> QED BY <2>1, <2>2, <2>3, <2>4, <2>5, <2>6
<1>10. CASE CreateDriver(t)
  <2>1. TypeOK' BY <1>10 DEF CreateDriver, Made
  <2>2. Placed' BY <1>10 DEF CreateDriver, Made
  <2>3. Shared' BY <1>10 DEF CreateDriver, Made
  <2>4. Owned' BY <1>10 DEF CreateDriver, Made
  <2>5. Equipped' BY <1>10 DEF CreateDriver, Made
  <2>6. NothingStranded' BY <1>10 DEF CreateDriver, Made
  <2> QED BY <2>1, <2>2, <2>3, <2>4, <2>5, <2>6
<1>11. CASE CreatePool(t)
  <2>1. TypeOK' BY <1>11 DEF CreatePool, Made
  <2>2. Placed' BY <1>11 DEF CreatePool, Made
  <2>3. Shared' BY <1>11 DEF CreatePool, Made
  <2>4. Owned' BY <1>11 DEF CreatePool, Made
  <2>5. Equipped' BY <1>11 DEF CreatePool, Made
  <2>6. NothingStranded' BY <1>11 DEF CreatePool, Made
  <2> QED BY <2>1, <2>2, <2>3, <2>4, <2>5, <2>6
<1>12. CASE PoolCreationFails(t)
  <2>0. hal' = [hal EXCEPT ![t] = {}] /\ stranded' = stranded \cup {"driver"}
    BY <1>12 DEF PoolCreationFails, Released
  <2>1. TypeOK' BY <1>12, <2>0 DEF PoolCreationFails
  <2>2. Placed' BY <1>12, <2>0 DEF PoolCreationFails
  <2>3. Shared' BY <1>12, <2>0 DEF PoolCreationFails
  <2>4. Owned' BY <1>12, <2>0 DEF PoolCreationFails
  <2>5. Equipped' BY <1>12, <2>0 DEF PoolCreationFails
  <2>6. NothingStranded' BY <1>12, <2>0 DEF PoolCreationFails
  <2> QED BY <2>1, <2>2, <2>3, <2>4, <2>5, <2>6
<1>13. CASE CreateDevice(t)
  <2>1. TypeOK' BY <1>13 DEF CreateDevice
  <2>2. Placed' BY <1>13 DEF CreateDevice
  <2>3. Shared' BY <1>13 DEF CreateDevice
  <2>4. Owned' BY <1>13 DEF CreateDevice
  <2>5. Equipped' BY <1>13 DEF CreateDevice
  <2>6. NothingStranded' BY <1>13 DEF CreateDevice
  <2> QED BY <2>1, <2>2, <2>3, <2>4, <2>5, <2>6
<1>14. CASE DeviceFails(t)
  <2>0. hal' = [hal EXCEPT ![t] = {}] /\ stranded' = stranded
    BY <1>14 DEF DeviceFails, Released
  <2>1. TypeOK' BY <1>14, <2>0 DEF DeviceFails
  <2>2. Placed' BY <1>14, <2>0 DEF DeviceFails
  <2>3. Shared' BY <1>14, <2>0 DEF DeviceFails
  <2>4. Owned' BY <1>14, <2>0 DEF DeviceFails
  <2>5. Equipped' BY <1>14, <2>0 DEF DeviceFails
  <2>6. NothingStranded' BY <1>14, <2>0 DEF DeviceFails
  <2> QED BY <2>1, <2>2, <2>3, <2>4, <2>5, <2>6
<1>15. CASE CreateDeviceGroup(t)
  <2>1. TypeOK' BY <1>15 DEF CreateDeviceGroup, Made
  <2>2. Placed' BY <1>15 DEF CreateDeviceGroup, Made
  <2>3. Shared' BY <1>15 DEF CreateDeviceGroup, Made
  <2>4. Owned' BY <1>15 DEF CreateDeviceGroup, Made
  <2>5. Equipped' BY <1>15 DEF CreateDeviceGroup, Made
  <2>6. NothingStranded' BY <1>15 DEF CreateDeviceGroup, Made
  <2> QED BY <2>1, <2>2, <2>3, <2>4, <2>5, <2>6
<1>16. CASE Destroy(t)
  <2>0. hal' = [hal EXCEPT ![t] = {}] /\ stranded' = stranded
    BY <1>16 DEF Destroy, Released
  <2>1. TypeOK' BY <1>16, <2>0 DEF Destroy
  <2>2. Placed' BY <1>16, <2>0 DEF Destroy
  <2>3. Shared' BY <1>16, <2>0 DEF Destroy
  <2>4. Owned' BY <1>16, <2>0 DEF Destroy
  <2>5. Equipped' BY <1>16, <2>0 DEF Destroy
  <2>6. NothingStranded' BY <1>16, <2>0 DEF Destroy
  <2> QED BY <2>1, <2>2, <2>3, <2>4, <2>5, <2>6
<1>17. CASE DropInstance(t)
  <2>1. TypeOK' BY <1>17 DEF DropInstance, Owners
  <2>2. Placed' BY <1>17 DEF DropInstance, Owners
  <2>3. Shared' BY <1>17 DEF DropInstance, Owners
  <2>4. Owned' BY <1>17 DEF DropInstance, Owners
  <2>5. Equipped' BY <1>17 DEF DropInstance, Owners
  <2>6. NothingStranded' BY <1>17 DEF DropInstance, Owners
  <2> QED BY <2>1, <2>2, <2>3, <2>4, <2>5, <2>6
<1>18. CASE ReleaseInstance(t)
  <2>1. TypeOK' BY <1>18 DEF ReleaseInstance
  <2>2. Placed' BY <1>18 DEF ReleaseInstance
  <2>3. Shared' BY <1>18 DEF ReleaseInstance
  <2>4. Owned' BY <1>18 DEF ReleaseInstance
  <2>5. Equipped' BY <1>18 DEF ReleaseInstance
  <2>6. NothingStranded' BY <1>18 DEF ReleaseInstance
  <2> QED BY <2>1, <2>2, <2>3, <2>4, <2>5, <2>6
<1> QED BY <1>1, <1>2, <1>3, <1>4, <1>5, <1>6, <1>7, <1>8, <1>9, <1>10,
           <1>11, <1>12, <1>13, <1>14, <1>15, <1>16, <1>17, <1>18 DEF Step

LEMMA InvNext == ASSUME Constants, Inv, [Next]_vars PROVE Inv'
<1>1. CASE UNCHANGED vars
  BY <1>1 DEF vars, objects, Inv, TypeOK, Placed, Shared, Owned, Equipped,
              NothingStranded, Abandoned
<1>2. CASE Next
  BY <1>2, CreateInv, StepInv, MoveInv DEF Next
<1> QED BY <1>1, <1>2

-----------------------------------------------------------------------------
(* The theorems.                                                           *)

\* The mutex, the weak_ptr and the references in handles always agree, for any
\* number of threads and instances (createSharedInstance, ~Handle).
THEOREM InvCorrect == ASSUME Constants PROVE Spec => []Inv
<1>1. Init => Inv BY InvInit
<1>2. Inv /\ [Next]_vars => Inv' BY InvNext
<1> QED BY <1>1, <1>2, PTL DEF Spec

\* All handles of a process share one instance.
THEOREM OneInstanceCorrect == ASSUME Constants PROVE Spec => []OneInstance
<1>1. Inv => OneInstance
  BY DEF Inv, TypeOK, Placed, Shared, OneInstance
<1> QED BY <1>1, InvCorrect, PTL

\* The instance of a handle is alive.
THEOREM HeldIsLiveCorrect == ASSUME Constants PROVE Spec => []HeldIsLive
<1>1. Inv => HeldIsLive
  BY DEF Inv, TypeOK, Placed, Shared, HeldIsLive
<1> QED BY <1>1, InvCorrect, PTL

\* No instance that was shared outlives its last handle.
THEOREM ReleasedWithLastHandleCorrect ==
  ASSUME Constants PROVE Spec => []ReleasedWithLastHandle
<1>1. Inv => ReleasedWithLastHandle
  BY DEF Inv, TypeOK, Placed, Shared, Owned, ReleasedWithLastHandle
<1> QED BY <1>1, InvCorrect, PTL

\* Nothing that was made for a Handle is left without an owner, but for two failures.
THEOREM NothingStrandedCorrect ==
  ASSUME Constants PROVE Spec => []NothingStranded
<1>1. Inv => NothingStranded
  BY DEF Inv
<1> QED BY <1>1, InvCorrect, PTL
=============================================================================
