-------------------------- MODULE Delegates_proofs --------------------------
(* The invariants of Delegates, for any number of wallets and any flags.       *)
EXTENDS Delegates, FiniteSetTheorems, TLAPS

(* TypeOK, CountExact and NoNewPowers support each other: the count cannot     *)
(* underflow because it is the number of records, and a wallet without a       *)
(* record contributes no power because it holds nothing.                       *)
IInv == TypeOK /\ IsFiniteSet(appointed) /\ CountExact /\ NoNewPowers

LEMMA InitEstablishes == Init => IInv
<1> SUFFICES ASSUME Init PROVE IInv
  OBVIOUS
<1>1. TypeOK
  <2>1. permissions \in [Wallets -> SUBSET V1Flags]
    BY Zenon DEF Init
  <2>2. \A w \in Wallets \ appointed : permissions[w] = {}
    BY DEF Init
  <2>3. delegateCount \in 0 .. MaxDelegates
    BY DelegatesAssumption DEF Init
  <2>4. /\ paused \in BOOLEAN /\ manager \in Wallets /\ signer \in Wallets
        /\ appointed \in SUBSET Wallets /\ restricted \in SUBSET appointed
        /\ ceiling \in SUBSET V1Flags
    BY Zenon DEF Init
  <2> QED
    BY <2>1, <2>2, <2>3, <2>4 DEF TypeOK
<1>2. IsFiniteSet(appointed) /\ CountExact
  BY FS_EmptySet DEF Init, CountExact
<1>3. NoNewPowers
  BY DEF Init, NoNewPowers, Powers
<1> QED
  BY <1>1, <1>2, <1>3 DEF IInv

(* What any signer writes into a record is within the powers there are, unless *)
(* the manager signs.                                                          *)
LEMMA GrantIsContained ==
  ASSUME NEW s \in Wallets, NEW w \in Wallets, NEW flags, TypeOK, NoNewPowers,
         s # manager => flags \subseteq Powers,
         permissions' = [permissions EXCEPT ![w] = flags],
         Record(s)
  PROVE  NoNewPowers'
<1> DEFINE PowersAfter == UNION {permissions'[u] : u \in Wallets}
<1>1. CASE s = manager
  BY <1>1 DEF Record, NoNewPowers, Powers
<1>2. CASE s # manager
  <2>1. PowersAfter \subseteq Powers
    BY <1>2 DEF TypeOK, Powers
  <2>2. ceiling' = ceiling
    BY <1>2 DEF Record
  <2> QED
    BY <2>1, <2>2 DEF NoNewPowers, Powers
<1> QED
  BY <1>1, <1>2

(* A record that is not changed changes nothing of the powers.                 *)
LEMMA PowersKept ==
  ASSUME NEW s \in Wallets, NoNewPowers, UNCHANGED permissions, Record(s)
  PROVE  NoNewPowers'
BY DEF NoNewPowers, Powers, Record

(* The ceiling is made of flags that exist.                                    *)
LEMMA CeilingType ==
  ASSUME NEW s \in Wallets, TypeOK, permissions' \in [Wallets -> SUBSET V1Flags],
         Record(s)
  PROVE  ceiling' \in SUBSET V1Flags /\ signer' \in Wallets
BY DEF TypeOK, Record

LEMMA AddDelegatePreserves ==
  ASSUME IInv, NEW s \in Wallets, NEW w \in Wallets, NEW flags \in SUBSET Flags,
         NEW r \in BOOLEAN, AddDelegate(s, w, flags, r)
  PROVE  IInv'
<1> USE DEF IInv
<1>1. permissions' \in [Wallets -> SUBSET V1Flags]
  BY DEF AddDelegate, TypeOK, Valid
<1>2. ceiling' \in SUBSET V1Flags /\ signer' \in Wallets
  BY <1>1, CeilingType DEF AddDelegate
<1>3. /\ appointed' = appointed \cup {w} /\ w \notin appointed
      /\ delegateCount' = delegateCount + 1 /\ delegateCount < MaxDelegates
  BY DEF AddDelegate
<1>4. TypeOK'
  <2>1. paused' \in BOOLEAN /\ manager' \in Wallets
    BY DEF AddDelegate, TypeOK
  <2>2. appointed' \in SUBSET Wallets /\ restricted' \in SUBSET appointed'
    BY DEF AddDelegate, TypeOK
  <2>3. \A u \in Wallets \ appointed' : permissions'[u] = {}
    BY <1>3 DEF AddDelegate, TypeOK
  <2>4. delegateCount' \in 0 .. MaxDelegates
    BY <1>3, DelegatesAssumption DEF TypeOK
  <2> QED
    BY <1>1, <1>2, <2>1, <2>2, <2>3, <2>4 DEF TypeOK
<1>5. IsFiniteSet(appointed') /\ CountExact'
  BY <1>3, FS_AddElement DEF CountExact
<1>6. s # manager => flags \subseteq Powers
  BY DEF AddDelegate, MayEdit, MayGrant, Powers
<1>7. NoNewPowers'
  BY <1>6, GrantIsContained DEF AddDelegate
<1> QED
  BY <1>4, <1>5, <1>7

LEMMA UpdateDelegatePermissionsPreserves ==
  ASSUME IInv, NEW s \in Wallets, NEW w \in Wallets, NEW flags \in SUBSET Flags,
         UpdateDelegatePermissions(s, w, flags)
  PROVE  IInv'
<1> USE DEF IInv
<1>1. permissions' \in [Wallets -> SUBSET V1Flags]
  BY DEF UpdateDelegatePermissions, TypeOK, Valid
<1>2. ceiling' \in SUBSET V1Flags /\ signer' \in Wallets
  BY <1>1, CeilingType DEF UpdateDelegatePermissions
<1>3. TypeOK'
  BY <1>1, <1>2 DEF UpdateDelegatePermissions, TypeOK
<1>4. IsFiniteSet(appointed') /\ CountExact'
  BY DEF UpdateDelegatePermissions, CountExact
<1>5. s # manager => flags \subseteq Powers
  BY DEF UpdateDelegatePermissions, MayEdit, MayGrant, Powers
<1>6. NoNewPowers'
  BY <1>5, GrantIsContained DEF UpdateDelegatePermissions
<1> QED
  BY <1>3, <1>4, <1>6

LEMMA RemoveDelegatePreserves ==
  ASSUME IInv, NEW s \in Wallets, NEW w \in Wallets, RemoveDelegate(s, w)
  PROVE  IInv'
<1> USE DEF IInv
<1>1. permissions' \in [Wallets -> SUBSET V1Flags]
  BY DEF RemoveDelegate, TypeOK
<1>2. ceiling' \in SUBSET V1Flags /\ signer' \in Wallets
  BY <1>1, CeilingType DEF RemoveDelegate
<1>3. /\ appointed' = appointed \ {w} /\ w \in appointed
      /\ delegateCount' = delegateCount - 1 /\ delegateCount > 0
  BY DEF RemoveDelegate, CountAfterRemoval
<1>4. TypeOK'
  <2>1. paused' \in BOOLEAN /\ manager' \in Wallets
    BY DEF RemoveDelegate, TypeOK
  <2>2. appointed' \in SUBSET Wallets /\ restricted' \in SUBSET appointed'
    BY DEF RemoveDelegate, TypeOK
  <2>3. \A u \in Wallets \ appointed' : permissions'[u] = {}
    BY DEF RemoveDelegate, TypeOK
  <2>4. delegateCount' \in 0 .. MaxDelegates
    BY <1>3, DelegatesAssumption DEF TypeOK
  <2> QED
    BY <1>1, <1>2, <2>1, <2>2, <2>3, <2>4 DEF TypeOK
<1>5. IsFiniteSet(appointed') /\ CountExact'
  BY <1>3, FS_RemoveElement DEF CountExact
<1>6. NoNewPowers'
  BY GrantIsContained DEF RemoveDelegate
<1> QED
  BY <1>4, <1>5, <1>6

(* The instructions that leave the records alone.                              *)
LEMMA OthersPreserve ==
  ASSUME IInv, NEW s \in Wallets,
         \/ PauseReserve(s) \/ UnpauseReserve(s)
         \/ \E w \in Wallets : TransferReserveManager(s, w)
  PROVE  IInv'
<1> USE DEF IInv
<1>1. /\ UNCHANGED <<appointed, permissions, restricted, delegateCount>>
      /\ Record(s) /\ paused' \in BOOLEAN /\ manager' \in Wallets
  BY DEF PauseReserve, UnpauseReserve, TransferReserveManager, TypeOK
<1>2. ceiling' \in SUBSET V1Flags /\ signer' \in Wallets
  BY <1>1, CeilingType DEF TypeOK
<1>3. TypeOK'
  BY <1>1, <1>2 DEF TypeOK
<1>4. IsFiniteSet(appointed') /\ CountExact'
  BY <1>1 DEF CountExact
<1>5. NoNewPowers'
  BY <1>1, PowersKept
<1> QED
  BY <1>3, <1>4, <1>5

LEMMA NextPreserves == IInv /\ [Next]_vars => IInv'
<1> SUFFICES ASSUME IInv, [Next]_vars PROVE IInv'
  OBVIOUS
<1>1. CASE UNCHANGED vars
  BY <1>1 DEF vars, IInv, TypeOK, CountExact, NoNewPowers, Powers
<1>2. CASE Next
  <2>1. PICK s \in Wallets :
          \/ PauseReserve(s) \/ UnpauseReserve(s)
          \/ \E w \in Wallets : TransferReserveManager(s, w)
          \/ \E w \in Wallets : RemoveDelegate(s, w)
          \/ \E w \in Wallets, flags \in SUBSET Flags :
               UpdateDelegatePermissions(s, w, flags)
          \/ \E w \in Wallets, flags \in SUBSET Flags, r \in BOOLEAN :
               AddDelegate(s, w, flags, r)
    BY <1>2, Zenon DEF Next
  <2> QED
    BY <2>1, OthersPreserve, RemoveDelegatePreserves, AddDelegatePreserves,
       UpdateDelegatePermissionsPreserves
<1> QED
  BY <1>1, <1>2

LEMMA Invariance == Spec => []IInv
BY InitEstablishes, NextPreserves, PTL DEF Spec

-----------------------------------------------------------------------------
(* No record ever holds a reserved bit and the count never leaves its range.   *)
THEOREM DelegatesTypeCorrect == Spec => []TypeOK
BY Invariance, PTL DEF IInv

(* delegate_count is the number of Delegate accounts.                          *)
THEOREM DelegateCountIsExact == Spec => []CountExact
BY Invariance, PTL DEF IInv

(* No chain of grants among delegates yields a flag none of them held when a   *)
(* manager last signed.                                                        *)
THEOREM DelegatesGainNoPowers == Spec => []NoNewPowers
BY Invariance, PTL DEF IInv

(* Only a manager makes, changes or unmakes an unrestricted delegate.          *)
THEOREM UnrestrictedDelegatesStand == Spec => UnrestrictedStand
<1> DEFINE Stand == signer' # manager =>
             /\ appointed' \ restricted' = appointed \ restricted
             /\ \A w \in appointed \ restricted : permissions'[w] = permissions[w]
<1>1. IInv /\ [Next]_vars => [Stand]_vars
  <2> SUFFICES ASSUME IInv, Next PROVE Stand
    OBVIOUS
  <2> USE DEF IInv, TypeOK
  <2>1. ASSUME NEW s \in Wallets,
               \/ PauseReserve(s) \/ UnpauseReserve(s)
               \/ \E w \in Wallets : TransferReserveManager(s, w)
        PROVE  Stand
    BY <2>1 DEF PauseReserve, UnpauseReserve, TransferReserveManager
  <2>2. ASSUME NEW s \in Wallets, NEW w \in Wallets, RemoveDelegate(s, w)
        PROVE  Stand
    BY <2>2 DEF RemoveDelegate, MayEdit, Record
  <2>3. ASSUME NEW s \in Wallets, NEW w \in Wallets, NEW flags \in SUBSET Flags,
               UpdateDelegatePermissions(s, w, flags)
        PROVE  Stand
    BY <2>3 DEF UpdateDelegatePermissions, MayEdit, Record
  <2>4. ASSUME NEW s \in Wallets, NEW w \in Wallets, NEW flags \in SUBSET Flags,
               NEW r \in BOOLEAN, AddDelegate(s, w, flags, r)
        PROVE  Stand
    BY <2>4 DEF AddDelegate, MayEdit, Record
  <2> QED
    BY <2>1, <2>2, <2>3, <2>4 DEF Next
<1> QED
  BY <1>1, Invariance, PTL DEF Spec, UnrestrictedStand
=============================================================================
