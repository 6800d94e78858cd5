------------------------------ MODULE Delegates ------------------------------
(* Who may do what to one Reserve: its manager, and the delegates with their   *)
(* permission flags.  Delegates with the right flag appoint, change and remove *)
(* others, so a power may travel through a chain of them, and the records      *)
(* outlive a change of manager.                                                *)
EXTENDS Integers, FiniteSets

CONSTANTS
  Wallets,
  V1Flags,        \* permission_flags::ALL_V1_FLAGS
  ReservedFlags,  \* the bits above them
  MaxDelegates,   \* u8::MAX, where delegate_count would overflow
  AddRestricted, RemoveRestricted, Pause, Unpause  \* four of the flags

ASSUME DelegatesAssumption ==
  /\ {AddRestricted, RemoveRestricted, Pause, Unpause} \subseteq V1Flags
  /\ MaxDelegates \in Nat

VARIABLES
  paused,         \* Reserve.status is Paused
  manager,        \* Reserve.manager
  appointed,      \* the wallets with a Delegate account
  permissions,    \* Delegate.permissions, {} where there is no account
  restricted,     \* the wallets whose Delegate.restricted is set
  delegateCount,  \* Reserve.delegate_count
  signer,         \* history: who signed the last instruction
  ceiling         \* history: the flags held by anyone when a manager last signed

vars == <<paused, manager, appointed, permissions, restricted, delegateCount,
          signer, ceiling>>

Flags  == V1Flags \cup ReservedFlags
Powers == UNION {permissions[w] : w \in Wallets}

(* create_reserve makes its signer the manager.                                *)
Init ==
  /\ paused = FALSE /\ manager \in Wallets /\ signer = manager
  /\ appointed = {} /\ restricted = {} /\ delegateCount = 0 /\ ceiling = {}
  /\ permissions = [w \in Wallets |-> {}]

-----------------------------------------------------------------------------
(* Faults: reserved bits are accepted; a grant is not compared with what the   *)
(* granter holds; the restricted flag of the record is not looked at.          *)
AnyPermissions(flags) == TRUE
GrantsAnything(s, w, flags) == TRUE
HoldsOnly(s, isRestricted, flag) == s = manager \/ flag \in permissions[s]

Valid(flags) == flags \subseteq V1Flags

(* require_reserve_permission; a wallet without an account has no flags.       *)
Holds(s, flag) == s = manager \/ flag \in permissions[s]

(* require_grantable_permissions: no more than the granter holds, and not to   *)
(* itself.                                                                     *)
MayGrant(s, w, flags) == s = manager \/ (s # w /\ flags \subseteq permissions[s])

(* A restricted record needs the flag, an unrestricted one the manager.        *)
MayEdit(s, isRestricted, flag) ==
  IF isRestricted THEN Holds(s, flag) ELSE s = manager

Record(s) ==
  /\ signer' = s
  /\ ceiling' = IF s = manager THEN UNION {permissions'[w] : w \in Wallets}
                               ELSE ceiling

AddDelegate(s, w, flags, isRestricted) ==
  /\ ~paused /\ Valid(flags)
  /\ MayEdit(s, isRestricted, AddRestricted)
  /\ isRestricted => MayGrant(s, w, flags)
  /\ w \notin appointed /\ delegateCount < MaxDelegates
  /\ appointed' = appointed \cup {w}
  /\ permissions' = [permissions EXCEPT ![w] = flags]
  /\ restricted' = IF isRestricted THEN restricted \cup {w} ELSE restricted
  /\ delegateCount' = delegateCount + 1
  /\ UNCHANGED <<paused, manager>>
  /\ Record(s)

UpdateDelegatePermissions(s, w, flags) ==
  /\ ~paused /\ Valid(flags)
  /\ w \in appointed
  /\ MayEdit(s, w \in restricted, AddRestricted)
  /\ w \in restricted => MayGrant(s, w, flags)
  /\ permissions' = [permissions EXCEPT ![w] = flags]
  /\ UNCHANGED <<paused, manager, appointed, restricted, delegateCount>>
  /\ Record(s)

(* Fault: the count is left as it was.                                         *)
CountKept == delegateCount
CountAfterRemoval == delegateCount - 1

(* Not refused while the Reserve is paused.                                    *)
RemoveDelegate(s, w) ==
  /\ w \in appointed
  /\ MayEdit(s, w \in restricted, RemoveRestricted)
  /\ delegateCount > 0
  /\ appointed' = appointed \ {w}
  /\ permissions' = [permissions EXCEPT ![w] = {}]
  /\ restricted' = restricted \ {w}
  /\ delegateCount' = CountAfterRemoval
  /\ UNCHANGED <<paused, manager>>
  /\ Record(s)

(* The delegates' records stay as they are.                                    *)
TransferReserveManager(s, w) ==
  /\ s = manager /\ manager' = w
  /\ UNCHANGED <<paused, appointed, permissions, restricted, delegateCount>>
  /\ Record(s)

PauseReserve(s) ==
  /\ Holds(s, Pause) /\ ~paused /\ paused' = TRUE
  /\ UNCHANGED <<manager, appointed, permissions, restricted, delegateCount>>
  /\ Record(s)

UnpauseReserve(s) ==
  /\ Holds(s, Unpause) /\ paused /\ paused' = FALSE
  /\ UNCHANGED <<manager, appointed, permissions, restricted, delegateCount>>
  /\ Record(s)

Next ==
  \E s \in Wallets :
    \/ PauseReserve(s) \/ UnpauseReserve(s)
    \/ \E w \in Wallets :
         \/ RemoveDelegate(s, w) \/ TransferReserveManager(s, w)
         \/ \E flags \in SUBSET Flags :
              \/ UpdateDelegatePermissions(s, w, flags)
              \/ \E r \in BOOLEAN : AddDelegate(s, w, flags, r)

Spec == Init /\ [][Next]_vars

-----------------------------------------------------------------------------
(* Properties.                                                                 *)

(* No record holds a reserved bit, a wallet without a record holds nothing,    *)
(* and the count is a u8.                                                      *)
TypeOK ==
  /\ paused \in BOOLEAN /\ manager \in Wallets /\ signer \in Wallets
  /\ appointed \in SUBSET Wallets /\ restricted \in SUBSET appointed
  /\ permissions \in [Wallets -> SUBSET V1Flags]
  /\ \A w \in Wallets \ appointed : permissions[w] = {}
  /\ delegateCount \in 0 .. MaxDelegates /\ ceiling \in SUBSET V1Flags

(* "for discovery/UI": the Reserve's count is the number of records.           *)
CountExact == delegateCount = Cardinality(appointed)

(* Whatever delegates grant each other along a chain, remove and appoint       *)
(* again, together they hold no flag that none of them held when a manager     *)
(* last signed.                                                                *)
NoNewPowers == Powers \subseteq ceiling

(* Delegates neither make nor unmake an unrestricted record, nor change what   *)
(* it may do, whatever flags they hold.                                        *)
UnrestrictedStand ==
  [][signer' # manager =>
       /\ appointed' \ restricted' = appointed \ restricted
       /\ \A w \in appointed \ restricted : permissions'[w] = permissions[w]]_vars
=============================================================================
