------------------------ MODULE ReserveLaunch_proofs ------------------------
(***************************************************************************)
(* Proofs about ReserveLaunch, for every basket, every number of faults    *)
(* and every order of landings: its types, that a success is only ever     *)
(* shown for an Active Reserve, that no failure drops the marker of a      *)
(* half-built one, that registration leaves no gap, that the seeding gate  *)
(* never refuses what funding let through, and that a launch keeps what it *)
(* is going to seed.                                                       *)
(***************************************************************************)
EXTENDS ReserveLaunch, FiniteSetTheorems, TLAPS

(***************************************************************************)
(* What the two invariants need besides themselves.                        *)
(***************************************************************************)
\* A Reserve account has a status, and it is past "created" once it has assets.
Accounts ==
    \A i \in 1..count :
        /\ reserves[i].status # "none"
        /\ reserves[i].status = "created" => reserves[i].registered = {}

\* Past this point a Reserve never goes back.
Begun(i) == i \in 1..count /\ reserves[i].status \in {"assetsInitializing", "active"}

\* Where the page is says which of its locals are in use.
Places ==
    /\ pc \in {"send", "batch", "seed", "seeding", "exists", "check", "resume", "refund", "final"}
          => target >= 1
    /\ mode = "none" <=> pc \in {"form", "panel", "recovering", "blocked", "done"}
    /\ pc \in {"resume", "refund", "final"} => mode = "resume"
    /\ mode = "resume" \/ pc = "panel" => panel.id >= 1
    /\ pc = "recovering" => marker.id >= 1
    /\ pc \in {"sign", "swap"} => cur \in 1..N
    /\ pc = "fund" => cur >= 1
    /\ pc \in {"send", "batch"} /\ mode = "resume" => cur >= 0 /\ cur < N
    /\ pc \in {"swap", "batch", "seeding"} => wait \in 1..sent

\* A resume funds and seeds a Reserve whose registration is behind it.
Resumes ==
    \/ pc \in {"refund", "final"}
    \/ mode = "resume" /\ pc \in {"fund", "sign", "swap", "seed"}
    => Begun(target)

\* What the transaction a job is waiting for did, or will do, to its target.
Awaits ==
    /\ pc = "batch" /\ mode = "resume" =>
          /\ txs[wait].st = "flying" =>
                txs[wait].kind = "batch" /\ txs[wait].id = target /\ txs[wait].range # {}
          /\ txs[wait].st = "landed" => Begun(target)
    /\ pc = "seeding" =>
          /\ txs[wait].st = "flying" => txs[wait].kind = "seed" /\ txs[wait].id = target
          /\ txs[wait].st = "landed" => Active(target)

IInv == TypeOK /\ Accounts /\ Places /\ Resumes /\ Awaits /\ ReportedActive

(***************************************************************************)
(* Types of the helpers.                                                   *)
(***************************************************************************)
LEMMA ConstantsAreNat ==
    /\ N \in Nat /\ N >= 1 /\ BatchSize \in Nat /\ BatchSize >= 1
    /\ SlippageSteps \in Nat /\ SlippageSteps >= 1 /\ MaxTx \in Nat /\ MaxTx >= 1
    /\ MaxReserves \in Nat /\ MaxReserves >= 1 /\ MaxFaults \in Nat /\ MaxForeign \in Nat
BY LaunchAssumption

LEMMA FreshIsRecord == Fresh \in FundingRecord /\ NoDeploy \in Deploy /\ NoAmounts \in Amounts
<1>1. Fresh \in FundingRecord
  BY ConstantsAreNat DEF Fresh, FundingRecord, Statuses, FundingOrder
<1> QED
  BY <1>1, ConstantsAreNat DEF NoDeploy, Deploy, NoAmounts, Amounts

LEMMA AdvanceKeepsRecord ==
    ASSUME NEW f \in FundingRecord, NEW a \in Assets, NEW to \in Statuses, NEW sig \in 0..MaxTx
    PROVE  Advance(f, a, to, sig) \in FundingRecord
BY ConstantsAreNat DEF Advance, FundingRecord

LEMMA QuoteKeepsRecord ==
    ASSUME NEW f \in FundingRecord, cur \in Assets
    PROVE  QuoteAsset(f) \in FundingRecord
BY AdvanceKeepsRecord, ConstantsAreNat DEF QuoteAsset, Statuses, FundingOrder

LEMMA SetFundingTypes ==
    ASSUME TypeOK, NEW f \in FundingRecord, SetFunding(f)
    PROVE  /\ funding' \in FundingRecord /\ mem' \in FundingRecord /\ marker' \in Deploy
           /\ marker'.id = marker.id
BY DEF SetFunding, TypeOK, RecordsOK, Deploy

LEMMA MissedCounts ==
    ASSUME faults \in 0..MaxFaults, NEW m \in Missed
    PROVE  faults + Cardinality(m) \in 0..MaxFaults
<1>1. m = {} \/ (faults < MaxFaults /\ \E a \in Assets : m = {a})
  BY DEF Missed
<1>2. CASE m = {}
  BY <1>2, FS_EmptySet
<1>3. CASE faults < MaxFaults /\ \E a \in Assets : m = {a}
  <2>1. Cardinality(m) = 1
    BY <1>3, FS_Singleton
  <2> QED
    BY <1>3, <2>1, ConstantsAreNat
<1> QED
  BY <1>1, <1>2, <1>3

(***************************************************************************)
(* The cluster's steps.                                                    *)
(***************************************************************************)
\* Whatever happens on the chain, a Reserve does not go back.
Grows ==
    /\ \A i : Begun(i) => Begun(i)'
    /\ \A i : Active(i) => Active(i)'

LEMMA SwapKeeps ==
    ASSUME TypeOK, Accounts, NEW tx \in Tx, SwapEffect(tx)
    PROVE  /\ count' = count /\ reserves' = reserves
           /\ held' \in Amounts /\ swapped' \in Amounts
<1>1. \A f \in Amounts : \A a : [f EXCEPT ![a] = @ + 1] \in Amounts
  <2> SUFFICES ASSUME NEW f \in Amounts, NEW a PROVE [f EXCEPT ![a] = @ + 1] \in Amounts
    OBVIOUS
  <2>1. CASE a \in Assets
    BY <2>1 DEF Amounts
  <2>2. CASE a \notin Assets
    <3>1. [f EXCEPT ![a] = @ + 1] = f
      BY <2>2, Zenon DEF Amounts
    <3> QED
      BY <3>1
  <2> QED
    BY <2>1, <2>2
<1> QED
  BY <1>1 DEF SwapEffect, TypeOK, ChainOK

LEMMA BatchKeeps ==
    ASSUME TypeOK, Accounts, NEW tx \in Tx, Applies(tx), BatchEffect(tx)
    PROVE  /\ count' \in 0..MaxReserves /\ reserves' \in [1..MaxReserves -> Account]
           /\ held' = held /\ swapped' = swapped
           /\ Accounts' /\ Grows
           /\ tx.range # {} => Begun(tx.id)'
<1> DEFINE r == IF tx.create THEN [owner |-> "me", registered |-> {}, status |-> "created"]
                             ELSE reserves[tx.id]
<1>1. /\ tx.kind = "batch" /\ count' = IF tx.create THEN count + 1 ELSE count
      /\ reserves' = [reserves EXCEPT ![tx.id] = Registered(r, tx.range)]
      /\ held' = held /\ swapped' = swapped
  BY DEF BatchEffect
<1>2. /\ count \in 0..MaxReserves /\ reserves \in [1..MaxReserves -> Account] /\ tx.range \in SUBSET Assets
      /\ MaxReserves \in Nat /\ N \in Nat
  BY ConstantsAreNat DEF TypeOK, ChainOK, Tx
<1>3. \/ tx.create /\ tx.id = count + 1 /\ count < MaxReserves
      \/ ~tx.create /\ tx.id \in 1..count /\ reserves[tx.id].status \in Unseeded
  BY <1>1 DEF Applies, HalfBuilt, Mine
<1>4. tx.id \in 1..MaxReserves /\ tx.id \in 1..count' /\ count' \in 0..MaxReserves /\ count <= count'
  BY <1>1, <1>2, <1>3
<1>5. r \in Account /\ (tx.create => r.registered = {} /\ r.status = "created")
      /\ r.status # "none" /\ (r.status = "created" => r.registered = {}) /\ r.status # "active"
      /\ (~tx.create => r = reserves[tx.id])
  BY <1>2, <1>3, <1>4 DEF Account, Accounts, Unseeded
<1> HIDE DEF r
<1>6. Registered(r, tx.range) \in Account
  <2>1. r.registered \cup tx.range \in SUBSET (1..N + 1)
    BY <1>2, <1>5 DEF Account, Assets
  <2> QED
    BY <1>5, <2>1 DEF Registered, Account
<1>7. /\ Registered(r, tx.range).status # "none"
      /\ Registered(r, tx.range).status = "created" => Registered(r, tx.range).registered = {}
      /\ tx.range # {} => Registered(r, tx.range).status = "assetsInitializing"
      /\ r.status = "assetsInitializing" => Registered(r, tx.range).status = "assetsInitializing"
  BY <1>5 DEF Registered, Account
<1>8. reserves' \in [1..MaxReserves -> Account]
  BY <1>1, <1>2, <1>6
<1>9. reserves'[tx.id] = Registered(r, tx.range) /\ \A i \in 1..MaxReserves : i # tx.id => reserves'[i] = reserves[i]
  BY <1>1, <1>2, <1>4
<1>10. Accounts'
  BY <1>1, <1>2, <1>3, <1>4, <1>7, <1>9 DEF Accounts
<1>11. Grows
  <2>1. ASSUME NEW i, Begun(i) PROVE Begun(i)'
    <3>1. CASE i = tx.id
      BY <2>1, <3>1, <1>2, <1>3, <1>4, <1>5, <1>7, <1>9 DEF Begun
    <3>2. CASE i # tx.id
      BY <2>1, <3>2, <1>2, <1>4, <1>9 DEF Begun
    <3> QED
      BY <3>1, <3>2
  <2>2. ASSUME NEW i, Active(i) PROVE Active(i)'
    BY <2>2, <1>1, <1>2, <1>3, <1>4, <1>9 DEF Active, Unseeded
  <2> QED
    BY <2>1, <2>2 DEF Grows
<1>12. tx.range # {} => Begun(tx.id)'
  BY <1>4, <1>7, <1>9 DEF Begun
<1> QED
  BY <1>1, <1>4, <1>8, <1>10, <1>11, <1>12

LEMMA SeedKeeps ==
    ASSUME TypeOK, Accounts, NEW tx \in Tx, Applies(tx), SeedEffect(tx)
    PROVE  /\ count' \in 0..MaxReserves /\ reserves' \in [1..MaxReserves -> Account]
           /\ held' \in Amounts /\ swapped' = swapped
           /\ Accounts' /\ Grows /\ Active(tx.id)'
<1>1. /\ HalfBuilt(tx.id) /\ SeedFits(tx) /\ count' = count /\ swapped' = swapped
      /\ held' = [a \in Assets |-> held[a] - tx.amt[a]]
      /\ reserves' = [reserves EXCEPT ![tx.id].status = "active"]
  BY DEF SeedEffect, Applies
<1>2. /\ count \in 0..MaxReserves /\ reserves \in [1..MaxReserves -> Account]
      /\ held \in Amounts /\ tx.amt \in Amounts /\ MaxReserves \in Nat /\ N \in Nat
  BY ConstantsAreNat DEF TypeOK, ChainOK, Tx
<1>3. tx.id \in 1..count /\ tx.id \in 1..MaxReserves
  BY <1>1, <1>2 DEF HalfBuilt, Mine
<1>4. \A a \in Assets : held[a] - tx.amt[a] \in Nat
  BY <1>1, <1>2 DEF SeedFits, Amounts
<1>5. held' \in Amounts
  BY <1>1, <1>4 DEF Amounts
<1>6. reserves' \in [1..MaxReserves -> Account]
  BY <1>1, <1>2, <1>3 DEF Account
<1>7. reserves'[tx.id].status = "active" /\ \A i \in 1..MaxReserves : i # tx.id => reserves'[i] = reserves[i]
  BY <1>1, <1>2, <1>3 DEF Account
<1>8. Accounts'
  BY <1>1, <1>2, <1>7 DEF Accounts
<1>9. Grows /\ Active(tx.id)'
  <2>1. ASSUME NEW i, Begun(i) PROVE Begun(i)'
    BY <2>1, <1>1, <1>2, <1>7 DEF Begun
  <2>2. ASSUME NEW i, Active(i) PROVE Active(i)'
    BY <2>2, <1>1, <1>2, <1>7 DEF Active
  <2> QED
    BY <2>1, <2>2, <1>1, <1>3, <1>7 DEF Grows, Active
<1> QED
  BY <1>1, <1>2, <1>5, <1>6, <1>8, <1>9

\* A step that leaves the page alone keeps all that is said about the page.
LEMMA ElsewhereKeeps ==
    ASSUME IInv, UNCHANGED <<disk, page, outcome, sent>>, ChainOK', Accounts', Awaits', Grows,
           faults' \in 0..MaxFaults, foreign' \in 0..MaxForeign
    PROVE  IInv'
<1> USE DEF disk, page, job, outcome
<1>1. TypeOK'
  BY DEF IInv, TypeOK, RecordsOK, JobOK, OutcomeOK, Deploy
<1>2. Places'
  BY DEF IInv, Places
<1>3. Resumes'
  BY DEF IInv, Resumes, Grows
<1>4. ReportedActive'
  BY DEF IInv, ReportedActive, Grows
<1> QED
  BY <1>1, <1>2, <1>3, <1>4 DEF IInv

LEMMA NoTxType == NoTx \in Tx
<1>1. 0 \in 0..N /\ 0 \in 0..MaxReserves + 1 /\ NoAmounts \in Amounts /\ {} \in SUBSET Assets
  BY FreshIsRecord, ConstantsAreNat
<1> QED
  BY <1>1, Zenon DEF Tx, NoTx

\* A transaction that ends leaves the others as they are.
LEMMA EndsKeeps ==
    ASSUME ChainOK, NEW t \in 1..MaxTx, NEW st \in {"landed", "failed"}, Ends(t, st)
    PROVE  /\ txs' \in [1..MaxTx -> Tx] /\ txs'[t].st = st
           /\ \A u \in 1..MaxTx : u # t => txs'[u] = txs[u]
<1> DEFINE ended == [NoTx EXCEPT !.st = st]
<1>3. ended \in Tx /\ ended.st = st
  BY NoTxType DEF Tx
<1> HIDE DEF ended
<1>4. txs' = [txs EXCEPT ![t] = ended]
  BY Zenon DEF Ends, ended
<1> QED
  BY <1>3, <1>4 DEF ChainOK

\* A job's transaction that lands does to its target what the job expects.
LEMMA AwaitsLanding ==
    ASSUME IInv, NEW t \in 1..MaxTx, NEW tx, tx = txs[t], tx.st = "flying", Ends(t, "landed"), Grows,
           UNCHANGED <<disk, page, outcome, sent>>,
           tx.kind = "batch" /\ tx.range # {} => Begun(tx.id)',
           tx.kind = "seed" => Active(tx.id)'
    PROVE  Awaits'
<1> USE DEF disk, page, job, outcome
<1>1. /\ txs'[t].st = "landed"
      /\ \A u \in 1..MaxTx : u # t => txs'[u] = txs[u]
  BY EndsKeeps DEF IInv, TypeOK
<1>2. pc \in {"batch", "seeding"} => wait \in 1..MaxTx
  BY ConstantsAreNat DEF IInv, Places, TypeOK, ChainOK
<1>3. CASE wait = t
  BY <1>1, <1>3 DEF IInv, Awaits, Begun, Active
<1>4. CASE wait # t
  BY <1>1, <1>2, <1>4 DEF IInv, Awaits, Grows
<1> QED
  BY <1>3, <1>4

LEMMA AwaitsFailure ==
    ASSUME IInv, NEW t \in 1..MaxTx, Ends(t, "failed"), UNCHANGED <<count, reserves, disk, page, outcome, sent>>
    PROVE  Awaits'
<1> USE DEF disk, page, job, outcome
<1>1. /\ txs'[t].st = "failed"
      /\ \A u \in 1..MaxTx : u # t => txs'[u] = txs[u]
  BY EndsKeeps DEF IInv, TypeOK
<1>2. pc \in {"batch", "seeding"} => wait \in 1..MaxTx
  BY ConstantsAreNat DEF IInv, Places, TypeOK, ChainOK
<1>3. CASE wait = t
  BY <1>1, <1>3 DEF IInv, Awaits
<1>4. CASE wait # t
  BY <1>1, <1>2, <1>4 DEF IInv, Awaits, Begun, Active
<1> QED
  BY <1>3, <1>4

LEMMA SameReserves ==
    ASSUME ChainOK, Accounts, UNCHANGED <<count, reserves>>
    PROVE  Accounts' /\ Grows
BY DEF Accounts, Grows, Begun, Active

LEMMA LandKeeps == ASSUME IInv, NEW t \in 1..MaxTx, Land(t) PROVE IInv'
<1>0. PICK tx : tx = txs[t]
  OBVIOUS
<1>1. /\ TypeOK /\ Accounts /\ ChainOK /\ tx \in Tx /\ tx.st = "flying"
      /\ UNCHANGED <<disk, page, outcome, sent>> /\ faults' \in 0..MaxFaults /\ foreign' \in 0..MaxForeign
  BY <1>0 DEF IInv, TypeOK, ChainOK, OutcomeOK, Land, Flying, Elsewhere
<1>2. CASE Applies(tx) /\ Ends(t, "landed") /\ SwapEffect(tx)
  <2>1. /\ count' = count /\ reserves' = reserves /\ held' \in Amounts /\ swapped' \in Amounts
    BY <1>1, <1>2, SwapKeeps
  <2>2. ChainOK' /\ Accounts' /\ Grows
    BY <1>1, <1>2, <2>1, SameReserves, EndsKeeps DEF ChainOK
  <2>3. Awaits'
    BY <1>0, <1>1, <1>2, <2>2, AwaitsLanding DEF SwapEffect
  <2> QED
    BY <1>1, <2>2, <2>3, ElsewhereKeeps
<1>3. CASE Applies(tx) /\ Ends(t, "landed") /\ BatchEffect(tx)
  <2>1. /\ count' \in 0..MaxReserves /\ reserves' \in [1..MaxReserves -> Account]
        /\ held' = held /\ swapped' = swapped /\ Accounts' /\ Grows
        /\ tx.range # {} => Begun(tx.id)'
    BY <1>1, <1>3, BatchKeeps
  <2>2. ChainOK'
    BY <1>1, <1>3, <2>1, EndsKeeps DEF ChainOK
  <2>3. Awaits'
    BY <1>0, <1>1, <1>3, <2>1, AwaitsLanding DEF BatchEffect
  <2> QED
    BY <1>1, <2>1, <2>2, <2>3, ElsewhereKeeps
<1>4. CASE Applies(tx) /\ Ends(t, "landed") /\ SeedEffect(tx)
  <2>1. /\ count' \in 0..MaxReserves /\ reserves' \in [1..MaxReserves -> Account]
        /\ held' \in Amounts /\ swapped' = swapped /\ Accounts' /\ Grows /\ Active(tx.id)'
    BY <1>1, <1>4, SeedKeeps
  <2>2. ChainOK'
    BY <1>1, <1>4, <2>1, EndsKeeps DEF ChainOK
  <2>3. Awaits'
    BY <1>0, <1>1, <1>4, <2>1, AwaitsLanding DEF SeedEffect
  <2> QED
    BY <1>1, <2>1, <2>2, <2>3, ElsewhereKeeps
<1>5. CASE Ends(t, "failed") /\ UNCHANGED <<count, reserves, held, swapped>>
  <2>1. ChainOK' /\ Accounts' /\ Grows
    BY <1>1, <1>5, SameReserves, EndsKeeps DEF ChainOK
  <2>2. Awaits'
    BY <1>1, <1>5, AwaitsFailure
  <2> QED
    BY <1>1, <2>1, <2>2, ElsewhereKeeps
<1> QED
  BY <1>0, <1>2, <1>3, <1>4, <1>5 DEF Land

LEMMA SlipsKeeps == ASSUME IInv, NEW t \in 1..MaxTx, Slips(t) PROVE IInv'
<1>1. /\ Ends(t, "failed") /\ UNCHANGED <<count, reserves, held, swapped, sent, disk, page, outcome>>
      /\ ChainOK /\ Accounts
      /\ faults' \in 0..MaxFaults /\ foreign' \in 0..MaxForeign
  BY ConstantsAreNat DEF IInv, TypeOK, OutcomeOK, Slips, Fault, Elsewhere
<1>2. ChainOK' /\ Accounts' /\ Grows
  BY <1>1, SameReserves, EndsKeeps DEF ChainOK
<1>3. Awaits'
  BY <1>1, AwaitsFailure
<1> QED
  BY <1>1, <1>2, <1>3, ElsewhereKeeps

LEMMA PassKeeps == ASSUME IInv, NEW t \in 1..MaxTx, Pass(t) PROVE IInv'
<1>1. /\ txs' = [txs EXCEPT ![t].past = TRUE]
      /\ UNCHANGED <<count, reserves, held, swapped, sent, disk, page, outcome>>
      /\ ChainOK /\ Accounts
      /\ faults' \in 0..MaxFaults /\ foreign' \in 0..MaxForeign
  BY ConstantsAreNat DEF IInv, TypeOK, OutcomeOK, Pass, Fault, Elsewhere
<1>2. /\ txs' \in [1..MaxTx -> Tx]
      /\ \A u \in 1..MaxTx : /\ txs'[u].st = txs[u].st /\ txs'[u].kind = txs[u].kind
                             /\ txs'[u].id = txs[u].id /\ txs'[u].range = txs[u].range
  BY <1>1 DEF ChainOK, Tx
<1>3. ChainOK' /\ Accounts' /\ Grows
  BY <1>1, <1>2, SameReserves DEF ChainOK
<1>4. pc \in {"batch", "seeding"} => wait \in 1..MaxTx
  BY ConstantsAreNat DEF IInv, Places, TypeOK, ChainOK
<1>5. Awaits'
  BY <1>1, <1>2, <1>4 DEF IInv, Awaits, Begun, Active, page, job
<1> QED
  BY <1>1, <1>3, <1>5, ElsewhereKeeps

LEMMA ForeignReserveKeeps == ASSUME IInv, ForeignReserve PROVE IInv'
<1>1. PICK s \in {"assetsInitializing", "active"}, k \in 1..N + 1 :
          reserves' = [reserves EXCEPT ![count + 1] = [owner |-> "other", registered |-> 1..k, status |-> s]]
  BY DEF ForeignReserve
<1>2. /\ count < MaxReserves /\ count' = count + 1 /\ ChainOK /\ Accounts
      /\ UNCHANGED <<held, swapped, sent, txs, disk, page, outcome>>
      /\ faults' \in 0..MaxFaults /\ foreign' \in 0..MaxForeign
  BY ConstantsAreNat DEF IInv, TypeOK, OutcomeOK, ForeignReserve
<1>3. [owner |-> "other", registered |-> 1..k, status |-> s] \in Account
  BY ConstantsAreNat DEF Account
<1>4. /\ reserves' \in [1..MaxReserves -> Account] /\ count + 1 \in 1..MaxReserves
      /\ reserves'[count + 1].status = s
      /\ \A i \in 1..count : reserves'[i] = reserves[i]
  BY <1>1, <1>2, <1>3, ConstantsAreNat DEF ChainOK, Account
<1>5. ChainOK' /\ Accounts' /\ Grows
  BY <1>1, <1>2, <1>4, ConstantsAreNat DEF ChainOK, Accounts, Grows, Begun, Active
<1>6. Awaits'
  BY <1>2, <1>5 DEF IInv, Awaits, Grows, page, job
<1> QED
  BY <1>2, <1>5, <1>6, ElsewhereKeeps

(***************************************************************************)
(* The page's steps, by what they leave behind.                            *)
(***************************************************************************)
LEMMA FaultKeepsBound ==
    ASSUME IInv, Fault \/ UNCHANGED faults
    PROVE  faults' \in 0..MaxFaults
BY ConstantsAreNat DEF IInv, TypeOK, OutcomeOK, Fault

LEMMA IdleKeeps ==
    ASSUME IInv, Idle, RecordsOK', JobOK', faults' \in 0..MaxFaults, Places', Resumes', Awaits'
    PROVE  IInv'
<1>1. UNCHANGED <<count, reserves, held, swapped, sent, txs, reported, abandoned, foreign>>
  BY DEF Idle, chain, outcome
<1>2. ChainOK' /\ OutcomeOK'
  BY <1>1 DEF IInv, TypeOK, ChainOK, OutcomeOK
<1>3. Accounts' /\ ReportedActive'
  BY <1>1 DEF IInv, Accounts, ReportedActive, Active
<1> QED
  BY <1>2, <1>3 DEF IInv, TypeOK

LEMMA NoJobTypes ==
    ASSUME JobOver, pc' \in {"form", "panel", "recovering", "done"}
    PROVE  JobOK'
<1>1. /\ target' \in 0..MaxReserves + 1 /\ cur' \in -1..N + 1 /\ tries' \in 0..SlippageSteps
      /\ wait' \in 0..MaxTx
  BY ConstantsAreNat DEF JobOver
<1>2. funding' \in FundingRecord /\ snap' \in Amounts /\ amounts' \in Amounts
  BY FreshIsRecord DEF JobOver
<1>3. mode' = "none" /\ polled' \in BOOLEAN
  BY Zenon DEF JobOver
<1> QED
  BY <1>1, <1>2, <1>3 DEF JobOK

\* A job that is over leaves the form, the panel or the recovery read.
LEMMA JobOverKeeps ==
    ASSUME IInv, Idle, JobOver, RecordsOK', faults' \in 0..MaxFaults,
           pc' \in {"form", "panel", "recovering"},
           pc' = "panel" => panel'.id >= 1, pc' = "recovering" => marker'.id >= 1
    PROVE  IInv'
<1>1. JobOK'
  BY NoJobTypes
<1>2. Places' /\ Resumes' /\ Awaits'
  BY DEF JobOver, Places, Resumes, Awaits
<1> QED
  BY <1>1, <1>2, IdleKeeps

LEMMA SuccessKeeps ==
    ASSUME IInv, NEW i \in 0..MaxReserves + 1, i = target, Succeed(i), Active(i),
           draft' \in FundingRecord, faults' \in 0..MaxFaults
    PROVE  IInv'
<1>1. /\ UNCHANGED <<count, reserves, held, swapped, sent, txs, abandoned, foreign>>
      /\ pc' = "done" /\ reported' = i /\ marker' = NoDeploy /\ mem' = Fresh /\ panel' = NoDeploy
      /\ JobOver
  BY DEF Succeed, chain
<1>2. ChainOK' /\ Accounts'
  BY <1>1 DEF IInv, TypeOK, ChainOK, Accounts
<1>3. RecordsOK' /\ JobOK'
  BY <1>1, NoJobTypes, FreshIsRecord DEF RecordsOK
<1>4. OutcomeOK' /\ ReportedActive'
  BY <1>1, ConstantsAreNat DEF IInv, TypeOK, OutcomeOK, ChainOK, ReportedActive, Active
<1>5. Places' /\ Resumes' /\ Awaits'
  BY <1>1 DEF JobOver, Places, Resumes, Awaits
<1> QED
  BY <1>2, <1>3, <1>4, <1>5 DEF IInv, TypeOK

\* Complete is only what is Active: a Reserve has a status, and it has left
\* "created" when its assets are registered.
LEMMA CompleteIsActive ==
    ASSUME IInv, NEW i \in Nat, i >= 1, ResumePoint(i) = "complete"
    PROVE  Active(i)
<1>1. i \in 1..count /\ i \in 1..MaxReserves
  BY ConstantsAreNat DEF ResumePoint, IInv, TypeOK, ChainOK
<1>2. /\ Cardinality(reserves[i].registered) = N /\ reserves[i].status # "assetsInitializing"
  BY <1>1, Zenon DEF ResumePoint
<1>3. reserves[i].status # "created"
  BY <1>1, <1>2, FS_EmptySet, ConstantsAreNat DEF IInv, Accounts
<1>4. reserves[i].status \in {"none", "created", "assetsInitializing", "active"}
  BY <1>1 DEF IInv, TypeOK, ChainOK, Account
<1> QED
  BY <1>1, <1>2, <1>3, <1>4 DEF IInv, Accounts, Active

LEMMA CompleteSucceeds ==
    ASSUME IInv, target >= 1, ResumePoint(target) = "complete", Succeed(target), UNCHANGED <<draft, faults>>
    PROVE  IInv'
<1>1. /\ target \in 0..MaxReserves + 1 /\ target \in Nat /\ draft' \in FundingRecord
      /\ faults' \in 0..MaxFaults
  BY ConstantsAreNat DEF IInv, TypeOK, JobOK, RecordsOK, OutcomeOK
<1> QED
  BY <1>1, CompleteIsActive, SuccessKeeps

\* Past initialising, a Reserve that had begun is Active.
LEMMA BegunSucceeds ==
    ASSUME IInv, Begun(target), ~Initializing, Succeed(target), UNCHANGED <<draft, faults>>
    PROVE  IInv'
<1>1. /\ target \in 0..MaxReserves + 1 /\ draft' \in FundingRecord /\ faults' \in 0..MaxFaults
  BY ConstantsAreNat DEF IInv, TypeOK, JobOK, RecordsOK, OutcomeOK
<1>2. Active(target)
  BY DEF Begun, Initializing, Active
<1> QED
  BY <1>1, <1>2, SuccessKeeps

LEMMA SendsKeeps ==
    ASSUME IInv, NEW tx \in Tx, Sends(tx)
    PROVE  /\ ChainOK' /\ Accounts' /\ OutcomeOK' /\ ReportedActive'
           /\ UNCHANGED <<count, reserves>>
           /\ wait' \in 1..sent' /\ wait' \in 0..MaxTx /\ polled' = FALSE
           /\ txs'[wait'] = [tx EXCEPT !.st = "flying"]
<1>1. /\ sent < MaxTx /\ sent' = sent + 1 /\ wait' = sent + 1 /\ polled' = FALSE
      /\ txs' = [txs EXCEPT ![sent + 1] = [tx EXCEPT !.st = "flying"]]
      /\ UNCHANGED <<count, reserves, held, swapped, reported, abandoned, foreign, faults>>
  BY DEF Sends, outcome
<1>2. sent \in 0..MaxTx /\ MaxTx \in Nat /\ txs \in [1..MaxTx -> Tx]
  BY ConstantsAreNat DEF IInv, TypeOK, ChainOK
<1>3. [tx EXCEPT !.st = "flying"] \in Tx
  BY DEF Tx
<1>4. /\ txs' \in [1..MaxTx -> Tx] /\ sent' \in 0..MaxTx /\ wait' \in 1..sent' /\ wait' \in 0..MaxTx
      /\ txs'[wait'] = [tx EXCEPT !.st = "flying"]
  BY <1>1, <1>2, <1>3
<1>5. ChainOK' /\ OutcomeOK'
  BY <1>1, <1>4 DEF IInv, TypeOK, ChainOK, OutcomeOK
<1>6. Accounts' /\ ReportedActive'
  BY <1>1 DEF IInv, Accounts, ReportedActive, Active
<1> QED
  BY <1>1, <1>4, <1>5, <1>6

(***************************************************************************)
(* Steps that end a job.                                                   *)
(***************************************************************************)
LEMMA RecordTypes ==
    ASSUME IInv
    PROVE  /\ marker \in Deploy /\ panel \in Deploy /\ draft \in FundingRecord /\ mem \in FundingRecord
           /\ funding \in FundingRecord /\ marker.id \in Nat /\ panel.id \in Nat /\ target \in Nat
           /\ faults \in 0..MaxFaults
BY ConstantsAreNat DEF IInv, TypeOK, RecordsOK, JobOK, OutcomeOK, Deploy

LEMMA ShowPanelShows ==
    ASSUME IInv, ShowPanel
    PROVE  /\ panel' \in Deploy /\ pc' \in {"form", "panel"}
           /\ pc' = "panel" => panel'.id >= 1
BY RecordTypes, FreshIsRecord DEF ShowPanel, ShowForm

LEMMA BackFromJobShows ==
    ASSUME IInv, mode # "none", BackFromJob
    PROVE  /\ panel' \in Deploy /\ pc' \in {"form", "panel"}
           /\ pc' = "panel" => panel'.id >= 1
<1>1. mode = "launch" \/ panel.id >= 1
  BY DEF IInv, TypeOK, JobOK, Places
<1> QED
  BY <1>1, RecordTypes, ShowPanelShows DEF BackFromJob, StayInPanel

LEMMA RejectsKeeps == ASSUME IInv, Rejects PROVE IInv'
<1>1. /\ JobOver /\ Idle /\ UNCHANGED <<marker, draft, mem>> /\ faults' \in 0..MaxFaults
  BY FaultKeepsBound DEF Rejects, disk
<1>2. mode = "launch" \/ panel.id >= 1
  BY DEF IInv, TypeOK, JobOK, Places, Rejects
<1>3. /\ panel' \in Deploy /\ pc' \in {"form", "panel"}
      /\ pc' = "panel" => panel'.id >= 1
  BY <1>2, RecordTypes, FreshIsRecord DEF Rejects, ShowForm, StayInPanel
<1>4. RecordsOK'
  BY <1>1, <1>3, RecordTypes DEF RecordsOK
<1> QED
  BY <1>1, <1>3, <1>4, JobOverKeeps

LEMMA PreflightFailsKeeps == ASSUME IInv, PreflightFails PROVE IInv'
<1>1. /\ JobOver /\ Idle /\ UNCHANGED <<marker, draft, mem>> /\ faults' \in 0..MaxFaults
      /\ pc' = "form" /\ panel' = NoDeploy
  BY FaultKeepsBound DEF PreflightFails, disk, ShowForm
<1>2. RecordsOK'
  BY <1>1, RecordTypes, FreshIsRecord DEF RecordsOK
<1> QED
  BY <1>1, <1>2, JobOverKeeps

LEMMA ReconcilingKeeps == ASSUME IInv, Reconciling PROVE IInv'
<1>1. CASE ReserveExists
  <2>1. /\ JobOver /\ Idle /\ UNCHANGED <<marker, draft, mem>> /\ faults' \in 0..MaxFaults /\ ShowPanel
    BY <1>1, FaultKeepsBound DEF ReserveExists, disk
  <2>2. RecordsOK'
    BY <2>1, RecordTypes, ShowPanelShows DEF RecordsOK
  <2> QED
    BY <2>1, <2>2, ShowPanelShows, JobOverKeeps
<1>2. CASE ReserveMissing
  <2>1. /\ JobOver /\ Idle /\ UNCHANGED <<draft, mem>> /\ faults' \in 0..MaxFaults
        /\ pc' = "form" /\ panel' = NoDeploy /\ marker' = NoDeploy
    BY <1>2, FaultKeepsBound DEF ReserveMissing, ShowForm
  <2>2. RecordsOK'
    BY <2>1, RecordTypes, FreshIsRecord DEF RecordsOK
  <2> QED
    BY <2>1, <2>2, JobOverKeeps
<1>3. CASE ExistsUnread
  <2>1. /\ JobOver /\ Idle /\ UNCHANGED <<marker, draft, mem>> /\ faults' \in 0..MaxFaults
        /\ pc' = "form" /\ panel' = NoDeploy
    BY <1>3, FaultKeepsBound DEF ExistsUnread, ShowForm, disk
  <2>2. RecordsOK'
    BY <2>1, RecordTypes, FreshIsRecord DEF RecordsOK
  <2> QED
    BY <2>1, <2>2, JobOverKeeps
<1>4. CASE CheckedComplete
  BY <1>4, CompleteSucceeds DEF CheckedComplete, IInv, Places
<1>5. CASE CheckedIncomplete
  <2>1. /\ JobOver /\ Idle /\ UNCHANGED <<marker, draft, mem>> /\ faults' \in 0..MaxFaults
        /\ mode # "none" /\ BackFromJob
    BY <1>5, FaultKeepsBound DEF CheckedIncomplete, disk, IInv, Places
  <2>2. RecordsOK'
    BY <2>1, RecordTypes, BackFromJobShows DEF RecordsOK
  <2> QED
    BY <2>1, <2>2, BackFromJobShows, JobOverKeeps
<1> QED
  BY <1>1, <1>2, <1>3, <1>4, <1>5 DEF Reconciling

LEMMA ReloadKeeps == ASSUME IInv, Reload PROVE IInv'
<1>1. /\ JobOver /\ Idle /\ UNCHANGED <<marker, draft>> /\ faults' \in 0..MaxFaults
      /\ panel' = NoDeploy /\ mem' \in {draft, Fresh}
      /\ pc' = IF marker.id = 0 THEN "form" ELSE "recovering"
  BY FaultKeepsBound DEF Reload, disk
<1>2. RecordsOK'
  BY <1>1, RecordTypes, FreshIsRecord DEF RecordsOK
<1> QED
  BY <1>1, <1>2, RecordTypes, JobOverKeeps

LEMMA ResumeUnreadKeeps == ASSUME IInv, ResumeUnread PROVE IInv'
<1>1. /\ JobOver /\ Idle /\ UNCHANGED <<marker, draft, mem, panel>> /\ faults' \in 0..MaxFaults
      /\ pc' = "panel" /\ mode = "resume"
  BY FaultKeepsBound DEF ResumeUnread, disk, StayInPanel, IInv, Places
<1>2. RecordsOK' /\ panel'.id >= 1
  BY <1>1, RecordTypes DEF RecordsOK, IInv, Places
<1> QED
  BY <1>1, <1>2, JobOverKeeps

(***************************************************************************)
(* Steps between jobs.                                                     *)
(***************************************************************************)
\* Outside a job the locals are not in use.
LEMMA NoJobKeeps ==
    ASSUME IInv, mode = "none", UNCHANGED job, UNCHANGED <<chain, foreign>>, RecordsOK', OutcomeOK',
           ReportedActive', pc' \in {"form", "panel", "recovering", "blocked", "done"},
           pc' = "panel" => panel'.id >= 1, pc' = "recovering" => marker'.id >= 1
    PROVE  IInv'
<1>1. JobOK' /\ mode' = "none"
  BY DEF job, IInv, TypeOK, JobOK
<1>2. ChainOK' /\ Accounts'
  BY DEF chain, IInv, TypeOK, ChainOK, Accounts
<1>3. Places' /\ Resumes' /\ Awaits'
  BY <1>1 DEF Places, Resumes, Awaits
<1> QED
  BY <1>1, <1>2, <1>3 DEF IInv, TypeOK

LEMMA OutcomeKept ==
    ASSUME IInv, UNCHANGED <<count, reserves, outcome, foreign>>, Fault \/ UNCHANGED faults
    PROVE  OutcomeOK' /\ ReportedActive'
BY FaultKeepsBound DEF outcome, IInv, TypeOK, OutcomeOK, ReportedActive, Active

LEMMA LaunchFindsMarkerKeeps == ASSUME IInv, LaunchFindsMarker PROVE IInv'
<1>1. /\ mode = "none" /\ UNCHANGED <<job, chain, outcome, foreign, count, reserves, marker, draft, mem, faults>>
      /\ ShowPanel
  BY DEF IInv, Places, LaunchFindsMarker, Idle, disk, chain
<1>2. RecordsOK'
  BY <1>1, RecordTypes, ShowPanelShows DEF RecordsOK
<1> QED
  BY <1>1, <1>2, ShowPanelShows, OutcomeKept, NoJobKeeps

LEMMA RecoverUnreadKeeps == ASSUME IInv, RecoverUnread PROVE IInv'
<1>1. /\ mode = "none" /\ UNCHANGED <<job, chain, outcome, foreign, count, reserves, marker, draft, mem, faults>>
      /\ pc' = "form" /\ panel' = NoDeploy
  BY DEF IInv, Places, RecoverUnread, ShowForm, Idle, disk, chain
<1>2. RecordsOK'
  BY <1>1, RecordTypes, FreshIsRecord DEF RecordsOK
<1> QED
  BY <1>1, <1>2, OutcomeKept, NoJobKeeps

LEMMA AbandonKeeps == ASSUME IInv, Abandon PROVE IInv'
<1>1. /\ mode = "none" /\ UNCHANGED <<job, chain, foreign, count, reserves, draft, mem, reported, faults>>
      /\ pc' = "form" /\ panel' = NoDeploy /\ marker' = NoDeploy
      /\ abandoned' = abandoned \cup {panel.id} /\ panel.id >= 1
  BY DEF IInv, Places, Abandon, ShowForm, chain
<1>2. RecordsOK'
  BY <1>1, RecordTypes, FreshIsRecord DEF RecordsOK
<1>3. panel.id \in 1..MaxReserves + 1
  BY <1>1, RecordTypes, ConstantsAreNat DEF Deploy
<1>4. OutcomeOK' /\ ReportedActive'
  BY <1>1, <1>3 DEF IInv, TypeOK, OutcomeOK, ReportedActive, Active
<1> QED
  BY <1>1, <1>2, <1>4, NoJobKeeps

\* The page shows a Reserve it found complete.
LEMMA FoundCompleteKeeps ==
    ASSUME IInv, NEW i \in Nat, i >= 1, ResumePoint(i) = "complete", reported' = i,
           mode = "none", UNCHANGED <<job, chain, draft, mem, abandoned, faults, foreign>>,
           pc' = "done", panel' = NoDeploy, marker' = NoDeploy
    PROVE  IInv'
<1>1. Active(i) /\ UNCHANGED <<count, reserves>>
  BY CompleteIsActive DEF chain
<1>2. RecordsOK'
  BY RecordTypes, FreshIsRecord DEF RecordsOK
<1>3. OutcomeOK' /\ ReportedActive'
  BY <1>1, ConstantsAreNat DEF IInv, TypeOK, ChainOK, OutcomeOK, ReportedActive, Active
<1> QED
  BY <1>2, <1>3, NoJobKeeps

\* Nothing is decided, and the page waits.
LEMMA StillNoJob ==
    ASSUME IInv, mode = "none", UNCHANGED <<job, chain, draft, mem, reported, abandoned, faults, foreign>>,
           marker' \in Deploy, panel' \in Deploy, pc' \in {"form", "panel", "blocked"},
           pc' = "panel" => panel'.id >= 1
    PROVE  IInv'
<1>1. UNCHANGED <<count, reserves, outcome>>
  BY DEF chain, outcome
<1>2. RecordsOK'
  BY RecordTypes DEF RecordsOK
<1> QED
  BY <1>1, <1>2, OutcomeKept, NoJobKeeps

LEMMA CheckAgainKeeps == ASSUME IInv, CheckAgain PROVE IInv'
<1>1. /\ mode = "none" /\ UNCHANGED <<job, chain, draft, mem, abandoned, faults, foreign>>
      /\ panel.id \in Nat /\ panel.id >= 1
  BY RecordTypes DEF CheckAgain, IInv, Places
<1>2. CASE ResumePoint(panel.id) = "complete" /\ pc' = "done"
  BY <1>1, <1>2, FoundCompleteKeeps DEF CheckAgain
<1>3. CASE pc' = "blocked" /\ UNCHANGED <<panel, marker, reported>>
  BY <1>1, <1>3, RecordTypes, StillNoJob
<1> QED
  BY <1>2, <1>3 DEF CheckAgain

LEMMA RecoverKeeps == ASSUME IInv, Recover PROVE IInv'
<1>1. /\ mode = "none" /\ UNCHANGED <<job, chain, draft, mem, abandoned, faults, foreign>>
      /\ marker.id \in Nat /\ marker.id >= 1
  BY RecordTypes DEF Recover, IInv, Places
<1>2. CASE ShowForm /\ marker' = NoDeploy /\ UNCHANGED reported
  BY <1>1, <1>2, FreshIsRecord, StillNoJob DEF ShowForm
<1>3. CASE /\ ResumePoint(marker.id) = "complete" /\ pc' = "done" /\ panel' = NoDeploy
           /\ reported' = marker.id /\ marker' = NoDeploy
  BY <1>1, <1>3, FoundCompleteKeeps
<1>4. CASE pc' = "blocked" /\ UNCHANGED <<panel, marker, reported>>
  BY <1>1, <1>4, RecordTypes, StillNoJob
<1>5. CASE ShowPanel /\ UNCHANGED <<marker, reported>>
  BY <1>1, <1>5, RecordTypes, ShowPanelShows, StillNoJob
<1> QED
  BY <1>2, <1>3, <1>4, <1>5 DEF Recover

(***************************************************************************)
(* Steps of a job: funding.                                                *)
(***************************************************************************)
LEMMA IdleKeepsReserves ==
    ASSUME Idle
    PROVE  /\ UNCHANGED <<count, reserves, held, swapped, sent, txs>>
           /\ \A i : (Begun(i)' <=> Begun(i)) /\ (Active(i)' <=> Active(i))
BY DEF Idle, chain, Begun, Active

\* A job whose transaction did not do its work, or that has nothing in flight,
\* reads the Reserve again.
LEMMA ChecksKeep ==
    ASSUME IInv, Idle, pc' \in {"check", "exists"}, target >= 1, mode # "none",
           UNCHANGED <<mode, target, snap, amounts, cur, tries, wait, polled>>,
           funding' \in FundingRecord, mem' \in FundingRecord, marker' \in Deploy,
           UNCHANGED <<draft, panel>>, faults' \in 0..MaxFaults
    PROVE  IInv'
<1>1. JobOK' /\ RecordsOK'
  BY DEF IInv, TypeOK, JobOK, RecordsOK
<1>2. Places' /\ Resumes' /\ Awaits'
  BY DEF IInv, Places, Resumes, Awaits
<1> QED
  BY <1>1, <1>2, IdleKeeps

LEMMA StartFundingTypes ==
    ASSUME IInv, NEW f \in FundingRecord, StartFunding(f)
    PROVE  /\ snap' \in Amounts /\ amounts' \in Amounts /\ funding' \in FundingRecord
           /\ cur' = 1 /\ cur' \in -1..N + 1 /\ tries' \in 0..SlippageSteps /\ wait' = 0 /\ wait' \in 0..MaxTx
           /\ polled' \in BOOLEAN /\ pc' = "fund" /\ faults' \in 0..MaxFaults
<1>1. PICK m \in Missed : /\ snap' = [a \in Assets |-> IF a \in m THEN 0 ELSE held[a]]
                          /\ faults' = faults + Cardinality(m)
  BY DEF StartFunding
<1>2. snap' \in Amounts
  BY <1>1 DEF IInv, TypeOK, ChainOK, Amounts
<1>3. faults' \in 0..MaxFaults
  BY <1>1, MissedCounts DEF IInv, TypeOK, OutcomeOK
<1>4. polled' \in BOOLEAN
  BY Zenon DEF StartFunding
<1> QED
  BY <1>2, <1>3, <1>4, FreshIsRecord, ConstantsAreNat DEF StartFunding

LEMMA PressLaunchKeeps == ASSUME IInv, PressLaunch PROVE IInv'
<1>1. /\ mode' = "launch" /\ target' = 0 /\ Idle /\ UNCHANGED <<marker, draft, mem, panel>>
      /\ StartFunding(mem) /\ mem \in FundingRecord
  BY RecordTypes DEF PressLaunch, disk
<1>2. /\ snap' \in Amounts /\ amounts' \in Amounts /\ funding' \in FundingRecord
      /\ cur' = 1 /\ cur' \in -1..N + 1 /\ tries' \in 0..SlippageSteps /\ wait' \in 0..MaxTx
      /\ polled' \in BOOLEAN /\ pc' = "fund" /\ faults' \in 0..MaxFaults
  BY <1>1, StartFundingTypes
<1>3. JobOK' /\ RecordsOK'
  BY <1>1, <1>2, RecordTypes, ConstantsAreNat DEF JobOK, RecordsOK
<1>4. Places' /\ Resumes' /\ Awaits'
  BY <1>1, <1>2 DEF Places, Resumes, Awaits
<1> QED
  BY <1>1, <1>2, <1>3, <1>4, IdleKeeps

LEMMA PressResumeKeeps == ASSUME IInv, PressResume PROVE IInv'
<1>1. /\ pc = "panel" /\ pc' = "resume" /\ mode' = "resume" /\ target' = panel.id /\ funding' = panel.funding
      /\ UNCHANGED <<snap, amounts, cur, tries, wait, polled, marker, draft, mem, panel, faults>> /\ Idle
  BY DEF PressResume, disk
<1>2. /\ panel.id \in 0..MaxReserves + 1 /\ panel.id >= 1 /\ panel.funding \in FundingRecord
  BY <1>1, RecordTypes DEF IInv, Places, Deploy
<1>3. RecordsOK'
  BY <1>1, RecordTypes DEF RecordsOK
<1>4. JobOK'
  BY <1>1, <1>2 DEF IInv, TypeOK, JobOK
<1>5. Places' /\ Resumes' /\ Awaits'
  BY <1>1, <1>2 DEF Places, Resumes, Awaits
<1> QED
  BY <1>1, <1>3, <1>4, <1>5, RecordTypes, IdleKeeps

\* Steps within funding move no further than the asset behind the last one.
LEMMA FundingMoves ==
    ASSUME IInv, Idle, pc \in {"fund", "sign", "swap"}, pc' \in {"fund", "sign"},
           funding' \in FundingRecord, mem' \in FundingRecord, marker' \in Deploy, marker'.id = marker.id,
           snap' \in Amounts, amounts' \in Amounts, tries' \in 0..SlippageSteps,
           cur' \in 1..N + 1, pc' = "sign" => cur' \in 1..N,
           UNCHANGED <<mode, target, wait, polled, draft, panel>>, faults' \in 0..MaxFaults
    PROVE  IInv'
<1>1. JobOK' /\ RecordsOK'
  BY ConstantsAreNat DEF IInv, TypeOK, JobOK, RecordsOK
<1>2. Places' /\ Awaits'
  BY DEF IInv, Places, Awaits
<1>3. Resumes'
  BY IdleKeepsReserves DEF IInv, Resumes, Begun
<1> QED
  BY <1>1, <1>2, <1>3, IdleKeeps

LEMMA FundingStopsKeeps ==
    ASSUME IInv, FundingStops, pc \in {"fund", "sign", "swap"}, Idle, UNCHANGED draft,
           marker' \in Deploy, mem' \in FundingRecord, faults' \in 0..MaxFaults
    PROVE  IInv'
<1>1. CASE mode = "launch"
  <2>1. pc' = "form" /\ panel' = NoDeploy /\ JobOver
    BY <1>1 DEF FundingStops, ShowForm
  <2>2. RecordsOK'
    BY <2>1, RecordTypes, FreshIsRecord DEF RecordsOK
  <2> QED
    BY <2>1, <2>2, JobOverKeeps
<1>2. CASE mode # "launch"
  <2>1. mode # "none" /\ target >= 1
    BY <1>2, RecordTypes DEF IInv, TypeOK, JobOK, Places, Resumes, Begun
  <2> QED
    BY <1>2, <2>1, RecordTypes, ChecksKeep DEF FundingStops
<1> QED
  BY <1>1, <1>2

LEMMA SnapKeepsType ==
    ASSUME IInv, NEW b, SettledBalance(b), cur \in Assets
    PROVE  /\ b \in Nat /\ [snap EXCEPT ![cur] = b] \in Amounts /\ [amounts EXCEPT ![cur] = b] \in Amounts
           /\ faults' \in 0..MaxFaults
<1>1. /\ held \in Amounts /\ snap \in Amounts /\ amounts \in Amounts
  BY DEF IInv, TypeOK, ChainOK, JobOK
<1>2. b \in Nat
  BY <1>1 DEF SettledBalance, Amounts
<1>3. Fault \/ UNCHANGED faults
  BY DEF SettledBalance
<1> QED
  BY <1>1, <1>2, <1>3, FaultKeepsBound DEF Amounts

LEMMA StatusesAre ==
    {"not_started", "quoted", "awaiting_signature", "submitted", "confirmed", "balance_verified",
     "ready_to_seed"} \subseteq Statuses
BY DEF Statuses, FundingOrder

LEMMA CurInFund ==
    ASSUME IInv, pc \in {"fund", "sign", "swap"}
    PROVE  /\ cur \in 1..N + 1 /\ (pc # "fund" \/ cur <= N => cur \in Assets /\ cur \in 1..N)
           /\ 0 \in 0..MaxTx /\ N \in Nat /\ N >= 1
BY ConstantsAreNat DEF IInv, TypeOK, JobOK, Places, Assets

LEMMA ReconcileKeeps == ASSUME IInv, Reconcile PROVE IInv'
<1>1. /\ pc = "fund" /\ pc' = "fund" /\ Idle /\ cur' = cur
      /\ UNCHANGED <<draft, panel, mode, target, amounts, tries, wait, polled>>
      /\ cur \in Assets /\ cur \in 1..N + 1 /\ 0 \in 0..MaxTx
  BY CurInFund DEF Reconcile
<1>2. PICK to \in {"confirmed", "not_started"} : SetFunding(Advance(funding, cur, to, 0))
  BY DEF Reconcile
<1>3. /\ funding' \in FundingRecord /\ mem' \in FundingRecord /\ marker' \in Deploy /\ marker'.id = marker.id
  BY <1>1, <1>2, AdvanceKeepsRecord, StatusesAre, RecordTypes, SetFundingTypes DEF IInv
<1>4. snap' \in Amounts /\ faults' \in 0..MaxFaults
  BY <1>1, SnapKeepsType, RecordTypes DEF Reconcile, IInv, TypeOK, JobOK
<1>5. amounts' \in Amounts /\ tries' \in 0..SlippageSteps
  BY <1>1 DEF IInv, TypeOK, JobOK
<1> QED
  BY <1>1, <1>3, <1>4, <1>5, FundingMoves

LEMMA AlreadyHeldKeeps == ASSUME IInv, AlreadyHeld PROVE IInv'
<1>1. /\ pc = "fund" /\ pc' = "fund" /\ Idle /\ cur' = cur + 1 /\ tries' = 1
      /\ amounts' = [amounts EXCEPT ![cur] = 1]
      /\ SetFunding(Advance(funding, cur, "ready_to_seed", 0))
      /\ UNCHANGED <<draft, panel, mode, target, snap, wait, polled, faults>>
      /\ cur \in Assets /\ cur \in 1..N /\ 0 \in 0..MaxTx
  BY CurInFund DEF AlreadyHeld, ReadyWith
<1>2. /\ funding' \in FundingRecord /\ mem' \in FundingRecord /\ marker' \in Deploy /\ marker'.id = marker.id
  BY <1>1, AdvanceKeepsRecord, StatusesAre, RecordTypes, SetFundingTypes DEF IInv
<1>3. /\ snap' \in Amounts /\ amounts' \in Amounts /\ tries' \in 0..SlippageSteps
      /\ cur' \in 1..N + 1 /\ faults' \in 0..MaxFaults
  BY <1>1, ConstantsAreNat, RecordTypes DEF IInv, TypeOK, JobOK, Amounts
<1> QED
  BY <1>1, <1>2, <1>3, FundingMoves

LEMMA NeedsSwapKeeps == ASSUME IInv, NeedsSwap PROVE IInv'
<1>1. /\ pc = "fund" /\ Idle /\ UNCHANGED <<draft, faults>> /\ cur \in Assets /\ cur \in 1..N
      /\ faults' \in 0..MaxFaults
  BY CurInFund, RecordTypes DEF NeedsSwap
<1>2. CASE /\ pc' = "sign" /\ SetFunding(QuoteAsset(funding))
           /\ UNCHANGED <<panel, mode, target, snap, amounts, cur, tries, wait, polled>>
  <2>1. /\ funding' \in FundingRecord /\ mem' \in FundingRecord /\ marker' \in Deploy /\ marker'.id = marker.id
    BY <1>1, <1>2, QuoteKeepsRecord, RecordTypes, SetFundingTypes DEF IInv
  <2>2. /\ snap' \in Amounts /\ amounts' \in Amounts /\ tries' \in 0..SlippageSteps
        /\ cur' \in 1..N + 1 /\ cur' \in 1..N
    BY <1>1, <1>2, ConstantsAreNat DEF IInv, TypeOK, JobOK
  <2> QED
    BY <1>1, <1>2, <2>1, <2>2, FundingMoves
<1>3. CASE FundingStops /\ UNCHANGED <<marker, mem>>
  BY <1>1, <1>3, RecordTypes, FundingStopsKeeps
<1> QED
  BY <1>2, <1>3 DEF NeedsSwap

LEMMA SendSwapKeeps == ASSUME IInv, SendSwap PROVE IInv'
<1> DEFINE tx == [NoTx EXCEPT !.kind = "swap", !.asset = cur]
<1>1. /\ pc = "sign" /\ pc' = "swap" /\ Sends(tx) /\ SetFunding(Advance(funding, cur, "submitted", sent + 1))
      /\ UNCHANGED <<draft, panel, mode, target, snap, amounts, cur, tries>>
      /\ cur \in Assets /\ cur \in 1..N /\ cur \in 0..N
  BY CurInFund DEF SendSwap
<1>2. tx \in Tx
  BY <1>1, NoTxType DEF Tx
<1> HIDE DEF tx
<1>3. /\ ChainOK' /\ Accounts' /\ OutcomeOK' /\ ReportedActive' /\ UNCHANGED <<count, reserves>>
      /\ wait' \in 1..sent' /\ wait' \in 0..MaxTx /\ polled' = FALSE
  BY <1>1, <1>2, SendsKeeps
<1>4. sent + 1 \in 0..MaxTx
  BY <1>1, ConstantsAreNat DEF Sends, IInv, TypeOK, ChainOK
<1>5. /\ funding' \in FundingRecord /\ mem' \in FundingRecord /\ marker' \in Deploy
  BY <1>1, <1>4, AdvanceKeepsRecord, StatusesAre, RecordTypes, SetFundingTypes DEF IInv
<1>6. RecordsOK'
  BY <1>1, <1>5, RecordTypes DEF RecordsOK
<1>7. JobOK'
  <2>1. polled' \in BOOLEAN
    BY <1>3
  <2> QED
    BY <1>1, <1>3, <1>5, <2>1 DEF IInv, TypeOK, JobOK
<1>8. Places' /\ Awaits'
  BY <1>1, <1>3 DEF IInv, Places, Awaits
<1>9. Resumes'
  BY <1>1, <1>3 DEF IInv, Resumes, Begun
<1> QED
  BY <1>3, <1>6, <1>7, <1>8, <1>9 DEF IInv, TypeOK

LEMMA SwapConfirmedKeeps == ASSUME IInv, SwapConfirmed PROVE IInv'
<1> DEFINE f1 == Advance(funding, cur, "confirmed", 0)
           f2 == Advance(f1, cur, "balance_verified", 0)
           f3 == Advance(f2, cur, "ready_to_seed", 0)
<1>1. /\ pc = "swap" /\ pc' = "fund" /\ Idle /\ SetFunding(f3)
      /\ UNCHANGED <<draft, panel, mode, target, snap, wait, polled>>
      /\ cur \in Assets /\ cur \in 1..N /\ 0 \in 0..MaxTx
  BY CurInFund DEF SwapConfirmed
<1>2. f1 \in FundingRecord
  BY <1>1, AdvanceKeepsRecord, StatusesAre, RecordTypes
<1> HIDE DEF f1
<1>3. f2 \in FundingRecord
  BY <1>1, <1>2, AdvanceKeepsRecord, StatusesAre
<1> HIDE DEF f2
<1>4. f3 \in FundingRecord
  BY <1>1, <1>3, AdvanceKeepsRecord, StatusesAre
<1> HIDE DEF f3
<1>5. /\ funding' \in FundingRecord /\ mem' \in FundingRecord /\ marker' \in Deploy /\ marker'.id = marker.id
  BY <1>1, <1>4, SetFundingTypes DEF IInv
<1>6. PICK b : SettledBalance(b) /\ amounts' = [amounts EXCEPT ![cur] = b] /\ cur' = cur + 1 /\ tries' = 1
  BY DEF SwapConfirmed, ReadyWith
<1>7. /\ snap' \in Amounts /\ amounts' \in Amounts /\ tries' \in 0..SlippageSteps
      /\ cur' \in 1..N + 1 /\ faults' \in 0..MaxFaults
  <2>1. [amounts EXCEPT ![cur] = b] \in Amounts /\ faults' \in 0..MaxFaults
    BY <1>1, <1>6, SnapKeepsType
  <2>2. snap \in Amounts
    BY DEF IInv, TypeOK, JobOK
  <2> QED
    BY <1>1, <1>6, <2>1, <2>2, ConstantsAreNat
<1> QED
  BY <1>1, <1>5, <1>7, FundingMoves

LEMMA SwapNotLandedKeeps == ASSUME IInv, SwapNotLanded PROVE IInv'
<1> DEFINE f == Advance(funding, cur, "not_started", 0)
<1>1. /\ pc = "swap" /\ Idle /\ UNCHANGED <<draft, faults>> /\ faults' \in 0..MaxFaults
      /\ cur \in Assets /\ cur \in 1..N /\ cur \in 1..N + 1 /\ 0 \in 0..MaxTx
  BY CurInFund, RecordTypes DEF SwapNotLanded
<1>2. f \in FundingRecord /\ QuoteAsset(f) \in FundingRecord
  BY <1>1, AdvanceKeepsRecord, QuoteKeepsRecord, StatusesAre, RecordTypes
<1>3. \/ /\ tries < SlippageSteps /\ pc' = "sign" /\ tries' = tries + 1 /\ SetFunding(QuoteAsset(f))
         /\ UNCHANGED <<panel, mode, target, snap, amounts, cur, wait, polled>>
      \/ mode = "launch" /\ ShowForm /\ JobOver /\ mem' = f /\ UNCHANGED marker
      \/ /\ mode # "launch" /\ pc' = "check" /\ SetFunding(f)
         /\ UNCHANGED <<panel, mode, target, snap, amounts, cur, tries, wait, polled>>
  BY DEF SwapNotLanded
<1> HIDE DEF f
<1>4. CASE /\ tries < SlippageSteps /\ pc' = "sign" /\ tries' = tries + 1 /\ SetFunding(QuoteAsset(f))
           /\ UNCHANGED <<panel, mode, target, snap, amounts, cur, wait, polled>>
  <2>1. /\ funding' \in FundingRecord /\ mem' \in FundingRecord /\ marker' \in Deploy /\ marker'.id = marker.id
    BY <1>2, <1>4, SetFundingTypes DEF IInv
  <2>2. /\ snap' \in Amounts /\ amounts' \in Amounts /\ tries' \in 0..SlippageSteps
        /\ cur' \in 1..N + 1 /\ cur' \in 1..N
    BY <1>1, <1>4, ConstantsAreNat DEF IInv, TypeOK, JobOK
  <2> QED
    BY <1>1, <1>4, <2>1, <2>2, FundingMoves
<1>5. CASE mode = "launch" /\ ShowForm /\ JobOver /\ mem' = f /\ UNCHANGED marker
  <2>1. RecordsOK'
    BY <1>1, <1>2, <1>5, RecordTypes, FreshIsRecord DEF RecordsOK, ShowForm
  <2> QED
    BY <1>1, <1>5, <2>1, JobOverKeeps DEF ShowForm
<1>6. CASE /\ mode # "launch" /\ pc' = "check" /\ SetFunding(f)
           /\ UNCHANGED <<panel, mode, target, snap, amounts, cur, tries, wait, polled>>
  <2>1. /\ funding' \in FundingRecord /\ mem' \in FundingRecord /\ marker' \in Deploy
    BY <1>2, <1>6, SetFundingTypes DEF IInv
  <2>2. mode # "none" /\ target >= 1
    BY <1>1, <1>6, RecordTypes DEF IInv, TypeOK, JobOK, Places, Resumes, Begun
  <2> QED
    BY <1>1, <1>6, <2>1, <2>2, ChecksKeep
<1> QED
  BY <1>3, <1>4, <1>5, <1>6

LEMMA SwapUnknownKeeps == ASSUME IInv, SwapUnknown PROVE IInv'
<1>1. /\ pc = "swap" /\ FundingStops /\ Idle /\ UNCHANGED <<draft, marker, mem>> /\ faults' \in 0..MaxFaults
  BY FaultKeepsBound DEF SwapUnknown, Unanswered, disk
<1> QED
  BY <1>1, RecordTypes, FundingStopsKeeps

(***************************************************************************)
(* Steps of a job: building.                                               *)
(***************************************************************************)
\* A step that only moves the page on keeps the types of its locals.
LEMMA MovesKeepTypes ==
    ASSUME IInv, UNCHANGED <<marker, draft, mem, panel, mode, target, funding, snap, amounts, tries, wait, polled>>,
           cur' \in -1..N + 1,
           pc' \in {"send", "batch", "seed", "seeding", "exists", "check", "refund", "final"}
    PROVE  JobOK' /\ RecordsOK'
BY DEF IInv, TypeOK, JobOK, RecordsOK

LEMMA DeriveKeeps == ASSUME IInv, Derive PROVE IInv'
<1>1. /\ mode = "launch" /\ Idle /\ target' = count + 1 /\ marker' = [id |-> count + 1, funding |-> mem]
      /\ pc' = "send" /\ cur' = -1
      /\ UNCHANGED <<draft, mem, panel, mode, funding, snap, amounts, tries, wait, polled, faults>>
  BY DEF Derive
<1>2. count + 1 \in 0..MaxReserves + 1 /\ count + 1 >= 1
  BY ConstantsAreNat DEF IInv, TypeOK, ChainOK
<1>3. marker' \in Deploy
  BY <1>1, <1>2, RecordTypes DEF Deploy
<1>4. RecordsOK'
  BY <1>1, <1>3, RecordTypes DEF RecordsOK
<1>5. JobOK'
  BY <1>1, <1>2, ConstantsAreNat DEF IInv, TypeOK, JobOK
<1>6. Places' /\ Resumes' /\ Awaits'
  BY <1>1, <1>2 DEF Places, Resumes, Awaits
<1> QED
  BY <1>1, <1>4, <1>5, <1>6, RecordTypes, IdleKeeps

LEMMA SendBatchKeeps == ASSUME IInv, SendBatch PROVE IInv'
<1> DEFINE tx == [NoTx EXCEPT !.kind = "batch", !.id = target,
                              !.create = 0 \in NextBatch, !.range = NextBatch \ {0}]
<1>1. /\ pc = "send" /\ pc' = "batch" /\ Sends(tx)
      /\ UNCHANGED <<marker, draft, mem, panel, mode, target, funding, snap, amounts, cur, tries>>
  BY DEF SendBatch, disk
<1>2. NextBatch \ {0} \in SUBSET Assets /\ (0 \in NextBatch) \in BOOLEAN
  BY ConstantsAreNat DEF NextBatch, Assets
<1>3. target \in 0..MaxReserves + 1 /\ target >= 1 /\ mode # "none" /\ cur \in -1..N + 1
  BY <1>1 DEF IInv, TypeOK, JobOK, Places
<1>4. tx \in Tx /\ tx.kind = "batch" /\ tx.id = target /\ tx.range = NextBatch \ {0}
  <2> DEFINE c == 0 \in NextBatch
             g == NextBatch \ {0}
  <2>1. c \in BOOLEAN /\ g \in SUBSET Assets
    BY <1>2
  <2> HIDE DEF c, g
  <2>2. [NoTx EXCEPT !.kind = "batch", !.id = target, !.create = c, !.range = g] \in Tx
    BY <2>1, <1>3, NoTxType DEF Tx
  <2>3. /\ [NoTx EXCEPT !.kind = "batch", !.id = target, !.create = c, !.range = g].kind = "batch"
        /\ [NoTx EXCEPT !.kind = "batch", !.id = target, !.create = c, !.range = g].id = target
        /\ [NoTx EXCEPT !.kind = "batch", !.id = target, !.create = c, !.range = g].range = g
    BY NoTxType DEF Tx
  <2> QED
    BY <2>2, <2>3 DEF c, g
<1> HIDE DEF tx
<1>5. /\ ChainOK' /\ Accounts' /\ OutcomeOK' /\ ReportedActive' /\ UNCHANGED <<count, reserves>>
      /\ wait' \in 1..sent' /\ wait' \in 0..MaxTx /\ polled' = FALSE
      /\ txs'[wait'] = [tx EXCEPT !.st = "flying"]
  BY <1>1, <1>4, SendsKeeps
<1>6. /\ txs'[wait'].st = "flying" /\ txs'[wait'].kind = "batch" /\ txs'[wait'].id = target
      /\ txs'[wait'].range = NextBatch \ {0}
  BY <1>4, <1>5 DEF Tx
<1>7. RecordsOK'
  BY <1>1, RecordTypes DEF RecordsOK
<1>8. JobOK'
  <2>1. polled' \in BOOLEAN
    BY <1>5
  <2> QED
    BY <1>1, <1>5, <2>1 DEF IInv, TypeOK, JobOK
<1>9. mode = "resume" => cur + 1 \in NextBatch \ {0}
  BY <1>1, <1>3, ConstantsAreNat DEF IInv, Places, NextBatch
<1>10. Places' /\ Resumes'
  BY <1>1, <1>3, <1>5 DEF IInv, Places, Resumes
<1>11. Awaits'
  BY <1>1, <1>6, <1>9 DEF Awaits
<1> QED
  BY <1>5, <1>7, <1>8, <1>10, <1>11 DEF IInv, TypeOK

LEMMA BatchConfirmedKeeps == ASSUME IInv, BatchConfirmed PROVE IInv'
<1>1. /\ pc = "batch" /\ Idle /\ txs[wait].st = "landed" /\ cur' = IF cur + BatchSize < N THEN cur + BatchSize ELSE N
      /\ pc' = IF cur' < N THEN "send" ELSE IF mode = "launch" THEN "seed" ELSE "refund"
      /\ UNCHANGED <<marker, draft, mem, panel, mode, target, funding, snap, amounts, tries, wait, polled, faults>>
  BY DEF BatchConfirmed, Confirmed, disk
<1>2. cur \in -1..N + 1 /\ mode \in {"launch", "resume"} /\ target >= 1
  BY <1>1 DEF IInv, TypeOK, JobOK, Places
<1>3. cur' \in -1..N + 1 /\ (cur >= 0 => cur' >= 0)
  BY <1>1, <1>2, ConstantsAreNat
<1>4. JobOK' /\ RecordsOK'
  BY <1>1, <1>3, MovesKeepTypes
<1>5. mode = "resume" => Begun(target)
  BY <1>1 DEF IInv, Awaits
<1>6. Places' /\ Awaits'
  BY <1>1, <1>2, <1>3 DEF IInv, Places, Awaits
<1>7. Resumes'
  BY <1>1, <1>2, <1>5, IdleKeepsReserves DEF Resumes, Begun
<1> QED
  BY <1>1, <1>4, <1>6, <1>7, RecordTypes, IdleKeeps

LEMMA StopsKeep == ASSUME IInv, BatchStops \/ SeedStops PROVE IInv'
<1>1. /\ pc \in {"batch", "seeding"} /\ pc' \in {"check", "exists"} /\ Idle
      /\ UNCHANGED <<marker, draft, mem, panel, mode, target, funding, snap, amounts, cur, tries, wait, polled>>
      /\ faults' \in 0..MaxFaults
  BY FaultKeepsBound DEF BatchStops, SeedStops, NotConfirmed, Unanswered, disk, job
<1>2. mode # "none" /\ target >= 1
  BY <1>1 DEF IInv, Places
<1> QED
  BY <1>1, <1>2, RecordTypes, ChecksKeep

LEMMA SendSeedKeeps == ASSUME IInv, SendSeed PROVE IInv'
<1> DEFINE tx == [NoTx EXCEPT !.kind = "seed", !.id = target, !.amt = amounts]
<1>1. /\ pc = "seed" /\ pc' = "seeding" /\ Sends(tx)
      /\ UNCHANGED <<marker, draft, mem, panel, mode, target, funding, snap, amounts, cur, tries>>
  BY DEF SendSeed, disk
<1>2. target \in 0..MaxReserves + 1 /\ target >= 1 /\ mode # "none" /\ amounts \in Amounts
  BY <1>1 DEF IInv, TypeOK, JobOK, Places
<1>3. tx \in Tx /\ tx.kind = "seed" /\ tx.id = target
  BY <1>2, NoTxType DEF Tx
<1> HIDE DEF tx
<1>4. /\ ChainOK' /\ Accounts' /\ OutcomeOK' /\ ReportedActive' /\ UNCHANGED <<count, reserves>>
      /\ wait' \in 1..sent' /\ wait' \in 0..MaxTx /\ polled' = FALSE
      /\ txs'[wait'] = [tx EXCEPT !.st = "flying"]
  BY <1>1, <1>3, SendsKeeps
<1>5. /\ txs'[wait'].st = "flying" /\ txs'[wait'].kind = "seed" /\ txs'[wait'].id = target
  BY <1>3, <1>4 DEF Tx
<1>6. RecordsOK'
  BY <1>1, RecordTypes DEF RecordsOK
<1>7. JobOK'
  <2>1. polled' \in BOOLEAN
    BY <1>4
  <2> QED
    BY <1>1, <1>4, <2>1 DEF IInv, TypeOK, JobOK
<1>8. Places' /\ Resumes'
  BY <1>1, <1>2, <1>4 DEF IInv, Places, Resumes
<1>9. Awaits'
  BY <1>1, <1>5 DEF Awaits
<1> QED
  BY <1>4, <1>6, <1>7, <1>8, <1>9 DEF IInv, TypeOK

LEMMA LaunchSeededKeeps == ASSUME IInv, LaunchSeeded PROVE IInv'
<1>1. Active(target)
  BY DEF LaunchSeeded, Confirmed, IInv, Awaits
<1>2. /\ target \in 0..MaxReserves + 1 /\ draft' \in FundingRecord /\ faults' \in 0..MaxFaults /\ Succeed(target)
  BY RecordTypes, FreshIsRecord DEF LaunchSeeded, IInv, TypeOK, JobOK
<1> QED
  BY <1>1, <1>2, SuccessKeeps

LEMMA SendFailsKeeps == ASSUME IInv, SendFails PROVE IInv'
<1>1. /\ Idle /\ UNCHANGED <<marker, draft, mem>> /\ faults' \in 0..MaxFaults
  BY FaultKeepsBound DEF SendFails, disk
<1>2. CASE pc \in {"fund", "sign"} /\ FundingStops
  BY <1>1, <1>2, RecordTypes, FundingStopsKeeps
<1>3. CASE /\ pc \in {"send", "seed"} /\ UNCHANGED <<panel, job>>
           /\ pc' = IF mode = "launch" /\ pc = "send" THEN "exists" ELSE "check"
  <2>1. mode # "none" /\ target >= 1
    BY <1>3 DEF IInv, Places
  <2> QED
    BY <1>1, <1>3, <2>1, RecordTypes, ChecksKeep DEF job
<1> QED
  BY <1>2, <1>3 DEF SendFails

(***************************************************************************)
(* Steps of a job: resuming.                                               *)
(***************************************************************************)
LEMMA ResumeReadsKeeps == ASSUME IInv, ResumeReads PROVE IInv'
<1>1. /\ pc = "resume" /\ mode = "resume" /\ target >= 1 /\ target \in 0..MaxReserves + 1 /\ panel.id >= 1
      /\ UNCHANGED faults /\ faults' \in 0..MaxFaults
  BY RecordTypes DEF ResumeReads, IInv, Places, TypeOK, JobOK
<1>2. CASE StayInPanel /\ JobOver /\ Idle /\ UNCHANGED disk
           /\ UNCHANGED mem
  <2>1. RecordsOK' /\ pc' = "panel" /\ panel' = panel
    BY <1>2, RecordTypes DEF RecordsOK, disk, StayInPanel
  <2> QED
    BY <1>1, <1>2, <2>1, JobOverKeeps
<1>3. CASE ResumePoint(target) = "complete" /\ Succeed(target) /\ UNCHANGED draft
  BY <1>1, <1>3, CompleteSucceeds
<1>4. CASE /\ ResumePoint(target) = "registration" /\ pc' = "send" /\ cur' = RegisteredUpTo(target) /\ Idle
           /\ UNCHANGED <<disk, mem, panel, mode, target, funding, snap, amounts, tries, wait, polled>>
  <2>1. ~(target > count) /\ Cardinality(reserves[target].registered) < N
    BY <1>4, Zenon DEF ResumePoint
  <2>2. target \in 1..MaxReserves
    BY <1>1, <2>1, ConstantsAreNat DEF IInv, TypeOK, ChainOK
  <2>3. reserves[target].registered \in SUBSET (1..N + 1)
    BY <2>2 DEF IInv, TypeOK, ChainOK, Account
  <2>4. IsFiniteSet(reserves[target].registered)
    <3>1. 1 \in Int /\ N + 1 \in Int
      BY ConstantsAreNat
    <3>2. IsFiniteSet(1..N + 1)
      BY <3>1, FS_Interval
    <3> QED
      BY <2>3, <3>2, FS_Subset
  <2>5. cur' \in Nat /\ cur' < N
    BY <1>4, <2>1, <2>4, FS_CardinalityType DEF RegisteredUpTo
  <2>6. JobOK' /\ RecordsOK'
    BY <1>4, <2>5, ConstantsAreNat, MovesKeepTypes DEF disk
  <2>7. Places' /\ Resumes' /\ Awaits'
    BY <1>1, <1>4, <2>5 DEF Places, Resumes, Awaits
  <2> QED
    BY <1>1, <1>4, <2>6, <2>7, IdleKeeps
<1>5. CASE ResumePoint(target) = "funding" /\ pc' = "refund" /\ Idle /\ UNCHANGED <<disk, mem, panel, job>>
  <2>1. ~(target > count) /\ reserves[target].status = "assetsInitializing"
    BY <1>5, Zenon DEF ResumePoint
  <2>2. Begun(target)
    BY <1>1, <2>1, ConstantsAreNat DEF Begun, IInv, TypeOK, ChainOK
  <2>3. JobOK' /\ RecordsOK'
    BY <1>5, MovesKeepTypes DEF disk, job, IInv, TypeOK, JobOK
  <2>4. Places' /\ Awaits'
    BY <1>1, <1>5 DEF Places, Awaits, job
  <2>5. Resumes'
    BY <1>5, <2>2, IdleKeepsReserves DEF Resumes, Begun, job
  <2> QED
    BY <1>1, <1>5, <2>3, <2>4, <2>5, IdleKeeps
<1> QED
  BY <1>2, <1>3, <1>4, <1>5 DEF ResumeReads

LEMMA ResumeFundsKeeps == ASSUME IInv, ResumeFunds PROVE IInv'
<1>1. pc = "refund" /\ mode = "resume" /\ Begun(target) /\ panel.id >= 1
  BY DEF ResumeFunds, IInv, Places, Resumes
<1>2. CASE StartFunding(panel.funding) /\ Idle /\ UNCHANGED <<disk, mem, panel, mode, target>>
  <2>1. panel.funding \in FundingRecord
    BY RecordTypes DEF Deploy
  <2>2. /\ snap' \in Amounts /\ amounts' \in Amounts /\ funding' \in FundingRecord
        /\ cur' = 1 /\ cur' \in -1..N + 1 /\ tries' \in 0..SlippageSteps /\ wait' \in 0..MaxTx
        /\ polled' \in BOOLEAN /\ pc' = "fund" /\ faults' \in 0..MaxFaults
    BY <1>2, <2>1, StartFundingTypes
  <2>3. JobOK' /\ RecordsOK'
    BY <1>2, <2>2 DEF IInv, TypeOK, JobOK, RecordsOK, disk
  <2>4. Places' /\ Awaits'
    BY <1>1, <1>2, <2>2 DEF Places, Awaits
  <2>5. Resumes'
    BY <1>1, <1>2, IdleKeepsReserves DEF Resumes, Begun
  <2> QED
    BY <1>2, <2>2, <2>3, <2>4, <2>5, IdleKeeps
<1>3. CASE ~Initializing /\ Succeed(target) /\ UNCHANGED <<draft, faults>>
  BY <1>1, <1>3, BegunSucceeds
<1> QED
  BY <1>2, <1>3 DEF ResumeFunds

LEMMA ResumeMoves ==
    ASSUME IInv, Idle, UNCHANGED <<disk, mem, panel, job, faults>>, mode = "resume", Begun(target),
           pc' \in {"final", "seed", "check"}
    PROVE  IInv'
<1>1. JobOK' /\ RecordsOK'
  BY MovesKeepTypes DEF disk, job, IInv, TypeOK, JobOK
<1>2. target >= 1 /\ panel.id >= 1
  BY RecordTypes DEF Begun, IInv, Places
<1>3. Places' /\ Awaits'
  BY <1>2 DEF Places, Awaits, job
<1>4. Resumes'
  BY IdleKeepsReserves DEF Resumes, Begun, job
<1> QED
  BY <1>1, <1>3, <1>4, RecordTypes, IdleKeeps

LEMMA ResumeFundedKeeps == ASSUME IInv, ResumeFunded PROVE IInv'
<1>1. Begun(target) /\ mode = "resume"
  BY DEF ResumeFunded, Funded, IInv, Resumes
<1> QED
  BY <1>1, ResumeMoves DEF ResumeFunded

LEMMA ResumeSeededKeeps == ASSUME IInv, ResumeSeeded PROVE IInv'
<1>1. Begun(target)
  BY DEF ResumeSeeded, Confirmed, IInv, Awaits, Active, Begun
<1> QED
  BY <1>1, ResumeMoves DEF ResumeSeeded

LEMMA ResumeEndsKeeps == ASSUME IInv, ResumeEnds PROVE IInv'
<1>1. Begun(target) /\ mode = "resume"
  BY DEF ResumeEnds, IInv, Resumes, Places
<1>2. CASE ~Initializing
  BY <1>1, <1>2, BegunSucceeds DEF ResumeEnds
<1>3. CASE Initializing
  BY <1>1, <1>3, ResumeMoves DEF ResumeEnds, disk
<1> QED
  BY <1>2, <1>3

LEMMA PollStatusKeeps == ASSUME IInv, PollStatus PROVE IInv'
<1>1. /\ Idle /\ polled' = TRUE
      /\ UNCHANGED <<marker, draft, pc, mem, panel, mode, target, funding, snap, amounts, cur, tries, wait, faults>>
  BY DEF PollStatus, disk
<1>2. polled' \in BOOLEAN
  BY <1>1
<1>3. JobOK' /\ RecordsOK'
  BY <1>1, <1>2 DEF IInv, TypeOK, JobOK, RecordsOK
<1>4. Places' /\ Resumes' /\ Awaits'
  BY <1>1, IdleKeepsReserves DEF IInv, Places, Resumes, Awaits, Begun, Active
<1> QED
  BY <1>1, <1>3, <1>4, RecordTypes, IdleKeeps

LEMMA SaveDraftKeeps == ASSUME IInv, SaveDraft PROVE IInv'
<1>1. Idle /\ draft' = mem /\ UNCHANGED <<marker, page, faults>>
  BY DEF SaveDraft
<1>2. JobOK' /\ RecordsOK'
  BY <1>1 DEF IInv, TypeOK, JobOK, RecordsOK, page, job
<1>3. Places' /\ Resumes' /\ Awaits'
  BY <1>1, IdleKeepsReserves DEF IInv, Places, Resumes, Awaits, Begun, Active, page, job
<1> QED
  BY <1>1, <1>2, <1>3, RecordTypes, IdleKeeps

LEMMA StutterKeeps == ASSUME IInv, UNCHANGED vars PROVE IInv'
<1>1. /\ Idle /\ UNCHANGED <<marker, draft, page, faults>>
  BY DEF vars, Idle, disk
<1>2. JobOK' /\ RecordsOK'
  BY <1>1 DEF IInv, TypeOK, JobOK, RecordsOK, page, job
<1>3. Places' /\ Resumes' /\ Awaits'
  BY <1>1, IdleKeepsReserves DEF IInv, Places, Resumes, Awaits, Begun, Active, page, job
<1> QED
  BY <1>1, <1>2, <1>3, RecordTypes, IdleKeeps

(***************************************************************************)
(* All steps together.                                                     *)
(***************************************************************************)
LEMMA InitEstablishes == Init => IInv
<1> SUFFICES ASSUME Init PROVE IInv
  OBVIOUS
<1>1. ChainOK
  <2>1. NoReserve \in Account
    BY ConstantsAreNat DEF NoReserve, Account
  <2>2. reserves \in [1..MaxReserves -> Account] /\ txs \in [1..MaxTx -> Tx]
    BY <2>1, NoTxType, Zenon DEF Init
  <2> QED
    BY <2>2, FreshIsRecord, ConstantsAreNat DEF Init, ChainOK
<1>2. RecordsOK
  BY FreshIsRecord DEF Init, RecordsOK
<1>3. JobOK
  <2>1. polled \in BOOLEAN /\ pc = "form" /\ mode = "none"
    BY Zenon DEF Init
  <2>2. funding \in FundingRecord /\ snap \in Amounts /\ amounts \in Amounts
    BY FreshIsRecord DEF Init
  <2>3. /\ target \in 0..MaxReserves + 1 /\ cur \in -1..N + 1 /\ tries \in 0..SlippageSteps /\ wait \in 0..MaxTx
    BY ConstantsAreNat DEF Init
  <2> QED
    BY <2>1, <2>2, <2>3 DEF JobOK
<1>4. OutcomeOK
  BY ConstantsAreNat DEF Init, OutcomeOK
<1>5. Accounts /\ Places /\ Resumes /\ Awaits /\ ReportedActive
  BY DEF Init, Accounts, Places, Resumes, Awaits, ReportedActive
<1> QED
  BY <1>1, <1>2, <1>3, <1>4, <1>5 DEF IInv, TypeOK

LEMMA NextKeeps == IInv /\ [Next]_vars => IInv'
<1> SUFFICES ASSUME IInv, [Next]_vars PROVE IInv'
  OBVIOUS
<1>1. CASE Chain
  BY <1>1, ForeignReserveKeeps, LandKeeps, SlipsKeeps, PassKeeps DEF Chain
<1>2. CASE Client
  <2>1. CASE Funding
    BY <2>1, ReconcileKeeps, AlreadyHeldKeeps, NeedsSwapKeeps, SendSwapKeeps, SwapConfirmedKeeps,
       SwapNotLandedKeeps, SwapUnknownKeeps DEF Funding
  <2>2. CASE Building
    BY <2>2, DeriveKeeps, PreflightFailsKeeps, SendBatchKeeps, BatchConfirmedKeeps, StopsKeep,
       SendSeedKeeps, LaunchSeededKeeps, SendFailsKeeps DEF Building
  <2>3. CASE Resuming
    BY <2>3, ResumeReadsKeeps, ResumeFundsKeeps, ResumeFundedKeeps, ResumeSeededKeeps,
       ResumeEndsKeeps, ResumeUnreadKeeps DEF Resuming
  <2> QED
    BY <1>2, <2>1, <2>2, <2>3, PollStatusKeeps, ReconcilingKeeps, RecoverKeeps, RecoverUnreadKeeps
       DEF Client
<1>3. CASE Creator
  BY <1>3, PressLaunchKeeps, LaunchFindsMarkerKeeps, PressResumeKeeps, CheckAgainKeeps DEF Creator
<1>4. CASE Rejects \/ Abandon \/ Reload \/ SaveDraft
  BY <1>4, RejectsKeeps, AbandonKeeps, ReloadKeeps, SaveDraftKeeps
<1>5. CASE Stop \/ UNCHANGED vars
  BY <1>5, StutterKeeps DEF Stop
<1> QED
  BY <1>1, <1>2, <1>3, <1>4, <1>5 DEF Next

LEMMA AlwaysIInv == Spec => []IInv
BY InitEstablishes, NextKeeps, PTL DEF Spec

(***************************************************************************)
(* The marker.                                                             *)
(***************************************************************************)
\* The marker names the Reserve the job builds and the panel shows; a launch
\* has none until it has derived its id.
Tracked ==
    /\ mode = "resume" => panel.id = marker.id /\ target = marker.id
    /\ pc = "panel" => panel.id = marker.id
    /\ mode = "launch" => marker.id = IF pc \in {"fund", "sign", "swap"} THEN 0 ELSE target

\* A step that drops the marker of a half-built Reserve abandons it.
Keeps == HalfBuilt(marker.id) /\ marker'.id # marker.id => marker.id \in abandoned'

LEMMA SetFundingKeepsId == ASSUME SetFunding(funding'), IInv PROVE marker'.id = marker.id
BY RecordTypes DEF SetFunding, Deploy

LEMMA SetFundingIs == ASSUME NEW f, SetFunding(f) PROVE SetFunding(funding')
BY DEF SetFunding

\* The chain's steps and the draft's save leave marker, panel and job alone.
LEMMA ElsewhereTracks ==
    ASSUME Tracked, UNCHANGED <<marker, panel, pc, mode, target>>
    PROVE  Tracked' /\ Keeps
BY DEF Tracked, Keeps

\* Steps that end a job and keep the marker.
LEMMA JobOverTracks ==
    ASSUME Tracked, JobOver, UNCHANGED marker, pc' # "panel" \/ panel' = marker \/ (panel' = panel /\ mode = "resume")
    PROVE  Tracked' /\ Keeps
BY DEF JobOver, Tracked, Keeps

\* A success drops the marker of an Active Reserve.
LEMMA SuccessTracks ==
    ASSUME IInv, IInv', Tracked, mode # "none", pc \notin {"fund", "sign", "swap"}, Succeed(target), target >= 1
    PROVE  Tracked' /\ Keeps
<1>1. /\ pc' = "done" /\ mode' = "none" /\ reported' = target /\ UNCHANGED <<count, reserves>>
  BY DEF Succeed, JobOver, chain
<1>2. Active(target)
  BY <1>1 DEF IInv, ReportedActive, Active
<1>3. marker.id = target
  BY DEF Tracked, IInv, TypeOK, JobOK
<1> QED
  BY <1>1, <1>2, <1>3 DEF Tracked, Keeps, HalfBuilt, Active, Unseeded

LEMMA FundingTracks == ASSUME IInv, Tracked, Funding PROVE Tracked' /\ Keeps
<1>1. CASE Reconcile \/ AlreadyHeld
  <2>1. marker'.id = marker.id /\ UNCHANGED <<panel, pc, mode, target>> /\ pc = "fund"
    BY <1>1, SetFundingIs, SetFundingKeepsId DEF Reconcile, AlreadyHeld
  <2> QED
    BY <2>1 DEF Tracked, Keeps
<1>2. CASE NeedsSwap
  <2>1. CASE pc' = "sign"
    BY <1>2, <2>1, SetFundingIs, SetFundingKeepsId DEF NeedsSwap, FundingStops, ShowForm, Tracked, Keeps
  <2>2. CASE pc' # "sign"
    BY <1>2, <2>2 DEF NeedsSwap, FundingStops, ShowForm, JobOver, Tracked, Keeps, IInv, TypeOK, JobOK, Places
  <2> QED
    BY <2>1, <2>2
<1>3. CASE SendSwap \/ SwapConfirmed
  <2>1. /\ marker'.id = marker.id /\ UNCHANGED <<panel, mode, target>>
        /\ pc \in {"sign", "swap"} /\ pc' \in {"fund", "swap"}
    BY <1>3, SetFundingIs, SetFundingKeepsId DEF SendSwap, SwapConfirmed
  <2> QED
    BY <2>1 DEF Tracked, Keeps
<1>4. CASE SwapNotLanded
  <2>1. CASE pc' = "form"
    BY <1>4, <2>1 DEF SwapNotLanded, ShowForm, JobOver, Tracked, Keeps
  <2>2. CASE pc' # "form"
    <3>1. /\ marker'.id = marker.id /\ UNCHANGED <<panel, mode, target>>
          /\ pc = "swap" /\ (pc' = "sign" \/ (pc' = "check" /\ mode # "launch"))
      BY <1>4, <2>2, SetFundingIs, SetFundingKeepsId DEF SwapNotLanded, ShowForm
    <3> QED
      BY <3>1 DEF Tracked, Keeps
  <2> QED
    BY <2>1, <2>2
<1>5. CASE SwapUnknown
  BY <1>5 DEF SwapUnknown, FundingStops, ShowForm, JobOver, disk, Tracked, Keeps
<1> QED
  BY <1>1, <1>2, <1>3, <1>4, <1>5 DEF Funding

LEMMA BuildingTracks == ASSUME IInv, IInv', Tracked, Building PROVE Tracked' /\ Keeps
<1>1. CASE Derive
  <2>1. marker.id = 0 /\ marker'.id = target' /\ mode' = "launch" /\ pc' = "send" /\ ~HalfBuilt(0)
    BY <1>1 DEF Derive, Funded, Tracked, HalfBuilt, Mine
  <2> QED
    BY <2>1 DEF Tracked, Keeps
<1>2. CASE PreflightFails
  BY <1>2, JobOverTracks DEF PreflightFails, ShowForm, disk
<1>3. CASE SendBatch \/ BatchConfirmed \/ BatchStops \/ SendSeed \/ SeedStops
  <2>1. /\ UNCHANGED <<marker, panel, mode, target>> /\ pc' \notin {"panel", "fund", "sign", "swap"}
        /\ pc \in {"send", "batch", "seed", "seeding"}
    BY <1>3 DEF SendBatch, BatchConfirmed, BatchStops, SendSeed, SeedStops, disk, job
  <2> QED
    BY <2>1 DEF Tracked, Keeps
<1>4. CASE LaunchSeeded
  BY <1>4, SuccessTracks DEF LaunchSeeded, IInv, Places
<1>5. CASE SendFails
  BY <1>5 DEF SendFails, FundingStops, ShowForm, JobOver, disk, job, Tracked, Keeps
<1> QED
  BY <1>1, <1>2, <1>3, <1>4, <1>5 DEF Building

LEMMA ReconcilingTracks == ASSUME IInv, IInv', Tracked, Reconciling PROVE Tracked' /\ Keeps
<1>1. CASE ReserveExists
  BY <1>1, JobOverTracks DEF ReserveExists, ShowPanel, ShowForm, disk
<1>2. CASE ReserveMissing
  <2>1. pc = "exists" /\ target > count /\ JobOver /\ pc' = "form"
    BY <1>2 DEF ReserveMissing, ShowForm
  <2>2. marker.id = target
    BY <2>1 DEF Tracked, IInv, Places, TypeOK, JobOK
  <2>3. ~HalfBuilt(marker.id)
    BY <2>1, <2>2 DEF HalfBuilt, Mine, IInv, TypeOK, ChainOK, JobOK
  <2> QED
    BY <2>1, <2>3 DEF JobOver, Tracked, Keeps
<1>3. CASE ExistsUnread
  BY <1>3, JobOverTracks DEF ExistsUnread, ShowForm, disk
<1>4. CASE CheckedComplete
  BY <1>4, SuccessTracks DEF CheckedComplete, IInv, Places
<1>5. CASE CheckedIncomplete
  BY <1>5, JobOverTracks DEF CheckedIncomplete, BackFromJob, ShowPanel, ShowForm, StayInPanel, disk,
     IInv, Places, TypeOK, JobOK
<1> QED
  BY <1>1, <1>2, <1>3, <1>4, <1>5 DEF Reconciling

LEMMA ResumingTracks == ASSUME IInv, IInv', Tracked, Resuming PROVE Tracked' /\ Keeps
<1>1. mode = "resume"
  BY DEF Resuming, ResumeReads, ResumeFunds, ResumeFunded, ResumeSeeded, ResumeEnds, ResumeUnread, IInv, Places
<1>2. CASE pc' = "done"
  BY <1>1, <1>2, SuccessTracks, RecordTypes DEF Resuming, ResumeReads, ResumeFunds, ResumeFunded, ResumeSeeded,
     ResumeEnds, ResumeUnread, StayInPanel, StartFunding, IInv, Places
<1>3. CASE pc' = "panel"
  <2>1. JobOver /\ UNCHANGED <<marker, panel>>
    BY <1>3 DEF Resuming, ResumeReads, ResumeFunds, ResumeFunded, ResumeSeeded, ResumeEnds, ResumeUnread,
       StayInPanel, StartFunding, Succeed, disk
  <2> QED
    BY <1>1, <2>1, JobOverTracks
<1>4. CASE pc' \notin {"done", "panel"}
  <2>1. UNCHANGED <<marker, panel, mode, target>>
    BY <1>4 DEF Resuming, ResumeReads, ResumeFunds, ResumeFunded, ResumeSeeded, ResumeEnds, ResumeUnread,
       StayInPanel, StartFunding, Succeed, disk, job
  <2> QED
    BY <1>1, <1>4, <2>1 DEF Tracked, Keeps
<1> QED
  BY <1>2, <1>3, <1>4

LEMMA OthersTrack ==
    ASSUME IInv, Tracked,
           Recover \/ RecoverUnread \/ PressLaunch \/ LaunchFindsMarker \/ PressResume \/ CheckAgain
              \/ Rejects \/ Abandon \/ Reload
    PROVE  Tracked' /\ Keeps
<1>1. mode = "none" \/ Rejects \/ Reload
  BY DEF Recover, RecoverUnread, PressLaunch, LaunchFindsMarker, PressResume, CheckAgain, Abandon, IInv, Places
<1>2. CASE Rejects \/ Reload
  BY <1>2, JobOverTracks DEF Rejects, Reload, ShowForm, StayInPanel, disk, IInv, Places, TypeOK, JobOK
<1>3. CASE Recover \/ CheckAgain
  <2>1. mode' = "none" /\ (pc' = "panel" => panel' = marker /\ marker' = marker)
    BY <1>1, <1>3 DEF Recover, CheckAgain, ShowForm, ShowPanel, job, IInv, Places
  <2>2. marker' = marker \/ ~HalfBuilt(marker.id)
    <3>1. CASE UNCHANGED marker
      BY <3>1
    <3>2. CASE CheckAgain /\ ResumePoint(panel.id) = "complete"
      <4>1. Active(panel.id) /\ panel.id = marker.id
        BY <3>2, RecordTypes, CompleteIsActive DEF CheckAgain, IInv, Places, Tracked
      <4> QED
        BY <4>1 DEF Active, HalfBuilt, Unseeded
    <3>3. CASE Recover /\ ResumePoint(marker.id) = "complete"
      <4>1. Active(marker.id)
        BY <3>3, RecordTypes, CompleteIsActive DEF Recover, IInv, Places
      <4> QED
        BY <4>1 DEF Active, HalfBuilt, Unseeded
    <3>4. CASE Recover /\ ResumePoint(marker.id) = "start_fresh"
      <4>1. marker.id > count
        BY <3>4 DEF ResumePoint
      <4> QED
        BY <4>1, RecordTypes DEF HalfBuilt, Mine, IInv, TypeOK, ChainOK
    <3> QED
      BY <1>3, <3>1, <3>2, <3>3, <3>4 DEF Recover, CheckAgain, ShowPanel
  <2> QED
    BY <2>1, <2>2 DEF Tracked, Keeps
<1>4. CASE RecoverUnread \/ PressLaunch \/ LaunchFindsMarker \/ PressResume
  BY <1>1, <1>4 DEF RecoverUnread, PressLaunch, StartFunding, LaunchFindsMarker, PressResume, ShowForm,
     ShowPanel, job, disk, Tracked, Keeps, IInv, Places
<1>5. CASE Abandon
  BY <1>1, <1>5 DEF Abandon, ShowForm, job, Tracked, Keeps, IInv, Places
<1> QED
  BY <1>2, <1>3, <1>4, <1>5

LEMMA NextTracks == IInv /\ IInv' /\ Tracked /\ [Next]_vars => Tracked' /\ Keeps
<1> SUFFICES ASSUME IInv, IInv', Tracked, [Next]_vars PROVE Tracked' /\ Keeps
  OBVIOUS
<1>1. CASE Chain \/ PollStatus \/ SaveDraft \/ Stop \/ UNCHANGED vars
  <2>1. UNCHANGED <<marker, panel, pc, mode, target>>
    BY <1>1 DEF Chain, ForeignReserve, Land, Slips, Pass, Elsewhere, PollStatus, SaveDraft, Stop, vars, page, job, disk
  <2> QED
    BY <2>1, ElsewhereTracks
<1>2. CASE Funding \/ Building \/ Reconciling \/ Resuming
  BY <1>2, FundingTracks, BuildingTracks, ReconcilingTracks, ResumingTracks
<1>3. CASE Recover \/ RecoverUnread \/ Creator \/ Rejects \/ Abandon \/ Reload
  BY <1>3, OthersTrack DEF Creator
<1> QED
  BY <1>1, <1>2, <1>3 DEF Next, Client

(***************************************************************************)
(* The theorems.                                                           *)
(***************************************************************************)
\* Every variable keeps its type, and a transaction registers assets of the
\* basket only (packInstructionsBySize never runs past the last instruction).
THEOREM LaunchTypeCorrect == Spec => []TypeOK
<1>1. IInv => TypeOK
  BY DEF IInv
<1> QED
  BY <1>1, AlwaysIInv, PTL

\* Whatever fails, is lost, lands late or is resumed, the page shows a success
\* for an Active Reserve only.
THEOREM SuccessIsTrue == Spec => []ReportedActive
<1>1. IInv => ReportedActive
  BY DEF IInv
<1> QED
  BY <1>1, AlwaysIInv, PTL

\* No failure, reload or resume drops the marker of a Reserve that is half built:
\* only the creator abandons it.
THEOREM MarkerIsKept == Spec => KeptUntilActive
<1>1. Init => Tracked
  BY DEF Init, Tracked, NoDeploy
<1>2. Spec => []Tracked
  BY <1>1, AlwaysIInv, NextTracks, PTL DEF Spec
<1>3. IInv /\ IInv' /\ Tracked /\ [Next]_vars =>
          [HalfBuilt(marker.id) /\ marker'.id # marker.id => marker.id \in abandoned']_vars
  BY NextTracks DEF Keeps
<1> QED
  BY <1>2, <1>3, AlwaysIInv, PTL DEF Spec, KeptUntilActive

(***************************************************************************)
(* The order of registration: batches that fail, expire, land unseen or    *)
(* land after a resume sent others in their place never leave a gap.       *)
(***************************************************************************)
\* What the batch behind instruction c registers.
Interval(c) == {i \in 1..N : c < i /\ i <= c + BatchSize}
Reached(c) == IF c + BatchSize < N THEN c + BatchSize ELSE N

\* If Reserve i is ours, its first c assets are registered.  A Reserve of
\* another wallet never becomes ours, so nothing need be said of it.
Has(i, c) ==
    /\ i \in 1..count
    /\ reserves[i].owner = "me" => \A a \in 1..c : a \in reserves[i].registered

\* A batch in flight is the first of a Reserve or goes on where the assets
\* before it are registered; the program refuses it if any of its own is.
FlightInOrder(tx) ==
    \E c \in -1..N :
        /\ tx.range = Interval(c)
        /\ tx.create => c = -1
        /\ ~tx.create => c >= 0 /\ Has(tx.id, c)

FlightsInOrder ==
    \A t \in 1..MaxTx : txs[t].st = "flying" /\ txs[t].kind = "batch" => FlightInOrder(txs[t])

\* The job sends what comes next, and knows what has landed.
JobInOrder ==
    /\ pc \in {"send", "batch"} => cur < N
    /\ pc \in {"send", "batch"} /\ cur >= 0 => Has(target, cur)
    /\ pc = "batch" =>
          /\ txs[wait].st = "flying" =>
                /\ txs[wait].kind = "batch" /\ txs[wait].id = target
                /\ txs[wait].range = Interval(cur)
          /\ txs[wait].st = "landed" => Has(target, Reached(cur))

OInv == FlightsInOrder /\ JobInOrder /\ PrefixRegistered

(***************************************************************************)
(* Landings.                                                               *)
(***************************************************************************)
\* Registered assets stay registered, and accounts keep their owner.
Grown ==
    /\ count <= count' /\ count' \in 0..MaxReserves
    /\ \A i \in 1..count : /\ reserves'[i].owner = reserves[i].owner
                           /\ reserves[i].registered \subseteq reserves'[i].registered

LEMMA HasStays ==
    ASSUME TypeOK, Grown, NEW i, NEW c \in Int, Has(i, c)
    PROVE  /\ i \in 1..count'
           /\ reserves'[i].owner = "me" => \A a \in 1..c : a \in reserves'[i].registered
BY DEF Has, Grown, TypeOK, ChainOK

\* A prefix and the interval behind it make a longer prefix.
LEMMA PrefixGrows ==
    ASSUME NEW k \in 0..N, NEW c \in -1..N, Interval(c) \cap 1..k = {}, c <= k
    PROVE  \E j \in 0..N : (1..k) \cup Interval(c) = 1..j
<1>1. N \in Nat /\ BatchSize \in Nat /\ BatchSize >= 1 /\ c \in Int /\ k \in Int
  BY ConstantsAreNat
<1>2. CASE Interval(c) = {}
  BY <1>2
<1>3. CASE Interval(c) # {}
  <2>1. PICK e \in 1..N : c < e /\ e <= c + BatchSize
    BY <1>3 DEF Interval
  <2>2. c = k \/ (c = -1 /\ k = 0)
    <3>1. CASE c >= 0
      <4>1. c + 1 \in Interval(c)
        BY <1>1, <2>1, <3>1 DEF Interval
      <4> QED
        BY <1>1, <3>1, <4>1
    <3>2. CASE c < 0
      <4>1. 1 \in Interval(c)
        BY <1>1, <2>1, <3>2 DEF Interval
      <4> QED
        BY <1>1, <3>2, <4>1
    <3> QED
      BY <1>1, <3>1, <3>2
  <2>3. Reached(c) \in 0..N /\ k <= Reached(c)
    BY <1>1, <2>1, <2>2 DEF Reached
  <2>4. (1..k) \cup Interval(c) = 1..Reached(c)
    BY <1>1, <2>1, <2>2, <2>3 DEF Reached, Interval
  <2> QED
    BY <2>3, <2>4
<1> QED
  BY <1>2, <1>3

LEMMA BatchOrder ==
    ASSUME IInv, OInv, NEW tx \in Tx, tx.kind = "batch", Applies(tx), BatchEffect(tx), FlightInOrder(tx)
    PROVE  /\ PrefixRegistered' /\ Grown
           /\ tx.id \in 1..count' /\ tx.range \subseteq reserves'[tx.id].registered
<1> DEFINE r == IF tx.create THEN [owner |-> "me", registered |-> {}, status |-> "created"]
                             ELSE reserves[tx.id]
<1>1. /\ count' = IF tx.create THEN count + 1 ELSE count
      /\ reserves' = [reserves EXCEPT ![tx.id] = Registered(r, tx.range)]
  BY DEF BatchEffect
<1>2. /\ count \in 0..MaxReserves /\ reserves \in [1..MaxReserves -> Account] /\ MaxReserves \in Nat /\ N \in Nat
  BY ConstantsAreNat DEF IInv, TypeOK, ChainOK
<1>3. \/ tx.create /\ tx.id = count + 1 /\ count < MaxReserves
      \/ /\ ~tx.create /\ tx.id \in 1..count /\ reserves[tx.id].owner = "me"
         /\ tx.range \cap reserves[tx.id].registered = {}
  BY DEF Applies, HalfBuilt, Mine
<1>4. /\ tx.id \in 1..MaxReserves /\ tx.id \in 1..count' /\ count' \in 0..MaxReserves /\ count <= count'
      /\ \A i \in 1..count' : i # tx.id => i \in 1..count
  BY <1>1, <1>2, <1>3
<1>5. r \in Account /\ r.owner = "me" /\ (tx.create => r.registered = {}) /\ (~tx.create => r = reserves[tx.id])
  BY <1>2, <1>3, <1>4 DEF Account
<1>6. PICK k \in 0..N : r.registered = 1..k /\ tx.range \cap r.registered = {}
  <2>1. CASE tx.create
    BY <1>2, <1>5, <2>1
  <2>2. CASE ~tx.create
    <3>1. Mine(tx.id) /\ tx.id \in 1..MaxReserves
      BY <1>3, <1>4, <2>2 DEF Mine
    <3> QED
      BY <1>3, <1>5, <2>2, <3>1 DEF OInv, PrefixRegistered
  <2> QED
    BY <2>1, <2>2
<1> HIDE DEF r
<1>7. Registered(r, tx.range).owner = "me" /\ Registered(r, tx.range).registered = r.registered \cup tx.range
  BY <1>5 DEF Registered, Account
<1>8. PICK c \in -1..N : tx.range = Interval(c) /\ (tx.create => c = -1) /\ (~tx.create => c >= 0 /\ Has(tx.id, c))
  BY DEF FlightInOrder
<1>9. c <= k
  <2>1. CASE tx.create
    BY <1>8, <2>1
  <2>2. CASE ~tx.create
    <3>1. \A a \in 1..c : a \in 1..k
      BY <1>3, <1>5, <1>6, <1>8, <2>2 DEF Has
    <3>2. c = 0 \/ c \in 1..c
      BY <1>2, <1>8, <2>2
    <3> QED
      BY <1>2, <1>8, <3>1, <3>2
  <2> QED
    BY <2>1, <2>2
<1>10. \E j \in 0..N : Registered(r, tx.range).registered = 1..j
  BY <1>6, <1>7, <1>8, <1>9, PrefixGrows
<1>11. /\ reserves'[tx.id] = Registered(r, tx.range)
       /\ \A i \in 1..MaxReserves : i # tx.id => reserves'[i] = reserves[i]
  BY <1>1, <1>2, <1>4
<1>12. PrefixRegistered'
  <2> SUFFICES ASSUME NEW i \in 1..MaxReserves, i \in 1..count', reserves'[i].owner = "me"
               PROVE  \E j \in 0..N : reserves'[i].registered = 1..j
    BY DEF PrefixRegistered, Mine
  <2>1. CASE i = tx.id
    BY <1>10, <1>11, <2>1
  <2>2. CASE i # tx.id
    <3>1. Mine(i) /\ reserves'[i] = reserves[i]
      BY <1>4, <1>11, <2>2 DEF Mine
    <3> QED
      BY <3>1 DEF OInv, PrefixRegistered
  <2> QED
    BY <2>1, <2>2
<1>13. Grown
  <2> SUFFICES ASSUME NEW i \in 1..count
               PROVE  reserves'[i].owner = reserves[i].owner /\ reserves[i].registered \subseteq reserves'[i].registered
    BY <1>4 DEF Grown
  <2>1. CASE i = tx.id
    <3>1. r = reserves[i]
      BY <1>2, <1>3, <1>5, <2>1
    <3> QED
      BY <1>5, <1>7, <1>11, <2>1, <3>1
  <2>2. CASE i # tx.id
    BY <1>2, <1>11, <2>2
  <2> QED
    BY <2>1, <2>2
<1> QED
  BY <1>4, <1>7, <1>11, <1>12, <1>13

\* The reserves keep their assets: nothing else needs to be said about order.
LEMMA SameAssetsOrder ==
    ASSUME IInv, OInv, UNCHANGED count,
           \A i \in 1..count : /\ reserves'[i].owner = reserves[i].owner
                               /\ reserves'[i].registered = reserves[i].registered
    PROVE  PrefixRegistered' /\ Grown
<1>1. Grown
  BY DEF Grown, IInv, TypeOK, ChainOK
<1>2. PrefixRegistered'
  BY DEF OInv, PrefixRegistered, Mine
<1> QED
  BY <1>1, <1>2

\* What a job expects of its batch is there when the batch has landed.
LEMMA ReachedFrom ==
    ASSUME NEW c \in Int, c >= -1, c < N, NEW S,
           \A a \in Interval(c) : a \in S, c >= 0 => \A a \in 1..c : a \in S
    PROVE  \A a \in 1..Reached(c) : a \in S
<1> SUFFICES ASSUME NEW a \in 1..Reached(c) PROVE a \in S
  OBVIOUS
<1>1. N \in Nat /\ BatchSize \in Nat /\ BatchSize >= 1
  BY ConstantsAreNat
<1>2. a \in 1..N /\ a <= c + BatchSize
  BY <1>1 DEF Reached
<1>3. CASE c < a
  BY <1>1, <1>2, <1>3 DEF Interval
<1>4. CASE ~(c < a)
  BY <1>1, <1>2, <1>4
<1> QED
  BY <1>3, <1>4

\* A step of the chain keeps the order if it keeps or ends each transaction, and
\* a batch that lands registers what it carries.
LEMMA ChainOrder ==
    ASSUME IInv, OInv, Grown, PrefixRegistered', UNCHANGED page,
           \A u \in 1..MaxTx : txs'[u].st = "flying" =>
               /\ txs[u].st = "flying" /\ txs'[u].kind = txs[u].kind /\ txs'[u].id = txs[u].id
               /\ txs'[u].range = txs[u].range /\ txs'[u].create = txs[u].create,
           \A u \in 1..MaxTx : txs'[u].st = "landed" /\ txs[u].st # "landed" =>
               /\ txs[u].st = "flying"
               /\ txs[u].kind = "batch" => /\ txs[u].id \in 1..count'
                                           /\ txs[u].range \subseteq reserves'[txs[u].id].registered
    PROVE  OInv'
<1>1. FlightsInOrder'
  <2> SUFFICES ASSUME NEW t \in 1..MaxTx, txs'[t].st = "flying", txs'[t].kind = "batch"
               PROVE  FlightInOrder(txs[t])'
    BY DEF FlightsInOrder
  <2>1. /\ txs[t].st = "flying" /\ txs[t].kind = "batch" /\ txs'[t].id = txs[t].id
        /\ txs'[t].range = txs[t].range /\ txs'[t].create = txs[t].create
    OBVIOUS
  <2>2. PICK c \in -1..N : /\ txs[t].range = Interval(c) /\ (txs[t].create => c = -1)
                           /\ ~txs[t].create => c >= 0 /\ Has(txs[t].id, c)
    BY <2>1 DEF OInv, FlightsInOrder, FlightInOrder
  <2>3. ~txs[t].create => Has(txs[t].id, c)'
    BY <2>1, <2>2, HasStays DEF Has, IInv
  <2> QED
    BY <2>1, <2>2, <2>3 DEF FlightInOrder, Interval
<1>2. JobInOrder'
  <2>1. UNCHANGED <<pc, cur, target, wait>>
    BY DEF page, job
  <2>2. pc \in {"send", "batch"} => cur \in -1..N + 1 /\ cur \in Int /\ cur < N
    BY ConstantsAreNat DEF OInv, JobInOrder, IInv, TypeOK, JobOK
  <2>3. pc \in {"send", "batch"} /\ cur >= 0 => Has(target, cur)'
    BY <2>1, <2>2, HasStays DEF OInv, JobInOrder, Has, IInv
  <2>4. ASSUME pc = "batch" PROVE /\ wait \in 1..MaxTx
                                  /\ txs'[wait].st = "flying" =>
                                        /\ txs'[wait].kind = "batch" /\ txs'[wait].id = target
                                        /\ txs'[wait].range = Interval(cur)
                                  /\ txs'[wait].st = "landed" => Has(target, Reached(cur))'
    <3>1. wait \in 1..MaxTx
      BY <2>4, ConstantsAreNat DEF IInv, Places, TypeOK, ChainOK
    <3>2. txs'[wait].st = "flying" => /\ txs'[wait].kind = "batch" /\ txs'[wait].id = target
                                      /\ txs'[wait].range = Interval(cur)
      BY <2>4, <3>1 DEF OInv, JobInOrder
    <3>3. Reached(cur) \in Int
      BY <2>2, <2>4, ConstantsAreNat DEF Reached
    <3>4. CASE txs'[wait].st = "landed" /\ txs[wait].st = "landed"
      BY <2>1, <2>4, <3>1, <3>2, <3>3, <3>4, HasStays DEF OInv, JobInOrder, Has, Reached, IInv
    <3>5. CASE txs'[wait].st = "landed" /\ txs[wait].st # "landed"
      <4>1. /\ txs[wait].st = "flying" /\ txs[wait].kind = "batch" /\ txs[wait].id = target
            /\ txs[wait].range = Interval(cur)
        BY <2>4, <3>1, <3>5 DEF OInv, JobInOrder
      <4>2. target \in 1..count' /\ Interval(cur) \subseteq reserves'[target].registered
        BY <3>1, <3>5, <4>1
      <4>3. ASSUME reserves'[target].owner = "me"
            PROVE  \A a \in 1..Reached(cur) : a \in reserves'[target].registered
        BY <2>1, <2>2, <2>3, <2>4, <4>2, <4>3, ReachedFrom DEF Has
      <4> QED
        BY <2>1, <2>2, <2>4, <3>1, <3>2, <3>5, <4>2, <4>3 DEF Has, Reached
    <3> QED
      BY <3>1, <3>2, <3>4, <3>5
  <2> QED
    BY <2>1, <2>2, <2>3, <2>4 DEF JobInOrder, Interval
<1> QED
  BY <1>1, <1>2 DEF OInv

LEMMA LandOrder == ASSUME IInv, OInv, NEW t \in 1..MaxTx, Land(t) PROVE OInv'
<1>0. PICK tx : tx = txs[t]
  OBVIOUS
<1>1. /\ tx \in Tx /\ tx.st = "flying" /\ UNCHANGED page
      /\ reserves \in [1..MaxReserves -> Account] /\ count \in 0..MaxReserves
  BY <1>0 DEF IInv, TypeOK, ChainOK, Land, Flying, Elsewhere
<1>2. PICK st \in {"landed", "failed"} : Ends(t, st)
  BY DEF Land
<1>3. /\ txs'[t].st = st
      /\ \A u \in 1..MaxTx : u # t => txs'[u] = txs[u]
  BY <1>2, EndsKeeps DEF IInv, TypeOK
<1>4. CASE tx.kind = "batch" /\ Applies(tx) /\ BatchEffect(tx)
  <2>1. FlightInOrder(tx)
    BY <1>0, <1>1, <1>4 DEF OInv, FlightsInOrder
  <2>2. /\ PrefixRegistered' /\ Grown
        /\ tx.id \in 1..count' /\ tx.range \subseteq reserves'[tx.id].registered
    BY <1>1, <1>4, <2>1, BatchOrder
  <2> QED
    BY <1>0, <1>1, <1>3, <2>2, ChainOrder
<1>5. CASE ~(tx.kind = "batch" /\ Applies(tx) /\ BatchEffect(tx))
  <2>1. /\ UNCHANGED count
        /\ \A i \in 1..count : /\ reserves'[i].owner = reserves[i].owner
                               /\ reserves'[i].registered = reserves[i].registered
        /\ tx.kind = "batch" => st # "landed"
    <3>1. CASE SwapEffect(tx) /\ tx.kind = "swap"
      BY <3>1 DEF SwapEffect
    <3>2. CASE SeedEffect(tx) /\ tx.kind = "seed"
      BY <1>1, <3>2 DEF SeedEffect, Account
    <3>3. CASE Ends(t, "failed") /\ UNCHANGED <<count, reserves>>
      <4>1. txs'[t].st = "failed"
        BY <3>3, EndsKeeps DEF IInv, TypeOK
      <4> QED
        BY <1>3, <3>3, <4>1
    <3> QED
      BY <1>0, <1>5, <3>1, <3>2, <3>3 DEF Land, SwapEffect, BatchEffect, SeedEffect
  <2>2. PrefixRegistered' /\ Grown
    BY <2>1, SameAssetsOrder
  <2> QED
    BY <1>0, <1>1, <1>3, <2>1, <2>2, ChainOrder
<1> QED
  BY <1>4, <1>5

LEMMA SlipsOrder == ASSUME IInv, OInv, NEW t \in 1..MaxTx, Slips(t) PROVE OInv'
<1>1. /\ UNCHANGED <<page, count, reserves>> /\ txs'[t].st = "failed"
      /\ \A u \in 1..MaxTx : u # t => txs'[u] = txs[u]
  BY EndsKeeps DEF Slips, Elsewhere, IInv, TypeOK
<1>2. PrefixRegistered' /\ Grown
  BY <1>1, SameAssetsOrder
<1> QED
  BY <1>1, <1>2, ChainOrder

LEMMA PassOrder == ASSUME IInv, OInv, NEW t \in 1..MaxTx, Pass(t) PROVE OInv'
<1>1. /\ UNCHANGED <<page, count, reserves>> /\ txs' = [txs EXCEPT ![t].past = TRUE]
      /\ txs \in [1..MaxTx -> Tx]
  BY DEF Pass, Elsewhere, IInv, TypeOK, ChainOK
<1>2. \A u \in 1..MaxTx : /\ txs'[u].st = txs[u].st /\ txs'[u].kind = txs[u].kind /\ txs'[u].id = txs[u].id
                          /\ txs'[u].range = txs[u].range /\ txs'[u].create = txs[u].create
  BY <1>1 DEF Tx
<1>3. PrefixRegistered' /\ Grown
  BY <1>1, SameAssetsOrder
<1> QED
  BY <1>1, <1>2, <1>3, ChainOrder

LEMMA ForeignReserveOrder == ASSUME IInv, OInv, ForeignReserve PROVE OInv'
<1>1. PICK s \in {"assetsInitializing", "active"}, k \in 1..N + 1 :
          reserves' = [reserves EXCEPT ![count + 1] = [owner |-> "other", registered |-> 1..k, status |-> s]]
  BY DEF ForeignReserve
<1>2. /\ count < MaxReserves /\ count' = count + 1 /\ UNCHANGED <<page, txs>>
      /\ reserves \in [1..MaxReserves -> Account] /\ count \in 0..MaxReserves /\ MaxReserves \in Nat
  BY ConstantsAreNat DEF IInv, TypeOK, ChainOK, ForeignReserve
<1>3. /\ reserves'[count + 1].owner = "other"
      /\ \A i \in 1..MaxReserves : i # count + 1 => reserves'[i] = reserves[i]
  BY <1>1, <1>2
<1>4. Grown
  BY <1>2, <1>3 DEF Grown
<1>5. PrefixRegistered'
  BY <1>2, <1>3 DEF OInv, PrefixRegistered, Mine
<1> QED
  BY <1>2, <1>4, <1>5, ChainOrder

(***************************************************************************)
(* The page.                                                               *)
(***************************************************************************)
\* The page's steps leave what is in flight in flight.
LEMMA IdleOrder ==
    ASSUME IInv, OInv, UNCHANGED <<count, reserves, txs>>, JobInOrder'
    PROVE  OInv'
<1>1. FlightsInOrder'
  BY DEF OInv, FlightsInOrder, FlightInOrder, Has, Interval
<1>2. PrefixRegistered'
  BY DEF OInv, PrefixRegistered, Mine
<1> QED
  BY <1>1, <1>2 DEF OInv

\* A transaction that is not a batch changes nothing of the order.
LEMMA SendsOtherOrder ==
    ASSUME IInv, OInv, NEW tx \in Tx, Sends(tx), tx.kind # "batch", pc' \notin {"send", "batch"}
    PROVE  OInv'
<1>1. /\ UNCHANGED <<count, reserves>> /\ sent + 1 \in 1..MaxTx
      /\ txs' = [txs EXCEPT ![sent + 1] = [tx EXCEPT !.st = "flying"]]
      /\ txs \in [1..MaxTx -> Tx]
  BY ConstantsAreNat DEF Sends, IInv, TypeOK, ChainOK
<1>2. /\ txs'[sent + 1].kind # "batch"
      /\ \A u \in 1..MaxTx : u # sent + 1 => txs'[u] = txs[u]
  BY <1>1 DEF Tx
<1>3. FlightsInOrder'
  BY <1>1, <1>2 DEF OInv, FlightsInOrder, FlightInOrder, Has, Interval
<1>4. PrefixRegistered' /\ JobInOrder'
  BY <1>1 DEF OInv, PrefixRegistered, Mine, JobInOrder
<1> QED
  BY <1>3, <1>4 DEF OInv

LEMMA SendBatchOrder == ASSUME IInv, OInv, SendBatch PROVE OInv'
<1> DEFINE c0 == 0 \in NextBatch
           g == NextBatch \ {0}
           tx == [NoTx EXCEPT !.kind = "batch", !.id = target, !.create = c0, !.range = g]
<1>1. /\ pc = "send" /\ pc' = "batch" /\ Sends(tx) /\ UNCHANGED <<target, cur>>
  BY DEF SendBatch
<1>2. /\ cur \in -1..N /\ cur < N /\ (cur >= 0 => Has(target, cur)) /\ target \in 0..MaxReserves + 1
  BY <1>1, ConstantsAreNat DEF OInv, JobInOrder, IInv, TypeOK, JobOK
<1>3. g = Interval(cur) /\ c0 \in BOOLEAN /\ g \in SUBSET Assets /\ (c0 => cur = -1) /\ (~c0 => cur >= 0)
  BY <1>2, ConstantsAreNat DEF NextBatch, Interval, Assets
<1> HIDE DEF c0, g
<1>4. tx \in Tx /\ tx.kind = "batch" /\ tx.id = target /\ tx.range = g /\ tx.create = c0
  BY <1>2, <1>3, NoTxType DEF Tx
<1> HIDE DEF tx
<1>5. /\ UNCHANGED <<count, reserves>> /\ sent + 1 \in 1..MaxTx /\ wait' = sent + 1
      /\ txs' = [txs EXCEPT ![sent + 1] = [tx EXCEPT !.st = "flying"]]
      /\ txs \in [1..MaxTx -> Tx]
  BY <1>1, ConstantsAreNat DEF Sends, IInv, TypeOK, ChainOK
<1>6. /\ txs'[sent + 1].st = "flying" /\ txs'[sent + 1].kind = "batch" /\ txs'[sent + 1].id = target
      /\ txs'[sent + 1].range = g /\ txs'[sent + 1].create = c0
      /\ \A u \in 1..MaxTx : u # sent + 1 => txs'[u] = txs[u]
  BY <1>4, <1>5 DEF Tx
<1>7. FlightsInOrder'
  <2> SUFFICES ASSUME NEW t \in 1..MaxTx, txs'[t].st = "flying", txs'[t].kind = "batch"
               PROVE  FlightInOrder(txs[t])'
    BY DEF FlightsInOrder
  <2>1. CASE t = sent + 1
    BY <1>2, <1>3, <1>5, <1>6, <2>1 DEF FlightInOrder, Has, Interval
  <2>2. CASE t # sent + 1
    BY <1>5, <1>6, <2>2 DEF OInv, FlightsInOrder, FlightInOrder, Has, Interval
  <2> QED
    BY <2>1, <2>2
<1>8. JobInOrder'
  BY <1>1, <1>2, <1>3, <1>5, <1>6 DEF JobInOrder, Has, Interval
<1>9. PrefixRegistered'
  BY <1>5 DEF OInv, PrefixRegistered, Mine
<1> QED
  BY <1>7, <1>8, <1>9 DEF OInv

LEMMA BatchConfirmedOrder == ASSUME IInv, OInv, BatchConfirmed PROVE OInv'
<1>1. /\ pc = "batch" /\ txs[wait].st = "landed" /\ cur' = Reached(cur) /\ pc' # "batch"
      /\ pc' = "send" => cur' < N
      /\ UNCHANGED <<count, reserves, txs, target>>
  BY DEF BatchConfirmed, Confirmed, Reached, Idle, chain
<1>2. Has(target, Reached(cur))
  BY <1>1 DEF OInv, JobInOrder
<1>3. JobInOrder'
  BY <1>1, <1>2 DEF JobInOrder, Has
<1> QED
  BY <1>1, <1>3, IdleOrder

LEMMA ResumeReadsOrder == ASSUME IInv, OInv, ResumeReads PROVE OInv'
<1>1. UNCHANGED <<count, reserves, txs>> /\ target >= 1 /\ target \in 0..MaxReserves + 1
  BY DEF ResumeReads, Succeed, Idle, chain, IInv, Places, TypeOK, JobOK
<1>2. CASE pc' # "send"
  BY <1>1, <1>2, IdleOrder DEF ResumeReads, Succeed, StayInPanel, JobInOrder
<1>3. CASE pc' = "send"
  <2>1. ResumePoint(target) = "registration" /\ cur' = RegisteredUpTo(target) /\ target' = target
    BY <1>3 DEF ResumeReads, Succeed, StayInPanel
  <2>2. ~(target > count) /\ Cardinality(reserves[target].registered) < N
    BY <2>1, Zenon DEF ResumePoint
  <2>3. target \in 1..count /\ target \in 1..MaxReserves
    BY <1>1, <2>2, ConstantsAreNat DEF IInv, TypeOK, ChainOK
  <2>4. ASSUME reserves[target].owner = "me"
        PROVE  \A a \in 1..cur' : a \in reserves[target].registered
    <3>1. PICK k \in 0..N : reserves[target].registered = 1..k
      BY <2>3, <2>4 DEF OInv, PrefixRegistered, Mine
    <3>2. 1 \in Int /\ k \in Int /\ k >= 0
      BY ConstantsAreNat
    <3>3. Cardinality(1..k) = k
      BY <3>2, FS_Interval
    <3> QED
      BY <2>1, <3>1, <3>3 DEF RegisteredUpTo
  <2>5. JobInOrder'
    BY <1>1, <1>3, <2>1, <2>2, <2>3, <2>4 DEF JobInOrder, Has, RegisteredUpTo
  <2> QED
    BY <1>1, <2>5, IdleOrder
<1> QED
  BY <1>2, <1>3

LEMMA KeptPlaceOrder ==
    ASSUME IInv, OInv, UNCHANGED <<count, reserves, txs, pc, cur, target, wait>>
    PROVE  OInv'
<1>1. JobInOrder'
  BY DEF OInv, JobInOrder, Has, Interval, Reached
<1> QED
  BY <1>1, IdleOrder

LEMMA OtherPlaceOrder ==
    ASSUME IInv, OInv, UNCHANGED <<count, reserves, txs>>, pc' \notin {"send", "batch"}
    PROVE  OInv'
BY IdleOrder DEF JobInOrder

LEMMA DeriveOrder == ASSUME IInv, OInv, Derive PROVE OInv'
<1>1. UNCHANGED <<count, reserves, txs>> /\ pc' = "send" /\ cur' = -1
  BY DEF Derive, Idle, chain
<1>2. JobInOrder'
  BY <1>1, ConstantsAreNat DEF JobInOrder
<1> QED
  BY <1>1, <1>2, IdleOrder

LEMMA FundingOrderKept == ASSUME IInv, OInv, Funding PROVE OInv'
<1>1. CASE SendSwap
  <2> DEFINE tx == [NoTx EXCEPT !.kind = "swap", !.asset = cur]
  <2>1. cur \in 0..N /\ Sends(tx) /\ pc' = "swap"
    BY <1>1, CurInFund DEF SendSwap
  <2>2. tx \in Tx /\ tx.kind = "swap"
    BY <2>1, NoTxType DEF Tx
  <2> HIDE DEF tx
  <2> QED
    BY <2>1, <2>2, SendsOtherOrder
<1>2. CASE Reconcile \/ AlreadyHeld \/ NeedsSwap \/ SwapConfirmed \/ SwapNotLanded \/ SwapUnknown
  <2>1. UNCHANGED <<count, reserves, txs>> /\ pc' \notin {"send", "batch"}
    BY <1>2 DEF Reconcile, AlreadyHeld, NeedsSwap, SwapConfirmed, SwapNotLanded, SwapUnknown, FundingStops,
       ShowForm, Idle, chain
  <2> QED
    BY <2>1, OtherPlaceOrder
<1> QED
  BY <1>1, <1>2 DEF Funding

LEMMA BuildingOrder == ASSUME IInv, OInv, Building PROVE OInv'
<1>1. CASE SendSeed
  <2> DEFINE tx == [NoTx EXCEPT !.kind = "seed", !.id = target, !.amt = amounts]
  <2>1. target \in 0..MaxReserves + 1 /\ amounts \in Amounts /\ Sends(tx) /\ pc' = "seeding"
    BY <1>1 DEF SendSeed, IInv, TypeOK, JobOK
  <2>2. tx \in Tx /\ tx.kind = "seed"
    BY <2>1, NoTxType DEF Tx
  <2> HIDE DEF tx
  <2> QED
    BY <2>1, <2>2, SendsOtherOrder
<1>2. CASE PreflightFails \/ BatchStops \/ LaunchSeeded \/ SeedStops \/ SendFails
  <2>1. UNCHANGED <<count, reserves, txs>> /\ pc' \notin {"send", "batch"}
    BY <1>2 DEF PreflightFails, BatchStops, LaunchSeeded, SeedStops, SendFails, FundingStops, Succeed,
       ShowForm, Idle, chain
  <2> QED
    BY <2>1, OtherPlaceOrder
<1> QED
  BY <1>1, <1>2, DeriveOrder, SendBatchOrder, BatchConfirmedOrder DEF Building

LEMMA JobEndsOrder ==
    ASSUME IInv, OInv,
           Reconciling \/ ResumeFunds \/ ResumeFunded \/ ResumeSeeded \/ ResumeEnds \/ ResumeUnread
    PROVE  OInv'
<1>1. UNCHANGED <<count, reserves, txs>> /\ pc' \notin {"send", "batch"}
  BY DEF Reconciling, ReserveExists, ReserveMissing, ExistsUnread, CheckedComplete, CheckedIncomplete,
     ResumeFunds, ResumeFunded, ResumeSeeded, ResumeEnds, ResumeUnread, StartFunding, Succeed, BackFromJob,
     ShowPanel, ShowForm, StayInPanel, Idle, chain
<1> QED
  BY <1>1, OtherPlaceOrder

LEMMA BetweenJobsOrder ==
    ASSUME IInv, OInv, Recover \/ RecoverUnread \/ Creator \/ Rejects \/ Abandon \/ Reload
    PROVE  OInv'
<1>1. UNCHANGED <<count, reserves, txs>> /\ pc' \notin {"send", "batch"}
  BY DEF Recover, RecoverUnread, Creator, PressLaunch, LaunchFindsMarker, PressResume, CheckAgain, Rejects,
     Abandon, Reload, StartFunding, ShowPanel, ShowForm, StayInPanel, Idle, chain
<1> QED
  BY <1>1, OtherPlaceOrder

LEMMA StillOrder == ASSUME IInv, OInv, PollStatus \/ SaveDraft \/ Stop \/ UNCHANGED vars PROVE OInv'
<1>1. UNCHANGED <<count, reserves, txs, pc, cur, target, wait>>
  BY DEF PollStatus, SaveDraft, Stop, Idle, vars, chain, page, job
<1> QED
  BY <1>1, KeptPlaceOrder

LEMMA NextOrder == IInv /\ OInv /\ [Next]_vars => OInv'
<1> SUFFICES ASSUME IInv, OInv, [Next]_vars PROVE OInv'
  OBVIOUS
<1>1. CASE Chain
  BY <1>1, LandOrder, SlipsOrder, PassOrder, ForeignReserveOrder DEF Chain
<1>2. CASE Client
  BY <1>2, FundingOrderKept, BuildingOrder, JobEndsOrder, ResumeReadsOrder, BetweenJobsOrder, StillOrder
     DEF Client, Resuming
<1>3. CASE Creator \/ Rejects \/ Abandon \/ Reload
  BY <1>3, BetweenJobsOrder
<1>4. CASE SaveDraft \/ Stop \/ UNCHANGED vars
  BY <1>4, StillOrder
<1> QED
  BY <1>1, <1>2, <1>3, <1>4 DEF Next

LEMMA InitOrder == Init => OInv
<1> SUFFICES ASSUME Init PROVE OInv
  OBVIOUS
<1>1. FlightsInOrder
  BY DEF Init, FlightsInOrder, NoTx
<1>2. JobInOrder /\ PrefixRegistered
  BY DEF Init, JobInOrder, PrefixRegistered, Mine
<1> QED
  BY <1>1, <1>2 DEF OInv

\* The registered assets of a Reserve of ours are a prefix of the order its
\* deploy was started with, whatever became of its batches.
THEOREM RegistrationLeavesNoGap == Spec => []PrefixRegistered
<1>1. Spec => []OInv
  BY InitOrder, NextOrder, AlwaysIInv, PTL DEF Spec
<1>2. OInv => PrefixRegistered
  BY DEF OInv
<1> QED
  BY <1>1, <1>2, PTL

(***************************************************************************)
(* The seeding gate.  The assets funding has passed are ready, and what    *)
(* comes between funding and the seed leaves their records alone.          *)
(***************************************************************************)
InFunding == pc \in {"fund", "sign", "swap"}
Ready(a) == funding[a].status = "ready_to_seed"

GateInv ==
    /\ InFunding => \A a \in Assets : a < cur => Ready(a)
    /\ pc = "seed" \/ (mode = "launch" /\ pc \in {"send", "batch"}) => CanEnterSeeding(funding)

LEMMA AdvanceElsewhere ==
    ASSUME NEW f \in FundingRecord, NEW a \in Assets, NEW to, NEW sig, NEW b \in Assets, b # a
    PROVE  Advance(f, a, to, sig)[b] = f[b]
BY DEF Advance, FundingRecord

LEMMA AdvanceToReady ==
    ASSUME NEW f \in FundingRecord, NEW a \in Assets
    PROVE  Advance(f, a, "ready_to_seed", 0)[a].status = "ready_to_seed"
<1>1. FundingOrder["ready_to_seed"] = 6 /\ FundingOrder[f[a].status] <= 6
  BY DEF FundingRecord, Statuses, FundingOrder
<1> QED
  BY <1>1 DEF Advance, FundingRecord

LEMMA QuoteElsewhere ==
    ASSUME NEW f \in FundingRecord, cur \in Assets, NEW b \in Assets, b # cur
    PROVE  QuoteAsset(f)[b] = f[b]
<1>1. PICK g : g = Advance(f, cur, "quoted", 0)
  OBVIOUS
<1>2. g \in FundingRecord /\ g[b] = f[b]
  BY <1>1, AdvanceElsewhere, AdvanceKeepsRecord, StatusesAre, ConstantsAreNat
<1>3. Advance(g, cur, "awaiting_signature", 0)[b] = g[b]
  BY <1>2, AdvanceElsewhere
<1> QED
  BY <1>1, <1>2, <1>3 DEF QuoteAsset

\* A step of funding that stays at its asset disturbs no other record.
LEMMA GateAtAsset ==
    ASSUME IInv, GateInv, InFunding, InFunding', cur' = cur, cur \in Assets,
           \A b \in Assets : b # cur => funding'[b] = funding[b]
    PROVE  GateInv'
BY ConstantsAreNat DEF GateInv, InFunding, Ready, Assets

\* A step that moves on leaves a ready record behind.
LEMMA GatePastAsset ==
    ASSUME IInv, GateInv, InFunding, InFunding', cur' = cur + 1, cur \in Assets,
           \A b \in Assets : b # cur => funding'[b] = funding[b],
           funding'[cur].status = "ready_to_seed"
    PROVE  GateInv'
<1>1. ASSUME NEW a \in Assets, a < cur + 1 PROVE funding'[a].status = "ready_to_seed"
  BY <1>1, ConstantsAreNat DEF GateInv, InFunding, Ready, Assets
<1> QED
  BY <1>1 DEF GateInv, InFunding, Ready

LEMMA GateElsewhere ==
    ASSUME IInv, GateInv, UNCHANGED <<pc, mode, funding, cur>>
    PROVE  GateInv'
BY DEF GateInv, InFunding, Ready, CanEnterSeeding

LEMMA GateFunding == ASSUME IInv, GateInv, Funding PROVE GateInv'
<1>0. /\ InFunding /\ funding \in FundingRecord /\ N \in Nat
      /\ pc # "fund" \/ cur <= N => cur \in Assets
  <2>1. InFunding
    BY DEF InFunding, Funding, Reconcile, AlreadyHeld, NeedsSwap, SendSwap, SwapConfirmed, SwapNotLanded,
       SwapUnknown
  <2> QED
    BY <2>1, CurInFund, RecordTypes DEF InFunding
<1>1. CASE ~InFunding'
  <2>1. pc' \notin {"send", "batch", "seed"}
    BY DEF Funding, Reconcile, AlreadyHeld, NeedsSwap, SendSwap, SwapConfirmed, SwapNotLanded, SwapUnknown,
       FundingStops, ShowForm
  <2> QED
    BY <1>1, <2>1 DEF GateInv
<1>2. CASE InFunding' /\ (Reconcile \/ NeedsSwap \/ SendSwap \/ SwapNotLanded)
  <2>1. cur' = cur /\ cur \in Assets
    BY <1>0, <1>2 DEF InFunding, Reconcile, NeedsSwap, SendSwap, SwapNotLanded, FundingStops, ShowForm
  <2>2. \A b \in Assets : b # cur => funding'[b] = funding[b]
    <3>1. CASE Reconcile
      BY <1>0, <2>1, <3>1, AdvanceElsewhere DEF Reconcile, SetFunding
    <3>2. CASE NeedsSwap
      <4>1. funding' = QuoteAsset(funding)
        BY <1>2, <3>2 DEF NeedsSwap, SetFunding, FundingStops, ShowForm, InFunding
      <4> QED
        BY <1>0, <2>1, <4>1, QuoteElsewhere
    <3>3. CASE SendSwap
      BY <1>0, <2>1, <3>3, AdvanceElsewhere DEF SendSwap, SetFunding
    <3>4. CASE SwapNotLanded
      <4>1. PICK f : f = Advance(funding, cur, "not_started", 0)
        OBVIOUS
      <4>2. f \in FundingRecord /\ \A b \in Assets : b # cur => f[b] = funding[b]
        BY <1>0, <2>1, <4>1, AdvanceElsewhere, AdvanceKeepsRecord, StatusesAre, CurInFund DEF InFunding
      <4>3. funding' = QuoteAsset(f)
        BY <1>2, <3>4, <4>1 DEF SwapNotLanded, SetFunding, ShowForm, InFunding
      <4> QED
        BY <2>1, <4>2, <4>3, QuoteElsewhere
    <3> QED
      BY <1>2, <3>1, <3>2, <3>3, <3>4
  <2> QED
    BY <1>0, <1>2, <2>1, <2>2, GateAtAsset
<1>3. CASE AlreadyHeld
  <2>1. /\ cur' = cur + 1 /\ cur \in Assets /\ pc' = "fund"
        /\ funding' = Advance(funding, cur, "ready_to_seed", 0)
    BY <1>0, <1>3 DEF AlreadyHeld, ReadyWith, SetFunding
  <2>3. \A b \in Assets : b # cur => funding'[b] = funding[b]
    BY <1>0, <2>1, AdvanceElsewhere
  <2>4. funding'[cur].status = "ready_to_seed"
    BY <1>0, <2>1, AdvanceToReady
  <2> QED
    BY <1>0, <2>1, <2>3, <2>4, GatePastAsset DEF InFunding
<1>4. CASE SwapConfirmed
  <2>1. PICK f : f = Advance(funding, cur, "confirmed", 0)
    OBVIOUS
  <2>2. PICK g : g = Advance(f, cur, "balance_verified", 0)
    OBVIOUS
  <2>3. /\ cur' = cur + 1 /\ cur \in Assets /\ pc' = "fund"
        /\ funding' = Advance(g, cur, "ready_to_seed", 0)
    BY <1>0, <1>4, <2>1, <2>2 DEF SwapConfirmed, ReadyWith, SetFunding
  <2>4. f \in FundingRecord /\ \A b \in Assets : b # cur => f[b] = funding[b]
    BY <1>0, <2>1, <2>3, AdvanceElsewhere, AdvanceKeepsRecord, StatusesAre, CurInFund DEF InFunding
  <2>5. g \in FundingRecord /\ \A b \in Assets : b # cur => g[b] = funding[b]
    BY <1>0, <2>2, <2>3, <2>4, AdvanceElsewhere, AdvanceKeepsRecord, StatusesAre, CurInFund DEF InFunding
  <2>6. \A b \in Assets : b # cur => funding'[b] = funding[b]
    BY <2>3, <2>5, AdvanceElsewhere
  <2>7. funding'[cur].status = "ready_to_seed"
    BY <2>3, <2>5, AdvanceToReady
  <2> QED
    BY <1>0, <2>3, <2>6, <2>7, GatePastAsset DEF InFunding
<1>5. CASE SwapUnknown
  BY <1>1, <1>5 DEF SwapUnknown, FundingStops, ShowForm, InFunding
<1> QED
  BY <1>1, <1>2, <1>3, <1>4, <1>5 DEF Funding

LEMMA GateBuilding == ASSUME IInv, GateInv, Building PROVE GateInv'
<1>1. CASE pc' \notin {"fund", "sign", "swap", "send", "batch", "seed"}
  BY <1>1 DEF GateInv, InFunding
<1>2. CASE Derive
  <2>1. \A a \in Assets : a < cur
    BY <1>2, ConstantsAreNat DEF Derive, Funded, Assets, IInv, TypeOK, JobOK
  <2>2. CanEnterSeeding(funding) /\ pc' = "send" /\ funding' = funding
    BY <1>2, <2>1 DEF Derive, Funded, GateInv, InFunding, Ready, CanEnterSeeding
  <2> QED
    BY <2>2 DEF GateInv, InFunding, CanEnterSeeding
<1>3. CASE SendBatch \/ BatchConfirmed
  <2>1. /\ pc \in {"send", "batch"} /\ UNCHANGED <<mode, funding>>
        /\ pc' \notin {"fund", "sign", "swap"} /\ (pc' = "seed" => mode = "launch")
    BY <1>3 DEF SendBatch, BatchConfirmed
  <2> QED
    BY <2>1 DEF GateInv, InFunding, CanEnterSeeding
<1>4. CASE PreflightFails \/ BatchStops \/ SendSeed \/ LaunchSeeded \/ SeedStops \/ SendFails
  BY <1>1, <1>4 DEF PreflightFails, BatchStops, SendSeed, LaunchSeeded, SeedStops, SendFails, FundingStops,
     ShowForm, Succeed
<1> QED
  BY <1>2, <1>3, <1>4 DEF Building

LEMMA GateResuming == ASSUME IInv, GateInv, Resuming PROVE GateInv'
<1>1. CASE pc' \notin {"fund", "sign", "swap", "send", "batch", "seed"}
  BY <1>1 DEF GateInv, InFunding
<1>2. CASE ResumeFunds /\ pc' = "fund"
  BY <1>2, ConstantsAreNat DEF ResumeFunds, StartFunding, Succeed, GateInv, InFunding, Assets
<1>3. CASE ResumeFunded /\ pc' = "seed"
  <2>1. \A a \in Assets : a < cur
    BY <1>3, ConstantsAreNat DEF ResumeFunded, Funded, Assets, IInv, TypeOK, JobOK
  <2> QED
    BY <1>3, <2>1 DEF ResumeFunded, Funded, GateInv, InFunding, Ready, CanEnterSeeding, job
<1>4. CASE ResumeReads /\ pc' = "send"
  <2>1. mode' = "resume"
    BY <1>4 DEF ResumeReads, StayInPanel, Succeed, IInv, Places
  <2> QED
    BY <1>4, <2>1 DEF GateInv, InFunding
<1> QED
  BY <1>1, <1>2, <1>3, <1>4 DEF Resuming, ResumeReads, ResumeFunds, ResumeFunded, ResumeSeeded, ResumeEnds,
     ResumeUnread, StartFunding, StayInPanel, Succeed

LEMMA NextGate == IInv /\ GateInv /\ [Next]_vars => GateInv'
<1> SUFFICES ASSUME IInv, GateInv, [Next]_vars PROVE GateInv'
  OBVIOUS
<1>1. CASE Chain \/ PollStatus \/ SaveDraft \/ Stop \/ UNCHANGED vars
  <2>1. UNCHANGED <<pc, mode, funding, cur>>
    BY <1>1 DEF Chain, ForeignReserve, Land, Slips, Pass, Elsewhere, PollStatus, SaveDraft, Stop, vars, page, job
  <2> QED
    BY <2>1, GateElsewhere
<1>2. CASE PressLaunch
  BY <1>2, ConstantsAreNat DEF PressLaunch, StartFunding, GateInv, InFunding, Assets
<1>3. CASE Reconciling \/ Recover \/ RecoverUnread \/ LaunchFindsMarker \/ PressResume \/ CheckAgain
              \/ Rejects \/ Abandon \/ Reload
  <2>1. pc' \notin {"fund", "sign", "swap", "send", "batch", "seed"}
    BY <1>3 DEF Reconciling, ReserveExists, ReserveMissing, ExistsUnread, CheckedComplete, CheckedIncomplete,
       Succeed, BackFromJob, StayInPanel, ShowPanel, ShowForm, Recover, RecoverUnread, LaunchFindsMarker,
       PressResume, CheckAgain, Rejects, Abandon, Reload
  <2> QED
    BY <2>1 DEF GateInv, InFunding
<1> QED
  BY <1>1, <1>2, <1>3, GateFunding, GateBuilding, GateResuming DEF Next, Client, Creator

\* Funding never lets a job through to a seed its gate refuses, whatever the
\* record a launch or a resume started from.
THEOREM GateNeverRefuses == Spec => []GateOpen
<1>1. Init => GateInv
  BY DEF Init, GateInv, InFunding
<1>2. GateInv => GateOpen
  BY DEF GateInv, GateOpen
<1> QED
  BY <1>1, <1>2, NextGate, AlwaysIInv, PTL DEF Spec

(***************************************************************************)
(* The wallet.  What a launch found or bought stays in it unless a seed    *)
(* lands; a seed in flight is for a Reserve that is tracked or abandoned,  *)
(* and a launch starts when nothing is tracked.                            *)
(***************************************************************************)
SeedFlies(t) == txs[t].st = "flying" /\ txs[t].kind = "seed"

SeedsInv ==
    /\ pc = "seed" => target \in 1..count
    /\ \A t \in 1..MaxTx : SeedFlies(t) =>
          /\ txs[t].id \in 1..count
          /\ HalfBuilt(txs[t].id) => marker.id = txs[t].id \/ txs[t].id \in abandoned

Launching ==
    mode = "launch" /\ pc \in {"fund", "sign", "swap", "send", "batch", "seed"} /\ abandoned = {}

WalletInv ==
    Launching =>
        /\ \A t \in 1..MaxTx : SeedFlies(t) => ~HalfBuilt(txs[t].id)
        /\ \A a \in Assets : snap[a] <= held[a] /\ amounts[a] <= held[a]
        /\ pc \in {"send", "batch", "seed"} => \A a \in Assets : 1 <= amounts[a]

\* No step makes a Reserve half built that was there before, and the seeds in
\* flight are those that were.
SeedsSettle ==
    /\ count' \in Nat /\ count <= count' /\ abandoned \subseteq abandoned'
    /\ \A i \in 1..count : HalfBuilt(i)' => HalfBuilt(i)
    /\ \A t \in 1..MaxTx : SeedFlies(t)' => SeedFlies(t) /\ txs'[t].id = txs[t].id

LEMMA SeedsStay ==
    ASSUME IInv, SeedsInv, Keeps, SeedsSettle, pc' = "seed" => target' \in 1..count'
    PROVE  SeedsInv'
<1>1. ASSUME NEW t \in 1..MaxTx, SeedFlies(t)'
      PROVE  /\ txs'[t].id \in 1..count'
             /\ HalfBuilt(txs[t].id)' => marker'.id = txs'[t].id \/ txs'[t].id \in abandoned'
  <2>1. SeedFlies(t) /\ txs'[t].id = txs[t].id /\ txs[t].id \in 1..count
    BY <1>1 DEF SeedsSettle, SeedsInv
  <2>2. txs'[t].id \in 1..count'
    BY <2>1 DEF SeedsSettle, IInv, TypeOK, ChainOK
  <2>3. ASSUME HalfBuilt(txs[t].id)' PROVE marker'.id = txs'[t].id \/ txs'[t].id \in abandoned'
    <3>1. PICK i : i = txs[t].id
      OBVIOUS
    <3>2. HalfBuilt(i)
      BY <2>1, <2>3, <3>1 DEF SeedsSettle
    <3>3. marker.id = i \/ i \in abandoned
      BY <2>1, <3>1, <3>2 DEF SeedsInv
    <3> QED
      BY <2>1, <3>1, <3>2, <3>3 DEF SeedsSettle, Keeps
  <2> QED
    BY <2>2, <2>3
<1> QED
  BY <1>1 DEF SeedsInv

\* While the seeds in flight settle, a launch goes on with what it has.
LEMMA WalletStays ==
    ASSUME IInv, SeedsInv, WalletInv, SeedsSettle, Launching' => Launching,
           \A a \in Assets : Launching => snap'[a] <= held'[a] /\ amounts'[a] <= held'[a],
           Launching /\ pc' \in {"send", "batch", "seed"} => \A a \in Assets : 1 <= amounts'[a]
    PROVE  WalletInv'
<1>1. ASSUME Launching, NEW t \in 1..MaxTx, SeedFlies(t)' PROVE ~HalfBuilt(txs[t].id)'
  <2>1. SeedFlies(t) /\ txs'[t].id = txs[t].id /\ txs[t].id \in 1..count
    BY <1>1 DEF SeedsSettle, SeedsInv
  <2>2. ~HalfBuilt(txs[t].id)
    BY <1>1, <2>1 DEF WalletInv
  <2>3. PICK i : i = txs[t].id
    OBVIOUS
  <2>4. ~HalfBuilt(i)'
    BY <2>1, <2>2, <2>3 DEF SeedsSettle
  <2> QED
    BY <2>1, <2>3, <2>4
<1> QED
  BY <1>1 DEF WalletInv

(***************************************************************************)
(* The chain.                                                              *)
(***************************************************************************)
LEMMA OthersSettle ==
    ASSUME IInv, UNCHANGED <<count, reserves, txs>>, abandoned \subseteq abandoned'
    PROVE  SeedsSettle
BY DEF SeedsSettle, SeedFlies, HalfBuilt, Mine, IInv, TypeOK, ChainOK

LEMMA EndsSettle ==
    ASSUME IInv, NEW t \in 1..MaxTx, NEW st \in {"landed", "failed"}, Ends(t, st)
    PROVE  \A u \in 1..MaxTx : SeedFlies(u)' => SeedFlies(u) /\ txs'[u].id = txs[u].id
BY EndsKeeps DEF SeedFlies, IInv, TypeOK

LEMMA LandSettles == ASSUME IInv, NEW t \in 1..MaxTx, Land(t) PROVE SeedsSettle
<1>0. PICK tx : tx = txs[t]
  OBVIOUS
<1>1. /\ reserves \in [1..MaxReserves -> Account] /\ count \in 0..MaxReserves /\ abandoned' = abandoned
      /\ tx \in Tx
  BY <1>0 DEF IInv, TypeOK, ChainOK, Land, Elsewhere, outcome
<1>2. \A u \in 1..MaxTx : SeedFlies(u)' => SeedFlies(u) /\ txs'[u].id = txs[u].id
  BY EndsSettle DEF Land
<1>3. count' \in Nat /\ count <= count' /\ \A i \in 1..count : HalfBuilt(i)' => HalfBuilt(i)
  <2>1. CASE UNCHANGED <<count, reserves>>
    BY <1>1, <2>1 DEF HalfBuilt, Mine
  <2>2. CASE Applies(tx) /\ BatchEffect(tx)
    <3>1. /\ count' = IF tx.create THEN count + 1 ELSE count
          /\ \A i \in 1..MaxReserves : i # tx.id => reserves'[i] = reserves[i]
          /\ (tx.create /\ tx.id = count + 1) \/ (~tx.create /\ HalfBuilt(tx.id))
      BY <1>1, <2>2 DEF BatchEffect, Applies
    <3>2. \A i \in 1..count : i # tx.id => reserves'[i] = reserves[i]
      BY <1>1, <3>1, ConstantsAreNat
    <3>3. tx.create => tx.id \notin 1..count
      BY <1>1, <3>1
    <3>4. ASSUME NEW i \in 1..count, HalfBuilt(i)' PROVE HalfBuilt(i)
      <4>1. i # tx.id => HalfBuilt(i)
        BY <3>2, <3>4 DEF HalfBuilt, Mine
      <4> QED
        BY <3>1, <3>3, <4>1
    <3>5. count' \in Nat /\ count <= count'
      BY <1>1, <3>1
    <3> QED
      BY <3>4, <3>5
  <2>3. CASE SeedEffect(tx)
    <3>1. /\ count' = count /\ reserves' = [reserves EXCEPT ![tx.id].status = "active"]
      BY <2>3 DEF SeedEffect
    <3> QED
      BY <1>1, <3>1 DEF HalfBuilt, Mine, Unseeded, Account
  <2> QED
    BY <1>0, <2>1, <2>2, <2>3 DEF Land, SwapEffect
<1> QED
  BY <1>1, <1>2, <1>3 DEF SeedsSettle

\* Only a seed takes tokens from the wallet.
LEMMA LandKeepsWallet ==
    ASSUME IInv, NEW t \in 1..MaxTx, Land(t), SeedFlies(t) => ~HalfBuilt(txs[t].id)
    PROVE  \A a \in Assets : held[a] <= held'[a]
<1>1. held \in [Assets -> Nat]
  BY DEF IInv, TypeOK, ChainOK, Amounts
<1>2. ~(Applies(txs[t]) /\ SeedEffect(txs[t]))
  BY DEF Land, Flying, SeedFlies, Applies, SeedEffect
<1>3. CASE SwapEffect(txs[t])
  BY <1>1, <1>3 DEF SwapEffect
<1>4. CASE held' = held
  BY <1>1, <1>4
<1> QED
  BY <1>2, <1>3, <1>4 DEF Land, BatchEffect

LEMMA ChainSettles == ASSUME IInv, Chain PROVE SeedsSettle
<1>1. CASE \E t \in 1..MaxTx : Land(t)
  BY <1>1, LandSettles
<1>2. CASE \E t \in 1..MaxTx : Slips(t)
  <2>1. PICK t \in 1..MaxTx : Slips(t)
    BY <1>2
  <2>2. UNCHANGED <<count, reserves, abandoned>> /\ Ends(t, "failed")
    BY <2>1 DEF Slips, Elsewhere, outcome
  <2> QED
    BY <2>2, EndsSettle DEF SeedsSettle, HalfBuilt, Mine, IInv, TypeOK, ChainOK
<1>3. CASE \E t \in 1..MaxTx : Pass(t)
  <2>1. PICK t \in 1..MaxTx : Pass(t)
    BY <1>3
  <2>2. /\ UNCHANGED <<count, reserves, abandoned>> /\ txs' = [txs EXCEPT ![t].past = TRUE]
        /\ txs \in [1..MaxTx -> Tx]
    BY <2>1 DEF Pass, Elsewhere, outcome, IInv, TypeOK, ChainOK
  <2>3. \A u \in 1..MaxTx : txs'[u].st = txs[u].st /\ txs'[u].kind = txs[u].kind /\ txs'[u].id = txs[u].id
    BY <2>2 DEF Tx
  <2> QED
    BY <2>2, <2>3 DEF SeedsSettle, SeedFlies, HalfBuilt, Mine, IInv, TypeOK, ChainOK
<1>4. CASE ForeignReserve
  <2>1. /\ UNCHANGED <<txs, abandoned>> /\ count' = count + 1 /\ count \in 0..MaxReserves
        /\ \A i \in 1..MaxReserves : i # count + 1 => reserves'[i] = reserves[i]
        /\ count' \in 0..MaxReserves
    BY <1>4, ConstantsAreNat DEF ForeignReserve, outcome, IInv, TypeOK, ChainOK
  <2>2. \A i \in 1..count : reserves'[i] = reserves[i]
    BY <2>1, ConstantsAreNat
  <2> QED
    BY <2>1, <2>2 DEF SeedsSettle, SeedFlies, HalfBuilt, Mine
<1> QED
  BY <1>1, <1>2, <1>3, <1>4 DEF Chain

LEMMA ChainWallet == ASSUME IInv, SeedsInv, WalletInv, Chain PROVE WalletInv'
<1>1. UNCHANGED <<page, outcome>>
  BY DEF Chain, ForeignReserve, Land, Slips, Pass, Elsewhere
<1>2. Launching' <=> Launching
  BY <1>1 DEF Launching, page, job, outcome
<1>3. Launching => \A a \in Assets : held[a] <= held'[a]
  <2>1. ASSUME Launching, NEW t \in 1..MaxTx, Land(t) PROVE \A a \in Assets : held[a] <= held'[a]
    BY <2>1, LandKeepsWallet DEF WalletInv
  <2>2. ASSUME held' = held PROVE \A a \in Assets : held[a] <= held'[a]
    BY <2>2 DEF IInv, TypeOK, ChainOK, Amounts
  <2> QED
    BY <2>1, <2>2 DEF Chain, ForeignReserve, Slips, Pass
<1>4. ASSUME Launching, NEW a \in Assets PROVE snap'[a] <= held'[a] /\ amounts'[a] <= held'[a]
  <2>1. held[a] \in Nat /\ snap[a] \in Nat /\ amounts[a] \in Nat /\ held'[a] >= held[a]
    BY <1>3, <1>4 DEF IInv, TypeOK, ChainOK, JobOK, Amounts
  <2>2. held'[a] \in Int
    BY <1>4, NextKeeps DEF Next, IInv, TypeOK, ChainOK, Amounts
  <2> QED
    BY <1>1, <1>4, <2>1, <2>2 DEF WalletInv, page, job
<1>5. Launching /\ pc' \in {"send", "batch", "seed"} => \A a \in Assets : 1 <= amounts'[a]
  BY <1>1 DEF WalletInv, page, job
<1> QED
  BY <1>2, <1>4, <1>5, ChainSettles, WalletStays

(***************************************************************************)
(* The page.                                                               *)
(***************************************************************************)
LEMMA SendsSettle ==
    ASSUME IInv, NEW tx \in Tx, Sends(tx), tx.kind # "seed"
    PROVE  SeedsSettle
<1>1. /\ UNCHANGED <<count, reserves, abandoned>> /\ sent + 1 \in 1..MaxTx
      /\ txs' = [txs EXCEPT ![sent + 1] = [tx EXCEPT !.st = "flying"]]
      /\ txs \in [1..MaxTx -> Tx] /\ count \in Nat
  BY ConstantsAreNat DEF Sends, IInv, TypeOK, ChainOK, outcome
<1>2. /\ txs'[sent + 1].kind # "seed"
      /\ \A u \in 1..MaxTx : u # sent + 1 => txs'[u] = txs[u]
  BY <1>1 DEF Tx
<1> QED
  BY <1>1, <1>2 DEF SeedsSettle, SeedFlies, HalfBuilt, Mine

LEMMA StepsSettle == ASSUME IInv, [Next]_vars, ~SendSeed PROVE SeedsSettle
<1>1. CASE Chain
  BY <1>1, ChainSettles
<1>2. CASE SendSwap
  <2> DEFINE tx == [NoTx EXCEPT !.kind = "swap", !.asset = cur]
  <2>1. cur \in 0..N /\ Sends(tx)
    BY <1>2, CurInFund DEF SendSwap
  <2>2. tx \in Tx /\ tx.kind = "swap"
    BY <2>1, NoTxType DEF Tx
  <2> HIDE DEF tx
  <2> QED
    BY <2>1, <2>2, SendsSettle
<1>3. CASE SendBatch
  <2> DEFINE c0 == 0 \in NextBatch
             g == NextBatch \ {0}
             tx == [NoTx EXCEPT !.kind = "batch", !.id = target, !.create = c0, !.range = g]
  <2>1. /\ Sends(tx) /\ target \in 0..MaxReserves + 1
        /\ c0 \in BOOLEAN /\ g \in SUBSET Assets
    BY <1>3, ConstantsAreNat DEF SendBatch, IInv, TypeOK, JobOK, NextBatch, Assets
  <2> HIDE DEF c0, g
  <2>2. tx \in Tx /\ tx.kind = "batch"
    BY <2>1, NoTxType DEF Tx
  <2> HIDE DEF tx
  <2> QED
    BY <2>1, <2>2, SendsSettle
<1>4. CASE Abandon
  BY <1>4, OthersSettle DEF Abandon, chain
<1>5. CASE UNCHANGED <<count, reserves, txs, abandoned>>
  BY <1>5, OthersSettle
<1>6. CASE Funding /\ ~SendSwap
  BY <1>5, <1>6 DEF Funding, Reconcile, AlreadyHeld, NeedsSwap, SwapConfirmed, SwapNotLanded, SwapUnknown, Idle,
     chain, outcome
<1>7. CASE Building /\ ~SendBatch
  BY <1>5, <1>7 DEF Building, Derive, PreflightFails, BatchConfirmed, BatchStops, LaunchSeeded, SeedStops, SendFails,
     Succeed, Idle, chain, outcome
<1>8. CASE Reconciling \/ Resuming
  BY <1>5, <1>8 DEF Reconciling, ReserveExists, ReserveMissing, ExistsUnread, CheckedComplete, CheckedIncomplete,
     Resuming, ResumeReads, ResumeFunds, ResumeFunded, ResumeSeeded, ResumeEnds, ResumeUnread, Succeed, Idle, chain,
     outcome
<1>9. CASE PollStatus \/ Recover \/ RecoverUnread \/ Creator \/ Rejects \/ Reload \/ SaveDraft \/ Stop \/ UNCHANGED vars
  BY <1>5, <1>9 DEF PollStatus, Recover, RecoverUnread, Creator, PressLaunch, LaunchFindsMarker, PressResume,
     CheckAgain, Rejects, Reload, SaveDraft, Stop, Idle, vars, chain, outcome
<1> QED
  BY <1>1, <1>2, <1>3, <1>4, <1>6, <1>7, <1>8, <1>9 DEF Next, Client

\* A job that comes to its seed has a Reserve to seed.
LEMMA SeedHasTarget ==
    ASSUME IInv, IInv', OInv, SeedsInv, SeedsSettle, [Next]_vars, pc' = "seed"
    PROVE  target' \in 1..count'
<1>1. CASE mode' # "launch"
  <2>1. mode' = "resume"
    BY <1>1 DEF IInv, TypeOK, JobOK, Places
  <2> QED
    BY <2>1 DEF IInv, Resumes, Begun
<1>2. CASE mode' = "launch"
  <2>1. CASE BatchConfirmed
    <3>1. Has(target, Reached(cur)) /\ UNCHANGED <<count, reserves, target>>
      BY <2>1 DEF BatchConfirmed, Confirmed, OInv, JobInOrder, Idle, chain
    <3> QED
      BY <3>1 DEF Has
  <2>2. CASE UNCHANGED <<pc, target>>
    BY <2>2 DEF SeedsInv, SeedsSettle, IInv, TypeOK, ChainOK
  <2>3. CASE Chain \/ PollStatus \/ SaveDraft \/ Stop \/ UNCHANGED vars
    BY <2>2, <2>3 DEF Chain, ForeignReserve, Land, Slips, Pass, Elsewhere, PollStatus, SaveDraft, Stop, vars, page,
       job
  <2>4. ~(Funding \/ Reconciling \/ Recover \/ RecoverUnread \/ Creator \/ Rejects \/ Abandon \/ Reload)
    BY DEF Funding, Reconcile, AlreadyHeld, NeedsSwap, SendSwap, SwapConfirmed, SwapNotLanded, SwapUnknown,
       FundingStops, ShowForm, ShowPanel, StayInPanel, BackFromJob, Succeed, Reconciling, ReserveExists,
       ReserveMissing, ExistsUnread, CheckedComplete, CheckedIncomplete, Recover, RecoverUnread, Creator,
       PressLaunch, StartFunding, LaunchFindsMarker, PressResume, CheckAgain, Rejects, Abandon, Reload
  <2>5. ~Resuming
    BY <1>2 DEF Resuming, ResumeReads, ResumeFunds, ResumeFunded, ResumeSeeded, ResumeEnds, ResumeUnread, Succeed,
       StayInPanel, StartFunding, JobOver, IInv, Places, job
  <2>6. Building => BatchConfirmed
    BY DEF Building, Derive, PreflightFails, SendBatch, BatchStops, SendSeed, LaunchSeeded, SeedStops, SendFails,
       FundingStops, ShowForm, Succeed
  <2> QED
    BY <2>1, <2>3, <2>4, <2>5, <2>6 DEF Next, Client
<1> QED
  BY <1>1, <1>2

\* The seed a job sends is for the Reserve its marker names.
LEMMA SendSeedSeeds == ASSUME IInv, Tracked, SeedsInv, SendSeed PROVE SeedsInv'
<1> DEFINE tx == [NoTx EXCEPT !.kind = "seed", !.id = target, !.amt = amounts]
<1>1. /\ target \in 0..MaxReserves + 1 /\ amounts \in Amounts /\ Sends(tx) /\ pc = "seed" /\ pc' = "seeding"
      /\ marker' = marker /\ target \in 1..count
  BY DEF SendSeed, IInv, TypeOK, JobOK, SeedsInv, disk
<1>2. tx \in Tx /\ tx.id = target
  BY <1>1, NoTxType DEF Tx
<1>3. marker.id = target
  BY <1>1 DEF Tracked, IInv, Places, TypeOK, JobOK
<1> HIDE DEF tx
<1>4. /\ UNCHANGED <<count, reserves, abandoned>> /\ sent + 1 \in 1..MaxTx
      /\ txs' = [txs EXCEPT ![sent + 1] = [tx EXCEPT !.st = "flying"]]
      /\ txs \in [1..MaxTx -> Tx]
  BY <1>1, ConstantsAreNat DEF Sends, IInv, TypeOK, ChainOK, outcome
<1>5. /\ txs'[sent + 1].id = target
      /\ \A u \in 1..MaxTx : u # sent + 1 => txs'[u] = txs[u]
  BY <1>2, <1>4 DEF Tx
<1>6. ASSUME NEW t \in 1..MaxTx, SeedFlies(t)'
      PROVE  /\ txs'[t].id \in 1..count
             /\ HalfBuilt(txs[t].id)' => marker.id = txs'[t].id \/ txs'[t].id \in abandoned
  BY <1>1, <1>3, <1>4, <1>5, <1>6 DEF SeedsInv, SeedFlies, HalfBuilt, Mine
<1> QED
  BY <1>1, <1>4, <1>6 DEF SeedsInv

LEMMA NextSeeds == IInv /\ IInv' /\ OInv /\ Tracked /\ SeedsInv /\ [Next]_vars => SeedsInv'
<1> SUFFICES ASSUME IInv, IInv', OInv, Tracked, SeedsInv, [Next]_vars PROVE SeedsInv'
  OBVIOUS
<1>1. Keeps
  BY NextTracks
<1>2. CASE SendSeed
  BY <1>2, SendSeedSeeds
<1>3. CASE ~SendSeed
  <2>1. SeedsSettle
    BY <1>3, StepsSettle
  <2> QED
    BY <1>1, <2>1, SeedHasTarget, SeedsStay
<1> QED
  BY <1>2, <1>3

\* A launch starts when no marker is left: a seed still in flight is not for a
\* half-built Reserve, unless that one was abandoned.
LEMMA PressLaunchWallet == ASSUME IInv, SeedsInv, SeedsSettle, PressLaunch PROVE WalletInv'
<1>1. PICK m \in Missed : snap' = [a \in Assets |-> IF a \in m THEN 0 ELSE held[a]]
  BY DEF PressLaunch, StartFunding
<1>2. /\ marker.id = 0 /\ amounts' = NoAmounts /\ held' = held /\ held \in [Assets -> Nat] /\ pc' = "fund"
      /\ UNCHANGED <<reserves, count, txs, abandoned>>
  BY DEF PressLaunch, StartFunding, Idle, chain, outcome, IInv, TypeOK, ChainOK, Amounts
<1>3. \A a \in Assets : snap'[a] <= held'[a] /\ amounts'[a] <= held'[a]
  BY <1>1, <1>2 DEF NoAmounts
<1>4. ASSUME abandoned' = {}, NEW t \in 1..MaxTx, SeedFlies(t)' PROVE ~HalfBuilt(txs[t].id)'
  BY <1>2, <1>4 DEF SeedsInv, SeedFlies, HalfBuilt, Mine
<1> QED
  BY <1>2, <1>3, <1>4 DEF WalletInv, Launching

\* What a launch seeds of an asset is a balance it read.
LEMMA FundingWallet == ASSUME IInv, SeedsInv, WalletInv, SeedsSettle, Funding PROVE WalletInv'
<1>0. /\ held \in [Assets -> Nat] /\ snap \in [Assets -> Nat] /\ amounts \in [Assets -> Nat]
      /\ pc \in {"fund", "sign", "swap"} /\ held' = held /\ abandoned' = abandoned
      /\ pc # "fund" \/ cur <= N => cur \in Assets
  <2>1. pc \in {"fund", "sign", "swap"} /\ held' = held /\ abandoned' = abandoned
    BY DEF Funding, Reconcile, AlreadyHeld, NeedsSwap, SendSwap, SwapConfirmed, SwapNotLanded, SwapUnknown,
       Sends, Idle, chain, outcome
  <2> QED
    BY <2>1, CurInFund DEF IInv, TypeOK, ChainOK, JobOK, Amounts
<1>1. CASE ~Launching'
  BY <1>1 DEF WalletInv
<1>2. CASE Launching'
  <2>1. /\ mode' = mode /\ pc' \in {"fund", "sign", "swap"}
        /\ ~FundingStops
    BY <1>2 DEF Launching, Funding, Reconcile, AlreadyHeld, NeedsSwap, SendSwap, SwapConfirmed, SwapNotLanded,
       SwapUnknown, FundingStops, ShowForm, JobOver
  <2>2. Launching
    BY <1>0, <1>2, <2>1 DEF Launching
  <2>3. \A a \in Assets : snap[a] <= held[a] /\ amounts[a] <= held[a]
    BY <2>2 DEF WalletInv
  <2>4. CASE UNCHANGED <<snap, amounts>>
    BY <1>0, <2>1, <2>2, <2>3, <2>4, WalletStays
  <2>5. CASE Reconcile
    <3>1. amounts' = amounts /\ cur \in Assets
      BY <1>0, <2>5 DEF Reconcile
    <3>2. snap' = snap \/ \E b \in {held[cur], snap[cur]} : snap' = [snap EXCEPT ![cur] = b]
      BY <2>5 DEF Reconcile
    <3>3. \A a \in Assets : snap'[a] <= held[a]
      BY <1>0, <2>3, <3>1, <3>2
    <3> QED
      BY <1>0, <2>1, <2>2, <2>3, <3>1, <3>3, WalletStays
  <2>6. CASE AlreadyHeld
    <3>1. snap' = snap /\ cur \in Assets /\ amounts' = [amounts EXCEPT ![cur] = 1] /\ snap[cur] >= 1
      BY <1>0, <2>6 DEF AlreadyHeld, ReadyWith
    <3>2. \A a \in Assets : amounts'[a] <= held[a]
      BY <1>0, <2>3, <3>1
    <3> QED
      BY <1>0, <2>1, <2>2, <2>3, <3>1, <3>2, WalletStays
  <2>7. CASE SwapConfirmed
    <3>1. /\ snap' = snap /\ cur \in Assets
          /\ \E b \in {held[cur], snap[cur]} : amounts' = [amounts EXCEPT ![cur] = b]
      BY <1>0, <2>7 DEF SwapConfirmed, ReadyWith
    <3>2. \A a \in Assets : amounts'[a] <= held[a]
      BY <1>0, <2>3, <3>1
    <3> QED
      BY <1>0, <2>1, <2>2, <2>3, <3>1, <3>2, WalletStays
  <2> QED
    BY <2>1, <2>4, <2>5, <2>6, <2>7 DEF Funding, NeedsSwap, SendSwap, SwapNotLanded, SwapUnknown, ShowForm
<1> QED
  BY <1>1, <1>2

LEMMA BuildingWallet == ASSUME IInv, SeedsInv, WalletInv, SeedsSettle, Building PROVE WalletInv'
<1>1. CASE ~Launching'
  BY <1>1 DEF WalletInv
<1>2. CASE Launching'
  <2>1. /\ Derive \/ SendBatch \/ BatchConfirmed
        /\ UNCHANGED <<mode, snap, amounts, held, abandoned>> /\ pc' \in {"send", "batch", "seed"}
    BY <1>2 DEF Launching, Building, Derive, PreflightFails, SendBatch, BatchConfirmed, BatchStops, SendSeed,
       LaunchSeeded, SeedStops, SendFails, FundingStops, Succeed, ShowForm, Sends, Idle, chain, outcome
  <2>2. pc \in {"fund", "send", "batch"}
    BY <2>1 DEF Derive, Funded, SendBatch, BatchConfirmed
  <2>3. Launching
    BY <1>2, <2>1, <2>2 DEF Launching
  <2>4. /\ \A a \in Assets : snap[a] <= held[a] /\ amounts[a] <= held[a]
        /\ pc \in {"send", "batch"} => \A a \in Assets : 1 <= amounts[a]
    BY <2>3 DEF WalletInv
  <2>5. \A a \in Assets : 1 <= amounts[a]
    BY <2>1, <2>2, <2>4 DEF Derive, SeedAmountsOk, SendBatch, BatchConfirmed, IInv, TypeOK, JobOK, Amounts
  <2> QED
    BY <2>1, <2>3, <2>4, <2>5, WalletStays
<1> QED
  BY <1>1, <1>2

LEMMA NextWallet == IInv /\ SeedsInv /\ WalletInv /\ [Next]_vars => WalletInv'
<1> SUFFICES ASSUME IInv, SeedsInv, WalletInv, [Next]_vars PROVE WalletInv'
  OBVIOUS
<1>1. CASE Chain
  BY <1>1, ChainWallet
<1>2. CASE PollStatus \/ SaveDraft \/ Stop \/ UNCHANGED vars
  <2>1. UNCHANGED <<held, txs, reserves, count, pc, mode, snap, amounts, abandoned>>
    BY <1>2 DEF PollStatus, SaveDraft, Stop, Idle, vars, chain, page, job, outcome
  <2>2. Launching' <=> Launching
    BY <2>1 DEF Launching
  <2> QED
    BY <2>1, <2>2 DEF WalletInv, SeedFlies, HalfBuilt, Mine
<1>3. CASE Reconciling \/ Resuming \/ Recover \/ RecoverUnread \/ LaunchFindsMarker \/ PressResume \/ CheckAgain
              \/ Rejects \/ Abandon \/ Reload
  <2>1. ~Launching'
    BY <1>3 DEF Launching, Reconciling, ReserveExists, ReserveMissing, ExistsUnread, CheckedComplete,
       CheckedIncomplete, Resuming, ResumeReads, ResumeFunds, ResumeFunded, ResumeSeeded, ResumeEnds, ResumeUnread,
       Succeed, BackFromJob, StayInPanel, ShowPanel, ShowForm, JobOver, Recover, RecoverUnread, LaunchFindsMarker,
       PressResume, CheckAgain, Rejects, Abandon, Reload, job, IInv, Places
  <2> QED
    BY <2>1 DEF WalletInv
<1>4. CASE PressLaunch \/ Funding \/ Building
  <2>1. CASE SendSeed
    BY <2>1 DEF SendSeed, WalletInv, Launching
  <2>2. CASE ~SendSeed
    BY <1>4, <2>2, StepsSettle, PressLaunchWallet, FundingWallet, BuildingWallet
  <2> QED
    BY <2>1, <2>2
<1> QED
  BY <1>1, <1>2, <1>3, <1>4 DEF Next, Client, Creator

\* From the transaction that creates the Reserve to the seed, a launch holds at
\* least one unit of every asset and all it is going to seed, whatever its
\* swaps came to, unless a Reserve was abandoned whose seed can still land.
THEOREM SeedIsFunded == Spec => []SeedFunded
<1>1. Init => Tracked
  BY DEF Init, Tracked, NoDeploy
<1>2. Init => SeedsInv /\ WalletInv
  BY DEF Init, SeedsInv, SeedFlies, NoTx, WalletInv, Launching
<1>3. WalletInv => SeedFunded
  BY DEF WalletInv, Launching, SeedFunded
<1> QED
  BY <1>1, <1>2, <1>3, InitOrder, NextOrder, NextTracks, NextSeeds, NextWallet, AlwaysIInv, PTL DEF Spec
=============================================================================
