-------------------------- MODULE ContractsProofs ---------------------------
(***************************************************************************)
(* Proofs about Contracts: the inductive invariant behind the invariants   *)
(* MCContracts checks, and that a swap keeps every payload.                *)
(***************************************************************************)
EXTENDS Contracts, FiniteSetTheorems, TLAPS

\* The strengthening: a call to be committed is past its contract's counter,
\* also when none of the contract's payloads is stored any more.
CallsAhead ==
    \A c \in DOMAIN tempContractMap : contractTree[c] < tempContractMap[c].Counter

StoredBelongs ==
    \A e \in DOMAIN contractStorageDb \cup DOMAIN contractStorageDb2 :
        e[1] \in DOMAIN contractTree /\ e[2] <= contractTree[e[1]]

ContractsInv ==
    /\ ContractsTypeOK
    /\ ContractsDense
    /\ CallsAhead
    /\ StoredBelongs
    /\ IndexNamesCreator

\* Setting one key of a map keeps it a map.
LEMMA WithMap ==
    ASSUME NEW K, NEW V, NEW f, IsMap(f, K, V), NEW k \in K, NEW v \in V
    PROVE  IsMap(With(f, k, v), K, V)
BY DEF IsMap, With

\* The empty map is a map of any type.
LEMMA EmptyIsMap == \A K, V : IsMap(EmptyMap, K, V) /\ DOMAIN EmptyMap = {}
BY DEF IsMap, EmptyMap

\* CallsAreNew is a consequence of the invariant.
LEMMA InvCallsAreNew == ContractsInv => CallsAreNew
<1> SUFFICES ASSUME ContractsInv,
                    NEW e \in DOMAIN contractStorageDb \cup DOMAIN contractStorageDb2
             PROVE  /\ e[1] \in DOMAIN contractTree /\ e[2] <= contractTree[e[1]]
                    /\ e[1] \in DOMAIN tempContractMap => e[2] < tempContractMap[e[1]].Counter
  BY DEF CallsAreNew
<1>1. e[1] \in DOMAIN contractTree /\ e[2] <= contractTree[e[1]]
  BY DEF ContractsInv, StoredBelongs
<1>2. e \in Addressed \X Nat
  BY DEF ContractsInv, ContractsTypeOK, IsMap
<1>3. contractTree[e[1]] \in Nat
  BY <1>1 DEF ContractsInv, ContractsTypeOK, IsMap
<1>4. ASSUME e[1] \in DOMAIN tempContractMap PROVE e[2] < tempContractMap[e[1]].Counter
  <2>1. contractTree[e[1]] < tempContractMap[e[1]].Counter
    BY <1>4 DEF ContractsInv, CallsAhead
  <2>2. tempContractMap[e[1]].Counter \in Nat
    BY <1>4 DEF ContractsInv, ContractsTypeOK, IsMap, Call
  <2> QED
    BY <1>1, <1>2, <1>3, <2>1, <2>2
<1> QED
  BY <1>1, <1>4

-----------------------------------------------------------------------------
\* A contract store without contracts satisfies the invariant.
LEMMA InitContracts == ContractsInit => ContractsInv
<1> SUFFICES ASSUME ContractsInit PROVE ContractsInv
  OBVIOUS
<1>1. ContractsTypeOK
  BY EmptyIsMap, ContractsAssumption DEF ContractsInit, ContractsTypeOK
<1>2. ContractsDense
  <2>1. Cardinality(DOMAIN tempNewContractMap) = 0
    BY EmptyIsMap, FS_EmptySet DEF ContractsInit
  <2> QED
    BY <2>1, EmptyIsMap DEF ContractsInit, ContractsDense, NextContract
<1> QED
  BY <1>1, <1>2, EmptyIsMap
     DEF ContractsInit, ContractsInv, CallsAhead, StoredBelongs, IndexNamesCreator

\* The address createContract hands out, and how the block's addresses grow.
LEMMA Growth ==
    ASSUME ContractsInv
    PROVE  /\ NextContract \in Nat
           /\ contractNumOnDb <= NextContract
           /\ Cardinality(contractNumOnDb .. NextContract) = NextContract - contractNumOnDb + 1
           /\ IsFiniteSet(DOMAIN tempNewContractMap)
<1>1. contractNumOnDb \in Nat
  BY ContractsAssumption DEF ContractsInv, ContractsTypeOK
<1>2. IsFiniteSet(DOMAIN tempNewContractMap)
  <2>1. IsFiniteSet(Addressed)
    BY ContractsAssumption, FS_Interval DEF Addressed
  <2> QED
    BY <2>1, FS_Subset DEF ContractsInv, ContractsTypeOK, IsMap
<1>3. Cardinality(DOMAIN tempNewContractMap) \in Nat
  BY <1>2, FS_CardinalityType
<1>4. NextContract \in Nat /\ contractNumOnDb <= NextContract
  BY <1>1, <1>3 DEF NextContract
<1>5. Cardinality(contractNumOnDb .. NextContract) = NextContract - contractNumOnDb + 1
  BY <1>1, <1>4, FS_Interval
<1> QED
  BY <1>2, <1>4, <1>5

\* A call, of an old contract or of a new one.
LEMMA ExecContractStep ==
    ASSUME ContractsInv, NEW target \in Nat, NEW payload \in Payloads,
           ExecContract(target, payload)
    PROVE  ContractsInv'
<1>1. contractNumOnDb \in Nat
  BY ContractsAssumption DEF ContractsInv, ContractsTypeOK
<1>2. UNCHANGED <<contractTree, contractNumOnDb, contractStorageDb,
                  contractStorageDb2, contractLedgerDb>>
  BY DEF ExecContract
<1>3. StoredBelongs' /\ IndexNamesCreator'
  BY <1>2 DEF ContractsInv, StoredBelongs, IndexNamesCreator
<1>4. CASE target >= contractNumOnDb
  <2>1. /\ NextContract < MaxContracts
        /\ tempNewContractMap' = With(tempNewContractMap, NextContract, payload)
        /\ UNCHANGED tempContractMap
    BY <1>4 DEF ExecContract
  <2>2. NextContract \in Addressed
    BY <2>1, Growth, ContractsAssumption DEF Addressed
  <2>3. ContractsTypeOK'
    BY <1>2, <2>1, <2>2, WithMap DEF ContractsInv, ContractsTypeOK
  <2>4. DOMAIN tempNewContractMap' = contractNumOnDb .. NextContract
    BY <1>1, <2>1, Growth DEF With, ContractsInv, ContractsDense
  <2>5. NextContract' = NextContract + 1
    BY <1>1, <1>2, <2>4, Growth DEF NextContract
  <2>6. ContractsDense'
    <3>1. NextContract' - 1 = NextContract
      BY <2>5, Growth
    <3>2. DOMAIN tempNewContractMap' = contractNumOnDb' .. NextContract' - 1
      BY <1>2, <2>4, <3>1
    <3> QED
      BY <1>2, <2>1, <3>2 DEF ContractsInv, ContractsDense
  <2> QED
    BY <1>2, <1>3, <2>1, <2>3, <2>6 DEF ContractsInv, CallsAhead
<1>5. CASE ~(target >= contractNumOnDb)
  <2> DEFINE call == [Counter |-> CounterOf(target) + 1, Payload |-> payload]
  <2>1. tempContractMap' = With(tempContractMap, target, call) /\ UNCHANGED tempNewContractMap
    BY <1>5 DEF ExecContract
  <2>2. target \in DOMAIN contractTree
    BY <1>1, <1>5 DEF ContractsInv, ContractsDense
  <2>3. target \in Addressed /\ contractTree[target] \in Nat
    BY <2>2 DEF ContractsInv, ContractsTypeOK, IsMap
  <2>4. CounterOf(target) \in Nat /\ contractTree[target] <= CounterOf(target)
    <3>1. CASE target \in DOMAIN tempContractMap
      <4>1. tempContractMap[target].Counter \in Nat
        BY <3>1 DEF ContractsInv, ContractsTypeOK, IsMap, Call
      <4>2. contractTree[target] < tempContractMap[target].Counter
        BY <3>1 DEF ContractsInv, CallsAhead
      <4> QED
        BY <2>3, <3>1, <4>1, <4>2 DEF CounterOf
    <3>2. CASE target \notin DOMAIN tempContractMap
      BY <2>3, <3>2 DEF CounterOf
    <3> QED
      BY <3>1, <3>2
  <2>5. call \in Call
    BY <2>4 DEF Call
  <2>6. IsMap(tempContractMap', Addressed, Call)
    BY <2>1, <2>3, <2>5, WithMap DEF ContractsInv, ContractsTypeOK
  <2>7. ContractsTypeOK'
    BY <1>2, <2>1, <2>6 DEF ContractsInv, ContractsTypeOK
  <2>8. ContractsDense'
    BY <1>2, <2>1, <2>2 DEF ContractsInv, ContractsDense, NextContract, With
  <2>9. CallsAhead'
    <3> SUFFICES ASSUME NEW c \in DOMAIN tempContractMap'
                 PROVE  contractTree[c] < tempContractMap'[c].Counter
      BY <1>2 DEF CallsAhead
    <3>1. CASE c = target
      BY <2>1, <2>3, <2>4, <3>1 DEF With
    <3>2. CASE c # target
      BY <2>1, <3>2 DEF With, ContractsInv, CallsAhead
    <3> QED
      BY <3>1, <3>2
  <2> QED
    BY <1>3, <2>7, <2>8, <2>9 DEF ContractsInv
<1> QED
  BY <1>4, <1>5

-----------------------------------------------------------------------------
\* What a commit stores: a map, with everything there was, unchanged.
LEMMA StoredKeeps ==
    ASSUME ContractsInv
    PROVE  /\ IsMap(StoredPayloads, Addressed \X Nat, Payloads)
           /\ \A e \in DOMAIN contractStorageDb :
                e \in DOMAIN StoredPayloads /\ StoredPayloads[e] = contractStorageDb[e]
<1>1. /\ IsMap(contractStorageDb, Addressed \X Nat, Payloads)
      /\ IsMap(tempContractMap, Addressed, Call)
      /\ IsMap(tempNewContractMap, Addressed, Payloads)
  BY DEF ContractsInv, ContractsTypeOK
<1>2. \A e \in DOMAIN StoredPayloads : e \in Addressed \X Nat
  BY <1>1 DEF StoredPayloads, IsMap, Call
<1>3. \A e \in DOMAIN StoredPayloads : StoredPayloads[e] \in Payloads
  <2> SUFFICES ASSUME NEW e \in DOMAIN StoredPayloads PROVE StoredPayloads[e] \in Payloads
    OBVIOUS
  <2>1. CASE e[1] \in DOMAIN tempNewContractMap
    BY <1>1, <2>1 DEF StoredPayloads, IsMap
  <2>2. CASE /\ e[1] \notin DOMAIN tempNewContractMap
             /\ e[1] \in DOMAIN tempContractMap /\ e[2] = tempContractMap[e[1]].Counter
    BY <1>1, <2>2 DEF StoredPayloads, IsMap, Call
  <2>3. CASE /\ e[1] \notin DOMAIN tempNewContractMap
             /\ ~(e[1] \in DOMAIN tempContractMap /\ e[2] = tempContractMap[e[1]].Counter)
    <3>1. e \in DOMAIN contractStorageDb
      BY <2>3 DEF StoredPayloads
    <3>2. StoredPayloads[e] = contractStorageDb[e]
      BY <2>3 DEF StoredPayloads
    <3> QED
      BY <1>1, <3>1, <3>2 DEF IsMap
  <2> QED
    BY <2>1, <2>2, <2>3
<1>4. ASSUME NEW e \in DOMAIN contractStorageDb
      PROVE  e \in DOMAIN StoredPayloads /\ StoredPayloads[e] = contractStorageDb[e]
  <2>1. e \in DOMAIN StoredPayloads
    BY DEF StoredPayloads
  <2>2. e[1] \in DOMAIN contractTree
    BY DEF ContractsInv, StoredBelongs
  <2>3. e[1] \notin DOMAIN tempNewContractMap
    BY <2>2, Growth, ContractsAssumption DEF ContractsInv, ContractsTypeOK, ContractsDense
  <2>4. ~(e[1] \in DOMAIN tempContractMap /\ e[2] = tempContractMap[e[1]].Counter)
    <3>1. e \in Addressed \X Nat
      BY <1>1 DEF IsMap
    <3>2. e[1] \in DOMAIN tempContractMap => tempContractMap[e[1]].Counter \in Nat
      BY <1>1 DEF IsMap, Call
    <3> QED
      BY <3>1, <3>2, InvCallsAreNew DEF CallsAreNew
  <2> QED
    BY <2>1, <2>3, <2>4 DEF StoredPayloads
<1> QED
  BY <1>2, <1>3, <1>4 DEF IsMap, StoredPayloads

\* The contracts and the addresses a commit leaves.
LEMMA CommittedContracts ==
    ASSUME ContractsInv, NEW watch \in BOOLEAN, NEW swap \in BOOLEAN,
           CommitContracts(watch, swap)
    PROVE  /\ DOMAIN contractTree' = DOMAIN contractTree \cup DOMAIN tempNewContractMap
           /\ IsMap(contractTree', Addressed, Nat)
           /\ contractNumOnDb' \in 0 .. MaxContracts
           /\ ContractsDense'
<1>1. DOMAIN contractTree' = DOMAIN contractTree \cup DOMAIN tempNewContractMap
  BY DEF CommitContracts
<1>2. IsMap(contractTree', Addressed, Nat)
  <2>1. \A c \in DOMAIN contractTree' : contractTree'[c] \in Nat
    BY DEF CommitContracts, ContractsInv, ContractsTypeOK, IsMap, Call
  <2>2. contractTree' = [c \in DOMAIN contractTree' |-> contractTree'[c]]
    BY DEF CommitContracts
  <2> QED
    BY <1>1, <2>1, <2>2 DEF ContractsInv, ContractsTypeOK, IsMap
<1>3. contractNumOnDb \in Nat
  BY ContractsAssumption DEF ContractsInv, ContractsTypeOK
<1>4. DOMAIN contractTree' = 0 .. NextContract - 1
  BY <1>1, <1>3, Growth DEF ContractsInv, ContractsDense
<1>5. Cardinality(0 .. NextContract - 1) = NextContract
  BY Growth, FS_Interval
<1>6. contractNumOnDb' = NextContract
  BY <1>4, <1>5 DEF CommitContracts
<1>7. DOMAIN tempNewContractMap' = {} /\ DOMAIN tempContractMap' = {}
  BY EmptyIsMap DEF CommitContracts
<1>8. NextContract' = NextContract
  BY <1>6, <1>7, FS_EmptySet, Growth DEF NextContract
<1>9. ContractsDense'
  BY <1>4, <1>6, <1>7, <1>8, Growth DEF ContractsDense
<1>10. contractNumOnDb' <= MaxContracts
  <2>1. CASE NextContract = 0
    BY <1>6, <2>1, ContractsAssumption
  <2>2. CASE NextContract # 0
    <3>1. NextContract - 1 \in DOMAIN contractTree'
      BY <1>4, <2>2, Growth
    <3> QED
      BY <1>2, <1>6, <3>1, Growth, ContractsAssumption DEF IsMap, Addressed
  <2> QED
    BY <2>1, <2>2
<1> QED
  BY <1>1, <1>2, <1>6, <1>9, <1>10, Growth

\* A commit, with a swap or without.
LEMMA CommitContractsStep ==
    ASSUME ContractsInv, NEW watch \in BOOLEAN, NEW swap \in BOOLEAN,
           CommitContracts(watch, swap)
    PROVE  ContractsInv'
<1>1. /\ IsMap(contractStorageDb, Addressed \X Nat, Payloads)
      /\ IsMap(contractStorageDb2, Addressed \X Nat, Payloads)
      /\ IsMap(contractTree, Addressed, Nat)
      /\ IsMap(tempContractMap, Addressed, Call)
      /\ IsMap(tempNewContractMap, Addressed, Payloads)
      /\ IsMap(contractLedgerDb, Payloads, Addressed)
  BY DEF ContractsInv, ContractsTypeOK
<1>2. DOMAIN contractTree \cap DOMAIN tempNewContractMap = {}
  BY Growth, ContractsAssumption DEF ContractsInv, ContractsTypeOK, ContractsDense
<1>3. \/ contractStorageDb' = EmptyMap /\ contractStorageDb2' = StoredPayloads
      \/ contractStorageDb' = StoredPayloads /\ contractStorageDb2' = contractStorageDb2
  BY DEF CommitContracts, SwapContractDb
<1>4. tempContractMap' = EmptyMap /\ tempNewContractMap' = EmptyMap
  BY DEF CommitContracts
<1>5. CallsAhead'
  BY <1>4, EmptyIsMap DEF CallsAhead
<1>6. \A c \in DOMAIN contractTree :
        c \in DOMAIN contractTree' /\ contractTree[c] <= contractTree'[c]
  <2> SUFFICES ASSUME NEW c \in DOMAIN contractTree
               PROVE  c \in DOMAIN contractTree' /\ contractTree[c] <= contractTree'[c]
    OBVIOUS
  <2>1. contractTree[c] \in Nat
    BY <1>1 DEF IsMap
  <2>2. CASE c \in DOMAIN tempContractMap
    <3>1. contractTree'[c] = tempContractMap[c].Counter
      BY <2>2 DEF CommitContracts
    <3>2. tempContractMap[c].Counter \in Nat
      BY <1>1, <2>2 DEF IsMap, Call
    <3>3. contractTree[c] < tempContractMap[c].Counter
      BY <2>2 DEF ContractsInv, CallsAhead
    <3> QED
      BY <2>1, <3>1, <3>2, <3>3, CommittedContracts
  <2>3. CASE c \notin DOMAIN tempContractMap
    BY <2>1, <2>3, CommittedContracts DEF CommitContracts
  <2> QED
    BY <2>2, <2>3
<1>7. \A e \in DOMAIN StoredPayloads : e[1] \in DOMAIN contractTree' /\ e[2] <= contractTree'[e[1]]
  <2> SUFFICES ASSUME NEW e \in DOMAIN StoredPayloads
               PROVE  e[1] \in DOMAIN contractTree' /\ e[2] <= contractTree'[e[1]]
    OBVIOUS
  <2>1. CASE e \in DOMAIN contractStorageDb
    <3>1. e[1] \in DOMAIN contractTree /\ e[2] <= contractTree[e[1]]
      BY <2>1 DEF ContractsInv, StoredBelongs
    <3>2. e[2] \in Nat /\ contractTree[e[1]] \in Nat
      BY <1>1, <2>1, <3>1 DEF IsMap
    <3>3. contractTree'[e[1]] \in Nat
      BY <1>6, <3>1, CommittedContracts DEF IsMap
    <3> QED
      BY <1>6, <3>1, <3>2, <3>3
  <2>2. ASSUME NEW c \in DOMAIN tempContractMap, e = <<c, tempContractMap[c].Counter>>
        PROVE  e[1] \in DOMAIN contractTree' /\ e[2] <= contractTree'[e[1]]
    <3>1. c \in DOMAIN contractTree
      BY <2>2 DEF ContractsInv, ContractsDense
    <3>2. contractTree'[c] = tempContractMap[c].Counter
      BY <3>1 DEF CommitContracts
    <3>3. tempContractMap[c].Counter \in Nat
      BY <1>1 DEF IsMap, Call
    <3> QED
      BY <1>6, <2>2, <3>1, <3>2, <3>3
  <2>3. ASSUME NEW c \in DOMAIN tempNewContractMap, e = <<c, 0>>
        PROVE  e[1] \in DOMAIN contractTree' /\ e[2] <= contractTree'[e[1]]
    <3>1. c \in DOMAIN contractTree' /\ contractTree'[c] \in Nat
      BY CommittedContracts DEF IsMap
    <3> QED
      BY <2>3, <3>1
  <2> QED
    BY <2>1, <2>2, <2>3 DEF StoredPayloads
<1>8. StoredBelongs'
  <2> SUFFICES ASSUME NEW e \in DOMAIN contractStorageDb' \cup DOMAIN contractStorageDb2'
               PROVE  e[1] \in DOMAIN contractTree' /\ e[2] <= contractTree'[e[1]]
    BY DEF StoredBelongs
  <2>1. CASE e \in DOMAIN StoredPayloads
    BY <1>7, <2>1
  <2>2. CASE e \in DOMAIN contractStorageDb2
    <3>1. e[1] \in DOMAIN contractTree /\ e[2] <= contractTree[e[1]]
      BY <2>2 DEF ContractsInv, StoredBelongs
    <3>2. e[2] \in Nat /\ contractTree[e[1]] \in Nat
      BY <1>1, <2>2, <3>1 DEF IsMap
    <3>3. contractTree'[e[1]] \in Nat
      BY <1>6, <3>1, CommittedContracts DEF IsMap
    <3> QED
      BY <1>6, <3>1, <3>2, <3>3
  <2> QED
    BY <1>3, <2>1, <2>2, EmptyIsMap
<1>9. \A p \in DOMAIN contractLedgerDb' :
        \/ /\ p \in DOMAIN contractLedgerDb
           /\ contractLedgerDb'[p] = contractLedgerDb[p]
        \/ /\ contractLedgerDb'[p] \in DOMAIN tempNewContractMap
           /\ tempNewContractMap[contractLedgerDb'[p]] = p
  <2> SUFFICES ASSUME NEW p \in DOMAIN contractLedgerDb'
               PROVE  \/ /\ p \in DOMAIN contractLedgerDb
                         /\ contractLedgerDb'[p] = contractLedgerDb[p]
                      \/ /\ contractLedgerDb'[p] \in DOMAIN tempNewContractMap
                         /\ tempNewContractMap[contractLedgerDb'[p]] = p
    OBVIOUS
  <2>1. CASE \E e \in NewContractEntries(watch) : e[1] = p
    <3>1. <<p, contractLedgerDb'[p]>> \in NewContractEntries(watch)
      BY <2>1 DEF CommitContracts
    <3> QED
      BY <3>1 DEF NewContractEntries
  <2>2. CASE ~\E e \in NewContractEntries(watch) : e[1] = p
    <3>1. /\ DOMAIN contractLedgerDb'
               = DOMAIN contractLedgerDb \cup {e[1] : e \in NewContractEntries(watch)}
          /\ \A q \in DOMAIN contractLedgerDb' :
               (~\E e \in NewContractEntries(watch) : e[1] = q) =>
                 contractLedgerDb'[q] = contractLedgerDb[q]
      BY DEF CommitContracts
    <3>2. p \notin {e[1] : e \in NewContractEntries(watch)}
      BY <2>2
    <3>3. p \in DOMAIN contractLedgerDb
      BY <3>1, <3>2
    <3> QED
      BY <2>2, <3>1, <3>3
  <2> QED
    BY <2>1, <2>2
<1>10. IsMap(contractLedgerDb', Payloads, Addressed)
  <2>1. DOMAIN contractLedgerDb' \subseteq Payloads
    BY <1>1, <1>9 DEF IsMap
  <2>2. contractLedgerDb' \in [DOMAIN contractLedgerDb' -> DOMAIN contractTree']
    BY DEF CommitContracts
  <2> QED
    BY <2>1, <2>2, CommittedContracts DEF IsMap
<1>11. IndexNamesCreator'
  <2> SUFFICES ASSUME NEW p \in DOMAIN contractLedgerDb'
               PROVE  /\ contractLedgerDb'[p] \in DOMAIN contractTree'
                      /\ <<contractLedgerDb'[p], 0>> \in DOMAIN contractStorageDb' =>
                           contractStorageDb'[<<contractLedgerDb'[p], 0>>] = p
    BY DEF IndexNamesCreator
  <2> DEFINE c == contractLedgerDb'[p]
  <2>1. CASE p \in DOMAIN contractLedgerDb /\ c = contractLedgerDb[p]
    <3>1. /\ c \in DOMAIN contractTree
          /\ <<c, 0>> \in DOMAIN contractStorageDb => contractStorageDb[<<c, 0>>] = p
      BY <2>1 DEF ContractsInv, IndexNamesCreator
    <3>2. <<c, 0>> \in DOMAIN StoredPayloads => <<c, 0>> \in DOMAIN contractStorageDb
      <4>1. c \notin DOMAIN tempNewContractMap
        BY <1>2, <3>1
      <4>2. c \in DOMAIN tempContractMap => tempContractMap[c].Counter # 0
        BY <1>1, <3>1 DEF IsMap, Call, ContractsInv, CallsAhead
      <4> QED
        BY <4>1, <4>2 DEF StoredPayloads
    <3> QED
      BY <1>3, <1>6, <3>1, <3>2, StoredKeeps, EmptyIsMap
  <2>2. CASE c \in DOMAIN tempNewContractMap /\ tempNewContractMap[c] = p
    <3>1. <<c, 0>> \in DOMAIN StoredPayloads /\ StoredPayloads[<<c, 0>>] = p
      BY <2>2 DEF StoredPayloads
    <3> QED
      BY <1>3, <2>2, <3>1, CommittedContracts, EmptyIsMap
  <2> QED
    BY <1>9, <2>1, <2>2
<1>12. ContractsTypeOK'
  <2>1. \A db \in {contractStorageDb', contractStorageDb2'} : IsMap(db, Addressed \X Nat, Payloads)
    BY <1>1, <1>3, StoredKeeps, EmptyIsMap
  <2> QED
    BY <1>4, <1>10, <2>1, CommittedContracts, EmptyIsMap DEF ContractsTypeOK
<1> QED
  BY <1>5, <1>8, <1>11, <1>12, CommittedContracts DEF ContractsInv

\* Every step of the contract store keeps the invariant.
LEMMA NextContracts == ContractsInv /\ [ContractsNext]_contractsVars => ContractsInv'
<1> SUFFICES ASSUME ContractsInv, [ContractsNext]_contractsVars PROVE ContractsInv'
  OBVIOUS
<1>1. ASSUME NEW c \in ContractAddresses, NEW p \in Payloads, ExecContract(c, p)
      PROVE  ContractsInv'
  BY <1>1, ExecContractStep, ContractsAssumption
<1>2. ASSUME NEW watch \in BOOLEAN, NEW swap \in BOOLEAN, CommitContracts(watch, swap)
      PROVE  ContractsInv'
  BY <1>2, CommitContractsStep
<1>3. CASE UNCHANGED contractsVars
  BY <1>3 DEF contractsVars, ContractsInv, ContractsTypeOK, ContractsDense, NextContract,
     CallsAhead, StoredBelongs, IndexNamesCreator
<1> QED
  BY <1>1, <1>2, <1>3 DEF ContractsNext

\* The contract store's invariant holds in every instance.
THEOREM ContractsInvariance == ContractsSpec => []ContractsInv
<1> QED
  BY InitContracts, NextContracts, PTL DEF ContractsSpec

\* Contract addresses are dense, however calls and creations are mixed.
THEOREM ContractAddressing == ContractsSpec => []ContractsDense
<1>1. ContractsInv => ContractsDense
  BY DEF ContractsInv
<1> QED
  BY <1>1, ContractsInvariance, PTL

\* The maps of the contract store, committed and temporary, hold addresses,
\* calls and payloads, whatever the order of calls, commits and swaps.
THEOREM ContractsTypes == ContractsSpec => []ContractsTypeOK
<1>1. ContractsInv => ContractsTypeOK
  BY DEF ContractsInv
<1> QED
  BY <1>1, ContractsInvariance, PTL

\* No call writes its payload over one that is stored.
THEOREM FreshCalls == ContractsSpec => []CallsAreNew
<1> QED
  BY InvCallsAreNew, ContractsInvariance, PTL

\* The payload index leads to contracts created with the payload.
THEOREM IndexedCreators == ContractsSpec => []IndexNamesCreator
<1>1. ContractsInv => IndexNamesCreator
  BY DEF ContractsInv
<1> QED
  BY <1>1, ContractsInvariance, PTL

\* A payload in the front storage is in one of the two after every step, and
\* the same: a swap never clears what was stored since the swap before.
THEOREM PayloadSurvival == ContractsSpec => PayloadsOutliveASwap
<1> DEFINE Survives ==
      \A e \in DOMAIN contractStorageDb :
        \/ e \in DOMAIN contractStorageDb' /\ contractStorageDb'[e] = contractStorageDb[e]
        \/ e \in DOMAIN contractStorageDb2' /\ contractStorageDb2'[e] = contractStorageDb[e]
<1>1. ContractsInv /\ [ContractsNext]_contractsVars => [Survives]_contractsVars
  <2> SUFFICES ASSUME ContractsInv, ContractsNext PROVE Survives
    OBVIOUS
  <2>1. ASSUME NEW c \in ContractAddresses, NEW p \in Payloads, ExecContract(c, p)
        PROVE  Survives
    BY <2>1 DEF ExecContract
  <2>2. ASSUME NEW watch \in BOOLEAN, NEW swap \in BOOLEAN, CommitContracts(watch, swap)
        PROVE  Survives
    <3>1. contractStorageDb' = StoredPayloads \/ contractStorageDb2' = StoredPayloads
      BY <2>2 DEF CommitContracts, SwapContractDb
    <3> QED
      BY <3>1, StoredKeeps
  <2> QED
    BY <2>1, <2>2 DEF ContractsNext
<1> QED
  BY <1>1, ContractsInvariance, PTL DEF ContractsSpec, PayloadsOutliveASwap

=============================================================================
