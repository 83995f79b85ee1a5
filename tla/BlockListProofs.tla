--------------------------- MODULE BlockListProofs ---------------------------
(***************************************************************************)
(* Proofs about the block list, for any senders and wallets and an array   *)
(* of any length.                                                          *)
(***************************************************************************)
EXTENDS BlockListAudit, FiniteSetTheorems, TLAPS

Pdas == [blocked : [Slots -> Wallets \cup {Default}], count : 0..MaxBlocked]

\* What one account must satisfy for the next call to keep it so: the count
\* can only be kept right if no wallet is stored twice and the other way
\* round, the count stays in range only if it is right.
Sound(pda) ==
    /\ pda \in Pdas
    /\ \A i, j \in Occupied(pda) : pda.blocked[i] = pda.blocked[j] => i = j
    /\ pda.count = Cardinality(Occupied(pda))

Stored(pda) == Range(pda.blocked) \ {Default}

\* The occupied slots are finitely many, and fewer than all if one is empty.
LEMMA OccupiedIsFinite ==
    ASSUME NEW pda
    PROVE  /\ IsFiniteSet(Occupied(pda))
           /\ Cardinality(Occupied(pda)) \in Nat
           /\ Cardinality(Occupied(pda)) <= MaxBlocked
           /\ Occupied(pda) # Slots => Cardinality(Occupied(pda)) < MaxBlocked
<1>1. IsFiniteSet(Slots) /\ Cardinality(Slots) = MaxBlocked
  BY FS_Interval, BlockListAssumption DEF Slots
<1>2. Occupied(pda) \in SUBSET Slots
  BY DEF Occupied
<1>3. /\ IsFiniteSet(Occupied(pda)) /\ Cardinality(Occupied(pda)) <= MaxBlocked
      /\ MaxBlocked = Cardinality(Occupied(pda)) => Slots = Occupied(pda)
  BY <1>1, <1>2, FS_Subset
<1>4. Cardinality(Occupied(pda)) \in Nat
  BY <1>3, FS_CardinalityType
<1>5. QED
  BY <1>3, <1>4, BlockListAssumption

\* What is stored, slot by slot.
LEMMA StoredSlots ==
    ASSUME NEW pda, pda.blocked \in [Slots -> Wallets \cup {Default}]
    PROVE  /\ \A w : w \in Stored(pda) <=> \E i \in Occupied(pda) : pda.blocked[i] = w
           /\ \A w : Find(pda, w) = {} <=> w \notin Stored(pda)
<1>1. DOMAIN pda.blocked = Slots
  OBVIOUS
<1>2. \A w : w \in Range(pda.blocked) <=> \E i \in Slots : pda.blocked[i] = w
  BY <1>1 DEF Range
<1>3. QED
  BY <1>2 DEF Stored, Occupied, Find

\* Without duplicates there are as many wallets as occupied slots.
LEMMA StoredCardinality ==
    ASSUME NEW pda, Sound(pda)
    PROVE  Cardinality(Stored(pda)) = pda.count
<1> DEFINE f == [i \in Occupied(pda) |-> pda.blocked[i]]
<1>1. pda.blocked \in [Slots -> Wallets \cup {Default}]
  BY DEF Sound, Pdas
<1>2. f \in Bijection(Occupied(pda), Stored(pda))
  <2>1. f \in [Occupied(pda) -> Stored(pda)]
    BY <1>1, StoredSlots
  <2>2. \A i, j \in Occupied(pda) : f[i] = f[j] => i = j
    BY DEF Sound
  <2>3. \A w \in Stored(pda) : \E i \in Occupied(pda) : f[i] = w
    BY <1>1, StoredSlots
  <2>4. QED
    BY <2>1, <2>2, <2>3 DEF Bijection, Injection, Surjection, IsInjective
<1>3. ExistsBijection(Occupied(pda), Stored(pda))
  BY <1>2 DEF ExistsBijection
<1>4. QED
  BY <1>3, OccupiedIsFinite, FS_Bijection DEF Sound

\* A list that does not exist yet is as good as an empty one.
LEMMA EmptyIsSound == Sound(Empty) /\ Stored(Empty) = {}
<1>1. Empty.blocked = [i \in Slots |-> Default] /\ Empty.count = 0
  BY DEF Empty
<1>2. Occupied(Empty) = {}
  BY <1>1 DEF Occupied
<1>3. Empty \in Pdas
  BY BlockListAssumption DEF Empty, Pdas
<1>4. Cardinality(Occupied(Empty)) = 0
  BY <1>2, FS_EmptySet
<1>5. Sound(Empty)
  BY <1>1, <1>2, <1>3, <1>4 DEF Sound
<1>6. Empty.blocked \in [Slots -> Wallets \cup {Default}]
  BY <1>1
<1>7. Stored(Empty) = {}
  BY <1>2, <1>6, StoredSlots
<1>8. QED
  BY <1>5, <1>7

\* Storing a wallet that is not found, in an empty slot.
LEMMA Adding ==
    ASSUME NEW pda, Sound(pda), NEW w \in Wallets, Find(pda, w) = {},
           NEW s \in FirstEmpty(pda),
           NEW new, new = [blocked |-> [pda.blocked EXCEPT ![s] = w], count |-> pda.count + 1]
    PROVE  /\ Sound(new)
           /\ w \notin Stored(pda) /\ Stored(new) = Stored(pda) \cup {w}
           /\ Cardinality(Stored(pda)) < MaxBlocked
<1>1. /\ pda.blocked \in [Slots -> Wallets \cup {Default}] /\ pda.count \in Nat
      /\ s \in Slots /\ pda.blocked[s] = Default /\ w # Default
  BY BlockListAssumption DEF Sound, Pdas, FirstEmpty
<1>2. /\ new.blocked \in [Slots -> Wallets \cup {Default}]
      /\ \A i \in Slots : new.blocked[i] = IF i = s THEN w ELSE pda.blocked[i]
      /\ new.count = pda.count + 1
  BY <1>1
<1>3. Occupied(new) = Occupied(pda) \cup {s} /\ s \notin Occupied(pda)
  BY <1>1, <1>2 DEF Occupied
<1>4. w \notin Stored(pda)
  BY <1>1, StoredSlots
<1>5. \A i \in Occupied(pda) : pda.blocked[i] # w
  BY <1>1, <1>4, StoredSlots
<1>6. Cardinality(Occupied(new)) = Cardinality(Occupied(pda)) + 1
  BY <1>3, OccupiedIsFinite, FS_AddElement
<1>7. pda.count < MaxBlocked
  BY <1>1, <1>3, OccupiedIsFinite DEF Sound
<1>8. new \in Pdas
  <2>1. new.count \in 0..MaxBlocked
    BY <1>1, <1>2, <1>7, BlockListAssumption
  <2>2. QED
    BY <1>2, <2>1 DEF Pdas
<1>9. \A i, j \in Occupied(new) : new.blocked[i] = new.blocked[j] => i = j
  <2>1. \A i \in Occupied(pda) : i \in Slots /\ new.blocked[i] = pda.blocked[i]
    BY <1>2, <1>3 DEF Occupied
  <2>2. new.blocked[s] = w
    BY <1>1, <1>2
  <2>3. QED
    BY <1>3, <1>5, <2>1, <2>2 DEF Sound
<1>10. Sound(new)
  BY <1>2, <1>6, <1>8, <1>9 DEF Sound
<1>11. Stored(new) = Stored(pda) \cup {w}
  <2>1. \A i \in Occupied(pda) : i \in Slots /\ new.blocked[i] = pda.blocked[i]
    BY <1>2, <1>3 DEF Occupied
  <2>2. new.blocked[s] = w
    BY <1>1, <1>2
  <2>3. \A v : v \in Stored(new) <=> \E i \in Occupied(new) : new.blocked[i] = v
    BY <1>2, StoredSlots
  <2>4. \A v : v \in Stored(pda) <=> \E i \in Occupied(pda) : pda.blocked[i] = v
    BY <1>1, StoredSlots
  <2>5. QED
    BY <1>3, <2>1, <2>2, <2>3, <2>4
<1>12. QED
  BY <1>4, <1>7, <1>10, <1>11, StoredCardinality

\* Clearing the slot in which a wallet is found; it was in no other.
LEMMA Removing ==
    ASSUME NEW pda, Sound(pda), NEW w, NEW s \in Find(pda, w),
           NEW new, new = [blocked |-> [pda.blocked EXCEPT ![s] = Default],
                           count |-> IF pda.count > 0 THEN pda.count - 1 ELSE 0]
    PROVE  /\ Sound(new)
           /\ w \in Stored(pda) /\ Stored(new) = Stored(pda) \ {w}
<1>1. /\ pda.blocked \in [Slots -> Wallets \cup {Default}] /\ pda.count \in 0..MaxBlocked
      /\ s \in Slots /\ pda.blocked[s] = w /\ w # Default
  BY DEF Sound, Pdas, Find
<1>2. /\ new.blocked \in [Slots -> Wallets \cup {Default}]
      /\ \A i \in Slots : new.blocked[i] = IF i = s THEN Default ELSE pda.blocked[i]
      /\ new.count = IF pda.count > 0 THEN pda.count - 1 ELSE 0
  BY <1>1
<1>3. Occupied(new) = Occupied(pda) \ {s} /\ s \in Occupied(pda)
  BY <1>1, <1>2 DEF Occupied
<1>4. \A i \in Occupied(pda) : pda.blocked[i] = w => i = s
  BY <1>1, <1>3 DEF Sound
<1>5. Cardinality(Occupied(new)) = Cardinality(Occupied(pda)) - 1
  BY <1>3, OccupiedIsFinite, FS_RemoveElement
<1>6. pda.count > 0
  BY <1>3, OccupiedIsFinite, FS_EmptySet, <1>1 DEF Sound
<1>7. new \in Pdas
  <2>1. new.count \in 0..MaxBlocked
    BY <1>1, <1>2, <1>6, BlockListAssumption
  <2>2. QED
    BY <1>2, <2>1 DEF Pdas
<1>8. \A i \in Occupied(new) : i \in Occupied(pda) /\ i # s /\ new.blocked[i] = pda.blocked[i]
  BY <1>2, <1>3 DEF Occupied
<1>9. Sound(new)
  <2>1. \A i, j \in Occupied(new) : new.blocked[i] = new.blocked[j] => i = j
    BY <1>8 DEF Sound
  <2>2. new.count = Cardinality(Occupied(new))
    BY <1>1, <1>2, <1>5, <1>6 DEF Sound
  <2>3. QED
    BY <1>7, <2>1, <2>2 DEF Sound
<1>10. Stored(new) = Stored(pda) \ {w}
  <2>0. new.blocked \in [Slots -> Wallets \cup {Default}]
    BY <1>2
  <2>1. \A v : v \in Stored(new) <=> \E i \in Occupied(new) : new.blocked[i] = v
    BY ONLY <2>0, StoredSlots
  <2>2. \A v : v \in Stored(pda) <=> \E i \in Occupied(pda) : pda.blocked[i] = v
    BY <1>1, StoredSlots
  <2>3. \A i \in Occupied(pda) : i # s => i \in Occupied(new)
    BY <1>3
  <2>4. ASSUME NEW v \in Stored(new) PROVE v \in Stored(pda) /\ v # w
    <3>1. PICK i \in Occupied(new) : new.blocked[i] = v
      BY <2>1
    <3>2. i \in Occupied(pda) /\ i # s /\ pda.blocked[i] = v
      BY <1>8, <3>1
    <3>3. QED
      BY <1>4, <2>2, <3>2
  <2>5. ASSUME NEW v \in Stored(pda), v # w PROVE v \in Stored(new)
    <3>1. PICK i \in Occupied(pda) : pda.blocked[i] = v
      BY <2>2
    <3>2. i # s /\ new.blocked[i] = v
      BY <1>1, <1>8, <2>3, <2>5, <3>1
    <3>3. QED
      BY <2>1, <2>3, <3>2
  <2>6. QED
    BY <2>4, <2>5
<1>11. QED
  BY <1>1, <1>3, <1>9, <1>10, StoredSlots

-----------------------------------------------------------------------------
(* The specification. *)

Inv ==
    /\ blockList \in [Keys -> Pdas \cup {NoAccount}]
    /\ \A k \in Keys : Configured(k) => Sound(blockList[k])

\* A missing account is not taken for one with an empty list.
LEMMA NoAccountIsNoPda == NoAccount \notin Pdas
  BY BlockListAssumption DEF Pdas, Slots

\* The account an addition starts from.
Current(k) == IF Configured(k) THEN blockList[k] ELSE Empty

\* The account an addition starts from is sound, whether it exists or not.
LEMMA CurrentFacts ==
    ASSUME Inv, NEW k \in Keys
    PROVE  Sound(Current(k)) /\ Members(k) = Stored(Current(k))
  BY EmptyIsSound DEF Inv, Current, Members, Stored

\* What a successful call does to the account of its sender, and that it
\* touches no other.
LEMMA AddStep ==
    ASSUME Inv, NEW k \in Keys, NEW w \in Wallets \cup {Default}, AddBlocked(k, w)
    PROVE  /\ w \in Wallets
           /\ blockList' = [blockList EXCEPT ![k] = blockList'[k]]
           /\ blockList'[k] \in Pdas /\ Sound(blockList'[k])
           /\ w \notin Members(k) /\ Stored(blockList'[k]) = Members(k) \cup {w}
           /\ Cardinality(Members(k)) < MaxBlocked
<1> DEFINE pda == Current(k)
<1>1. w # Default /\ w \in Wallets /\ Find(pda, w) = {}
  BY DEF AddBlocked, Current
<1>2. PICK s \in FirstEmpty(pda) :
        blockList' = [blockList EXCEPT ![k] =
            [blocked |-> [pda.blocked EXCEPT ![s] = w], count |-> pda.count + 1]]
  BY DEF AddBlocked, Current
<1> DEFINE new == [blocked |-> [pda.blocked EXCEPT ![s] = w], count |-> pda.count + 1]
<1>3. Sound(pda) /\ Members(k) = Stored(pda)
  BY CurrentFacts
<1> HIDE DEF pda
<1>4. /\ Sound(new) /\ w \notin Stored(pda) /\ Stored(new) = Stored(pda) \cup {w}
      /\ Cardinality(Stored(pda)) < MaxBlocked
  BY <1>1, <1>3, Adding
<1>5. blockList' = [blockList EXCEPT ![k] = new]
  BY <1>2
<1> HIDE DEF new
<1>6. blockList'[k] = new
  BY <1>5 DEF Inv
<1>7. QED
  BY <1>1, <1>3, <1>4, <1>5, <1>6 DEF Sound

\* A removal that succeeds, likewise: the sender's account stays sound and
\* loses exactly the wallet; no other account is touched.
LEMMA RemoveStep ==
    ASSUME Inv, NEW k \in Keys, NEW w \in Wallets \cup {Default}, RemoveBlocked(k, w)
    PROVE  /\ w \in Wallets
           /\ blockList' = [blockList EXCEPT ![k] = blockList'[k]]
           /\ blockList'[k] \in Pdas /\ Sound(blockList'[k])
           /\ w \in Members(k) /\ Stored(blockList'[k]) = Members(k) \ {w}
<1> DEFINE pda == blockList[k]
<1>1. Configured(k)
  BY DEF RemoveBlocked
<1>2. PICK s \in Find(pda, w) :
        blockList' = [blockList EXCEPT ![k] =
            [blocked |-> [pda.blocked EXCEPT ![s] = Default],
             count |-> IF pda.count > 0 THEN pda.count - 1 ELSE 0]]
  BY DEF RemoveBlocked
<1> DEFINE new == [blocked |-> [pda.blocked EXCEPT ![s] = Default],
                   count |-> IF pda.count > 0 THEN pda.count - 1 ELSE 0]
<1>3. Sound(pda) /\ Members(k) = Stored(pda) /\ w # Default
  BY <1>1, <1>2 DEF Inv, Members, Stored, Find
<1> HIDE DEF pda
<1>4. Sound(new) /\ w \in Stored(pda) /\ Stored(new) = Stored(pda) \ {w}
  BY <1>3, Removing
<1>5. blockList' = [blockList EXCEPT ![k] = new]
  BY <1>2
<1> HIDE DEF new
<1>6. blockList'[k] = new
  BY <1>5 DEF Inv
<1>7. QED
  BY <1>3, <1>4, <1>5, <1>6 DEF Sound

\* Soundness of every account is preserved by every call.
LEMMA Inductive == Spec => []Inv
<1>1. Init => Inv
  BY DEF Init, Inv, Configured
<1>2. ASSUME Inv, [Next]_blockList PROVE Inv'
  <2>1. ASSUME NEW k \in Keys, NEW w \in Wallets \cup {Default}, AddBlocked(k, w)
        PROVE  Inv'
    <3>1. /\ blockList' = [blockList EXCEPT ![k] = blockList'[k]]
          /\ blockList'[k] \in Pdas /\ Sound(blockList'[k])
      BY <1>2, <2>1, AddStep
    <3>2. QED
      BY <1>2, <3>1 DEF Inv, Configured
  <2>2. ASSUME NEW k \in Keys, NEW w \in Wallets \cup {Default}, RemoveBlocked(k, w)
        PROVE  Inv'
    <3>1. /\ blockList' = [blockList EXCEPT ![k] = blockList'[k]]
          /\ blockList'[k] \in Pdas /\ Sound(blockList'[k])
      BY <1>2, <2>2, RemoveStep
    <3>2. QED
      BY <1>2, <3>1 DEF Inv, Configured
  <2>3. ASSUME UNCHANGED blockList PROVE Inv'
    BY <1>2, <2>3 DEF Inv, Configured
  <2>4. QED
    BY <1>2, <2>1, <2>2, <2>3 DEF Next, CheckTransfer
<1>3. QED
  BY <1>1, <1>2, PTL DEF Spec

\* Every account keeps a value of its type: the count never leaves
\* 0..MaxBlocked, because it is the number of occupied slots.
THEOREM TypeCorrect == Spec => []TypeOK
  BY Inductive, PTL DEF Inv, TypeOK, Pdas

\* No wallet is ever stored twice, in whatever order additions fill the
\* holes removals leave.
THEOREM NoDuplicatesHold == Spec => []NoDuplicates
<1>1. Inv => NoDuplicates
  BY DEF Inv, Sound, NoDuplicates
<1>2. QED
  BY <1>1, Inductive, PTL

\* The count follows: its saturating arithmetic never saturates.
THEOREM CountIsRight == Spec => []CountIsOccupancy
<1>1. Inv => CountIsOccupancy
  BY DEF Inv, Sound, CountIsOccupancy
<1>2. QED
  BY <1>1, Inductive, PTL

\* What an addition does to what the senders' lists hold.
LEMMA MembersAfterAdd ==
    ASSUME Inv, NEW k \in Keys, NEW w \in Wallets \cup {Default}, AddBlocked(k, w)
    PROVE  /\ Members(k)' = Members(k) \cup {w}
           /\ \A j \in Keys : j # k => Members(j)' = Members(j)
<1>1. /\ blockList' = [blockList EXCEPT ![k] = blockList'[k]] /\ blockList'[k] \in Pdas
      /\ Stored(blockList'[k]) = Members(k) \cup {w}
  BY AddStep
<1>2. QED
  BY <1>1, NoAccountIsNoPda DEF Members, Configured, Stored, Inv

\* And what a removal does.
LEMMA MembersAfterRemove ==
    ASSUME Inv, NEW k \in Keys, NEW w \in Wallets \cup {Default}, RemoveBlocked(k, w)
    PROVE  /\ Members(k)' = Members(k) \ {w}
           /\ \A j \in Keys : j # k => Members(j)' = Members(j)
<1>1. /\ blockList' = [blockList EXCEPT ![k] = blockList'[k]] /\ blockList'[k] \in Pdas
      /\ Stored(blockList'[k]) = Members(k) \ {w}
  BY RemoveStep
<1>2. QED
  BY <1>1, NoAccountIsNoPda DEF Members, Configured, Stored, Inv

\* What the senders asked for is what their lists hold.
Recorded == asked = [k \in Keys |-> Members(k)]

\* The check refuses exactly what was asked for, after any sequence of
\* additions and removals.
THEOREM RefusalIsExact == AuditSpec => []RefusesExactlyTheBlocked
<1>1. AuditInit => Init /\ Recorded
  BY DEF AuditInit, Init, Recorded, Members, Configured
<1>2. [AuditNext]_auditVars => [Next]_blockList
  BY DEF AuditNext, AuditedAdd, AuditedRemove, AuditedCheck, auditVars, Next
<1>3. ASSUME Inv, Recorded, [AuditNext]_auditVars PROVE Recorded'
  <2>1. ASSUME NEW k \in Keys, NEW w \in Wallets \cup {Default}, AuditedAdd(k, w)
        PROVE  Recorded'
    BY <1>3, <2>1, MembersAfterAdd DEF AuditedAdd, Recorded
  <2>2. ASSUME NEW k \in Keys, NEW w \in Wallets \cup {Default}, AuditedRemove(k, w)
        PROVE  Recorded'
    BY <1>3, <2>2, MembersAfterRemove DEF AuditedRemove, Recorded
  <2>3. CASE UNCHANGED auditVars
    BY <1>3, <2>3 DEF auditVars, Recorded, Members, Configured
  <2>4. QED
    BY <1>3, <2>1, <2>2, <2>3
       DEF AuditNext, AuditedCheck, CheckTransfer, auditVars
<1>4. ASSUME Inv, Recorded PROVE RefusesExactlyTheBlocked
  <2> SUFFICES ASSUME NEW k \in Keys, NEW w
               PROVE  Approves(k, w) <=> w \notin Members(k)
    BY <1>4 DEF Recorded, RefusesExactlyTheBlocked
  <2>1. CASE ~Configured(k)
    BY <2>1 DEF Approves, Members
  <2>2. CASE Configured(k)
    <3>1. blockList[k].blocked \in [Slots -> Wallets \cup {Default}]
      BY <1>4, <2>2 DEF Inv, Sound, Pdas
    <3>2. Members(k) = Stored(blockList[k])
      BY <2>2 DEF Members, Stored
    <3>3. QED
      BY <2>2, <3>1, <3>2, StoredSlots DEF Approves
  <2>3. QED
    BY <2>1, <2>2
<1>5. QED
  BY <1>1, <1>2, <1>3, <1>4, Inductive, PTL DEF AuditSpec, Spec

\* The two modules count with the same operator.
LEMMA SameCardinality == \A S : Abstract!Cardinality(S) = Cardinality(S)
  BY DEF Abstract!Cardinality, Cardinality

\* The array with its holes implements the bounded set.
THEOREM Refinement == Spec => ImplementsBlockSet
<1> DEFINE members == [k \in Keys |-> Members(k)]
<1>1. Init => Abstract!Init
  BY DEF Init, Abstract!Init, Members, Configured
<1>2. ASSUME Inv, [Next]_blockList PROVE [Abstract!Next]_members
  <2>1. ASSUME NEW k \in Keys, NEW w \in Wallets \cup {Default}, AddBlocked(k, w)
        PROVE  Abstract!Add(k, w) /\ w \in Wallets
    <3>1. w \in Wallets /\ w \notin Members(k) /\ Cardinality(Members(k)) < MaxBlocked
      BY <1>2, <2>1, AddStep
    <3>2. members' = [members EXCEPT ![k] = members[k] \cup {w}]
      BY <1>2, <2>1, MembersAfterAdd
    <3>3. QED
      BY <3>1, <3>2, SameCardinality DEF Abstract!Add
  <2>2. ASSUME NEW k \in Keys, NEW w \in Wallets \cup {Default}, RemoveBlocked(k, w)
        PROVE  Abstract!Remove(k, w) /\ w \in Wallets
    <3>1. w \in Wallets /\ w \in Members(k)
      BY <1>2, <2>2, RemoveStep
    <3>2. members' = [members EXCEPT ![k] = members[k] \ {w}]
      BY <1>2, <2>2, MembersAfterRemove
    <3>3. QED
      BY <3>1, <3>2 DEF Abstract!Remove
  <2>3. ASSUME UNCHANGED blockList PROVE UNCHANGED members
    BY <2>3 DEF Members, Configured
  <2>4. QED
    BY <1>2, <2>1, <2>2, <2>3 DEF Next, CheckTransfer, Abstract!Next
<1>3. QED
  BY <1>1, <1>2, Inductive, PTL DEF Spec, ImplementsBlockSet, Abstract!Spec
=============================================================================
