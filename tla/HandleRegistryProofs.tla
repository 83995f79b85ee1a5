------------------------ MODULE HandleRegistryProofs ------------------------
(***************************************************************************)
(* Proofs about the handle registry, for any names, wallets, rents and     *)
(* gifts.                                                                  *)
(*                                                                         *)
(* No instruction compares the name in a reverse PDA with the handle it    *)
(* acts on, so ForwardMatchesReverse is what makes the reverse PDA that a  *)
(* release or a transfer closes the right one.  With TypeOK it is          *)
(* inductive; the refinement, the funding and what each wallet can lose    *)
(* follow from it.                                                         *)
(***************************************************************************)
EXTENDS HandleRegistry, TLAPS

\* Lamports sent to some PDA's address.
Sends(w, amount) ==
    \/ \E n \in GiftedNames : SendToForward(w, n, amount)
    \/ \E v \in GiftedWallets : SendToReverse(w, v, amount)

\* The actions of Next, one alternative each.
LEMMA StepCases ==
    ASSUME [Next]_vars
    PROVE  \/ \E n \in Names, w \in Wallets : ClaimHandle(w, n)
           \/ \E n \in Names, w \in Wallets : ReleaseHandle(w, n)
           \/ \E n \in Names, w \in Wallets, v \in Wallets : TransferHandle(w, v, n)
           \/ \E w \in Wallets, amount \in Gifts : Sends(w, amount)
           \/ UNCHANGED vars
  BY DEF Next, Sends

\* Creating a PDA never takes less than nothing, never more than its rent,
\* and leaves at least the rent at the address.
LEMMA TopUpFacts ==
    ASSUME TypeOK
    PROVE  /\ \A n \in Names :
                 ForwardCost(n) \in Nat /\ held[n] + ForwardCost(n) >= HandleRent
           /\ \A w \in Wallets :
                 /\ ReverseCost(w) \in Nat /\ ReverseCost(w) <= ReverseRent
                 /\ reverseHeld[w] + ReverseCost(w) >= ReverseRent
  BY HandleRegistryAssumption DEF TypeOK, TopUp, ForwardCost, ReverseCost

\* Accounts keep their types, no wallet is ever overdrawn by a claim, a
\* transfer of a handle or a gift, and no ill-formed name is owned.
THEOREM TypeCorrect == Spec => []TypeOK
<1> USE HandleRegistryAssumption DEF TypeOK
<1>1. Init => TypeOK
  BY DEF Init
<1>2. TypeOK /\ [Next]_vars => TypeOK'
  <2> SUFFICES ASSUME TypeOK, [Next]_vars PROVE TypeOK'
    OBVIOUS
  <2>0. \A n \in Names : validate_handle(n)' = validate_handle(n)
    BY DEF validate_handle
  <2>1. ASSUME NEW n \in Names, NEW w \in Wallets, ClaimHandle(w, n)
        PROVE  TypeOK'
    <3>1. ForwardCost(n) \in Nat /\ ReverseCost(w) \in Nat /\ ClaimCost(w, n) \in Nat
      BY TopUpFacts DEF ClaimCost
    <3>2. QED
      BY <2>0, <2>1, <3>1 DEF ClaimHandle, Claimed
  <2>2. ASSUME NEW n \in Names, NEW w \in Wallets, ReleaseHandle(w, n)
        PROVE  TypeOK'
    BY <2>0, <2>2 DEF ReleaseHandle
  <2>3. ASSUME NEW n \in Names, NEW w \in Wallets, NEW v \in Wallets,
               TransferHandle(w, v, n)
        PROVE  TypeOK'
    <3>1. ReverseCost(v) \in Nat
      BY TopUpFacts
    <3>2. QED
      BY <2>0, <2>3, <3>1 DEF TransferHandle, MayTransfer
  <2>4. ASSUME NEW w \in Wallets, NEW amount \in Gifts, Sends(w, amount)
        PROVE  TypeOK'
    BY <2>0, <2>4 DEF Sends, SendToForward, SendToReverse
  <2>5. CASE UNCHANGED vars
    BY <2>0, <2>5 DEF vars
  <2>6. QED
    BY <2>1, <2>2, <2>3, <2>4, <2>5, StepCases
<1>3. QED
  BY <1>1, <1>2, PTL DEF Spec

\* The forward and the reverse PDAs are inverse to each other in every
\* reachable state, although neither release_handle nor transfer_handle
\* compares them.
THEOREM Lockstep == Spec => []ForwardMatchesReverse
<1> USE HandleRegistryAssumption DEF TypeOK, ForwardMatchesReverse
<1>1. Init => ForwardMatchesReverse
  BY DEF Init
<1>2. TypeOK /\ ForwardMatchesReverse /\ [Next]_vars => ForwardMatchesReverse'
  <2> SUFFICES ASSUME TypeOK, ForwardMatchesReverse, [Next]_vars
               PROVE  ForwardMatchesReverse'
    OBVIOUS
  <2>1. ASSUME NEW n \in Names, NEW w \in Wallets, ClaimHandle(w, n)
        PROVE  ForwardMatchesReverse'
    BY <2>1 DEF ClaimHandle, Claimed
  <2>2. ASSUME NEW n \in Names, NEW w \in Wallets, ReleaseHandle(w, n)
        PROVE  ForwardMatchesReverse'
    BY <2>2 DEF ReleaseHandle
  <2>3. ASSUME NEW n \in Names, NEW w \in Wallets, NEW v \in Wallets,
               TransferHandle(w, v, n)
        PROVE  ForwardMatchesReverse'
    BY <2>3 DEF TransferHandle, MayTransfer
  <2>4. CASE \E w \in Wallets, amount \in Gifts : Sends(w, amount)
    BY <2>4 DEF Sends, SendToForward, SendToReverse
  <2>5. CASE UNCHANGED vars
    BY <2>5 DEF vars
  <2>6. QED
    BY <2>1, <2>2, <2>3, <2>4, <2>5, StepCases
<1>3. QED
  BY <1>1, <1>2, TypeCorrect, PTL DEF Spec

\* The accounts of whatever is owned hold their rent and the deposit, so
\* that it can be refunded.
THEOREM Funded == Spec => []OwnedIsFunded
<1> USE HandleRegistryAssumption DEF TypeOK, OwnedIsFunded
<1>1. Init => OwnedIsFunded
  BY DEF Init
<1>2. TypeOK /\ ForwardMatchesReverse /\ OwnedIsFunded /\ [Next]_vars => OwnedIsFunded'
  <2> SUFFICES ASSUME TypeOK, ForwardMatchesReverse, OwnedIsFunded, [Next]_vars
               PROVE  OwnedIsFunded'
    OBVIOUS
  <2>1. ASSUME NEW n \in Names, NEW w \in Wallets, ClaimHandle(w, n)
        PROVE  OwnedIsFunded'
    <3>1. /\ ForwardCost(n) \in Nat /\ held[n] + ForwardCost(n) >= HandleRent
          /\ ReverseCost(w) \in Nat /\ reverseHeld[w] + ReverseCost(w) >= ReverseRent
      BY TopUpFacts
    <3>2. held'[n] >= HandleRent + Deposit /\ reverseHeld'[w] >= ReverseRent
      BY <2>1, <3>1 DEF ClaimHandle, Claimed
    <3>3. \A m \in Names \ {n} : handle[m] # w
      BY <2>1 DEF ClaimHandle, ForwardMatchesReverse
    <3>4. QED
      BY <2>1, <3>2, <3>3 DEF ClaimHandle, Claimed
  <2>2. ASSUME NEW n \in Names, NEW w \in Wallets, ReleaseHandle(w, n)
        PROVE  OwnedIsFunded'
    <3>1. \A m \in Names \ {n} : handle[m] # w
      BY <2>2 DEF ReleaseHandle, ForwardMatchesReverse
    <3>2. QED
      BY <2>2, <3>1 DEF ReleaseHandle
  <2>3. ASSUME NEW n \in Names, NEW w \in Wallets, NEW v \in Wallets,
               TransferHandle(w, v, n)
        PROVE  OwnedIsFunded'
    <3>1. \A m \in Names \ {n} : handle[m] # w /\ handle[m] # v
      BY <2>3 DEF TransferHandle, MayTransfer, ForwardMatchesReverse
    <3>2. reverseHeld'[v] >= ReverseRent
      BY <2>3, TopUpFacts DEF TransferHandle, MayTransfer
    <3>3. QED
      BY <2>3, <3>1, <3>2 DEF TransferHandle, MayTransfer
  <2>4. ASSUME NEW w \in Wallets, NEW amount \in Gifts, Sends(w, amount)
        PROVE  OwnedIsFunded'
    BY <2>4 DEF Sends, SendToForward, SendToReverse
  <2>5. CASE UNCHANGED vars
    BY <2>5 DEF vars
  <2>6. QED
    BY <2>1, <2>2, <2>3, <2>4, <2>5, StepCases
<1>3. QED
  BY <1>1, <1>2, TypeCorrect, Lockstep, PTL DEF Spec

\* No call of another wallet, and no claim or release of its own, makes a
\* wallet poorer: by the invariant, the accounts a call closes are those of
\* the wallet it refunds.
THEOREM OnlyGiftsCost == Spec => LossesAreGifts
<1>1. TypeOK /\ ForwardMatchesReverse /\ [Next]_vars
        => [\A w \in Wallets :
              Wealth(w)' < Wealth(w) => GaveItsHandle(w) \/ SentLamports(w)]_vars
  <2> SUFFICES ASSUME TypeOK, ForwardMatchesReverse, [Next]_vars, NEW u \in Wallets,
                      Wealth(u)' < Wealth(u), ~UNCHANGED vars
               PROVE  GaveItsHandle(u) \/ SentLamports(u)
    OBVIOUS
  <2> USE HandleRegistryAssumption DEF TypeOK, ForwardMatchesReverse
  <2>0. Wealth(u) \in Nat
    BY DEF Wealth
  <2>1. ASSUME NEW n \in Names, NEW w \in Wallets, ClaimHandle(w, n)
        PROVE  FALSE
    <3>1. ForwardCost(n) \in Nat /\ ReverseCost(w) \in Nat
      BY TopUpFacts
    <3>2. CASE u = w
      BY <2>1, <3>1, <3>2 DEF ClaimHandle, Claimed, ClaimCost, Wealth
    <3>3. CASE u # w
      <4>1. reverse[u] # n
        BY <2>1, <3>3 DEF ClaimHandle
      <4>2. QED
        BY <2>1, <3>3, <4>1, <2>0 DEF ClaimHandle, Claimed, Wealth
    <3>4. QED
      BY <3>2, <3>3
  <2>2. ASSUME NEW n \in Names, NEW w \in Wallets, ReleaseHandle(w, n)
        PROVE  FALSE
    <3>1. reverse[w] = n
      BY <2>2 DEF ReleaseHandle
    <3>2. CASE u = w
      BY <2>2, <3>1, <3>2 DEF ReleaseHandle, Wealth
    <3>3. CASE u # w
      <4>1. reverse[u] # n
        BY <2>2, <3>3 DEF ReleaseHandle
      <4>2. QED
        BY <2>2, <3>3, <4>1, <2>0 DEF ReleaseHandle, Wealth
    <3>4. QED
      BY <3>2, <3>3
  <2>3. ASSUME NEW n \in Names, NEW w \in Wallets, NEW v \in Wallets,
               TransferHandle(w, v, n)
        PROVE  GaveItsHandle(u)
    <3>1. reverse[w] = n /\ reverse[v] = NoAccount /\ v # w
      BY <2>3 DEF TransferHandle, MayTransfer
    <3>2. ReverseCost(v) \in Nat /\ ReverseCost(v) <= ReverseRent
      BY TopUpFacts
    <3>3. CASE u = w
      <4>1. Wealth(u)' = lamports[u] - ReverseCost(v) + reverseHeld[u]
        BY <2>3, <3>1, <3>2, <3>3 DEF TransferHandle, Wealth
      <4>2. Wealth(u)' >= Wealth(u) - held[n] - ReverseRent
        BY <3>1, <3>2, <3>3, <4>1 DEF Wealth
      <4>3. QED
        BY <2>3, <3>1, <3>3, <4>2 DEF GaveItsHandle, TransferHandle, MayTransfer
    <3>4. CASE u = v
      BY <2>3, <3>1, <3>2, <3>4 DEF TransferHandle, Wealth
    <3>5. CASE u # w /\ u # v
      <4>1. reverse[u] # n
        BY <2>3, <3>5 DEF TransferHandle, MayTransfer
      <4>2. QED
        BY <2>3, <3>5, <4>1, <2>0 DEF TransferHandle, Wealth
    <3>6. QED
      BY <3>3, <3>4, <3>5
  <2>4. ASSUME NEW w \in Wallets, NEW amount \in Gifts, Sends(w, amount)
        PROVE  SentLamports(u)
    <3>1. amount \in Nat /\ UNCHANGED <<handle, reverse>>
      BY <2>4 DEF Sends, SendToForward, SendToReverse
    <3>2. /\ lamports' = [lamports EXCEPT ![w] = @ - amount]
          /\ \A n \in Names : held'[n] \in Nat /\ held'[n] >= held[n]
          /\ \A v \in Wallets : reverseHeld'[v] \in Nat /\ reverseHeld'[v] >= reverseHeld[v]
      BY <2>4 DEF Sends, SendToForward, SendToReverse
    <3>3. CASE lamports'[u] >= lamports[u]
      BY <3>1, <3>2, <3>3 DEF Wealth
    <3>4. CASE ~(lamports'[u] >= lamports[u])
      BY <3>1, <3>2, <3>4 DEF SentLamports
    <3>5. QED
      BY <3>3, <3>4
  <2>5. QED
    BY <2>1, <2>2, <2>3, <2>4, StepCases
<1>2. QED
  BY <1>1, TypeCorrect, Lockstep, PTL DEF Spec, LossesAreGifts

\* The forward PDAs are a directory in which no wallet owns two handles.
THEOREM Refinement == Spec => ImplementsDirectory
<1> USE HandleRegistryAssumption DEF TypeOK
<1>1. Init => Directory!Init
  BY DEF Init, Directory!Init
<1>2. TypeOK /\ ForwardMatchesReverse /\ [Next]_vars => [Directory!Next]_handle
  <2> SUFFICES ASSUME TypeOK, ForwardMatchesReverse, [Next]_vars
               PROVE  [Directory!Next]_handle
    OBVIOUS
  <2> USE DEF Directory!Next
  <2>0. \A w \in Wallets : reverse[w] = NoAccount => Directory!OwnsNone(w)
    BY DEF ForwardMatchesReverse, Directory!OwnsNone
  <2>1. ASSUME NEW n \in Names, NEW w \in Wallets, ClaimHandle(w, n)
        PROVE  Directory!Next
    <3>1. Directory!Claim(w, n)
      BY <2>0, <2>1 DEF ClaimHandle, Claimed, Directory!Claim
    <3>2. QED
      BY <3>1
  <2>2. ASSUME NEW n \in Names, NEW w \in Wallets, ReleaseHandle(w, n)
        PROVE  Directory!Next
    <3>1. Directory!Release(w, n)
      BY <2>2 DEF ReleaseHandle, Directory!Release
    <3>2. QED
      BY <3>1
  <2>3. ASSUME NEW n \in Names, NEW w \in Wallets, NEW v \in Wallets,
               TransferHandle(w, v, n)
        PROVE  Directory!Next
    <3>1. Directory!Transfer(w, v, n)
      BY <2>0, <2>3 DEF TransferHandle, MayTransfer, Directory!Transfer
    <3>2. QED
      BY <3>1
  <2>4. CASE \E w \in Wallets, amount \in Gifts : Sends(w, amount)
    BY <2>4 DEF Sends, SendToForward, SendToReverse
  <2>5. CASE UNCHANGED vars
    BY <2>5 DEF vars
  <2>6. QED
    BY <2>1, <2>2, <2>3, <2>4, <2>5, StepCases
<1>3. QED
  BY <1>1, <1>2, TypeCorrect, Lockstep, PTL DEF Spec, ImplementsDirectory, Directory!Spec
=============================================================================
