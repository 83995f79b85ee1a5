-------------------------- MODULE SdkClientProofs --------------------------
(***************************************************************************)
(* Proofs about slow send and about the client that transfers under it,    *)
(* for any senders, recipients, friends, delays and clock.                 *)
(***************************************************************************)
EXTENDS SdkClient, SequenceTheorems, TLAPS

-----------------------------------------------------------------------------
(* Slow send alone. *)

\* A step is a tick, or a call by one sender while the clock stands still.
LEMMA StepCases ==
    ASSUME [Next]_vars
    PROVE  \/ Tick
           \/ \E k \in Keys, delay \in Delays : SetSlowSend(k, delay) /\ UNCHANGED now
           \/ \E k \in Keys : DisableSlowSend(k) /\ UNCHANGED now
           \/ \E k \in Keys, r \in Recipients : RegisterRecipient(k, r) /\ UNCHANGED now
           \/ UNCHANGED vars
BY DEF Next, CheckTransfer, vars

\* A registration fills one entry that was empty.
LEMMA RegisterFacts ==
    ASSUME TypeOK, NEW k \in Keys, NEW r \in Recipients, RegisterRecipient(k, r),
           NEW j \in Keys, NEW q \in Recipients
    PROVE  contact'[j][q] = IF j = k /\ q = r THEN now ELSE contact[j][q]
<1>1. contact' = [contact EXCEPT ![k] = [contact[k] EXCEPT ![r] = now]]
  BY DEF RegisterRecipient
<1>2. contact \in [Keys -> [Recipients -> Nat \cup {NoAccount}]]
  BY DEF TypeOK
<1>3. contact[k] \in [Recipients -> Nat \cup {NoAccount}]
  BY <1>2
<1>4. CASE j = k
  BY <1>1, <1>2, <1>3, <1>4
<1>5. CASE j # k
  BY <1>1, <1>2, <1>5
<1>6. QED
  BY <1>4, <1>5

\* Every PDA keeps a value of its type: in particular no delay out of range
\* is ever stored, and no contact is from the future, so that the checked
\* subtraction of check_transfer.rs yields an age.
THEOREM TypeCorrect == Spec => []TypeOK
<1> USE SlowSendAssumption
<1>1. Init => TypeOK
  BY DEF Init, TypeOK, Registered
<1>2. ASSUME TypeOK, [Next]_vars PROVE TypeOK'
  <2>1. ASSUME Tick PROVE TypeOK'
    <3>1. PICK d \in ClockSteps : now' = now + d
      BY <2>1 DEF Tick
    <3>2. now \in Nat /\ now' \in Nat /\ now <= now'
      BY <1>2, <3>1 DEF TypeOK
    <3>3. UNCHANGED <<slowSend, contact>>
      BY <2>1 DEF Tick
    <3>4. ASSUME NEW k \in Keys, NEW r \in Recipients, Registered(k, r)
          PROVE  contact[k][r] <= now'
      <4>1. contact[k][r] \in Nat /\ contact[k][r] <= now
        BY <1>2, <3>4 DEF TypeOK, Registered
      <4>2. QED
        BY <3>2, <4>1
    <3>5. QED
      BY <1>2, <3>2, <3>3, <3>4 DEF TypeOK, Registered
  <2>2. ASSUME NEW k \in Keys, NEW delay \in Delays, SetSlowSend(k, delay), UNCHANGED now
        PROVE  TypeOK'
    <3>1. delay \in 1..MaxDelay
      BY <2>2 DEF SetSlowSend
    <3>2. QED
      BY <1>2, <2>2, <3>1 DEF SetSlowSend, TypeOK, Registered
  <2>3. ASSUME NEW k \in Keys, DisableSlowSend(k), UNCHANGED now PROVE TypeOK'
    BY <1>2, <2>3 DEF DisableSlowSend, TypeOK, Registered
  <2>4. ASSUME NEW k \in Keys, NEW r \in Recipients, RegisterRecipient(k, r), UNCHANGED now
        PROVE  TypeOK'
    <3>1. contact' \in [Keys -> [Recipients -> Nat \cup {NoAccount}]]
      BY <1>2, <2>4 DEF RegisterRecipient, TypeOK
    <3>2. ASSUME NEW j \in Keys, NEW q \in Recipients, contact'[j][q] # NoAccount
          PROVE  contact'[j][q] <= now'
      BY <1>2, <2>4, <3>2, RegisterFacts DEF TypeOK, Registered
    <3>3. QED
      BY <1>2, <2>4, <3>1, <3>2 DEF RegisterRecipient, TypeOK, Registered
  <2>5. ASSUME UNCHANGED vars PROVE TypeOK'
    BY <1>2, <2>5 DEF vars, TypeOK, Registered
  <2>6. QED
    BY <1>2, <2>1, <2>2, <2>3, <2>4, <2>5, StepCases
<1>3. QED
  BY <1>1, <1>2, PTL DEF Spec

\* No call and no passing of time makes a contact younger.
LEMMA RipeStep ==
    ASSUME TypeOK, [Next]_vars, NEW k \in Keys, NEW r \in Recipients,
           NEW delay \in 1..MaxDelay, Ripe(k, r, delay)
    PROVE  Ripe(k, r, delay)'
<1> USE SlowSendAssumption
<1>1. now \in Nat /\ contact[k][r] \in Nat /\ contact[k][r] # NoAccount
      /\ now - contact[k][r] >= delay
  BY DEF Ripe, Registered, TypeOK
<1>2. ASSUME contact'[k][r] = contact[k][r], now' \in Nat, now <= now'
      PROVE  Ripe(k, r, delay)'
  BY <1>1, <1>2 DEF Ripe, Registered
<1>3. Tick => Ripe(k, r, delay)'
  BY <1>1, <1>2 DEF Tick
<1>4. (\E j \in Keys, d \in Delays : SetSlowSend(j, d) /\ UNCHANGED now) => Ripe(k, r, delay)'
  BY <1>1, <1>2 DEF SetSlowSend
<1>5. (\E j \in Keys : DisableSlowSend(j) /\ UNCHANGED now) => Ripe(k, r, delay)'
  BY <1>1, <1>2 DEF DisableSlowSend
<1>6. ASSUME NEW j \in Keys, NEW q \in Recipients, RegisterRecipient(j, q), UNCHANGED now
      PROVE  Ripe(k, r, delay)'
  <2>1. ~(j = k /\ q = r)
    BY <1>1, <1>6 DEF RegisterRecipient, Registered
  <2>2. contact'[k][r] = contact[k][r]
    BY <1>6, <2>1, RegisterFacts
  <2>3. QED
    BY <1>1, <1>2, <1>6, <2>2
<1>7. UNCHANGED vars => Ripe(k, r, delay)'
  BY <1>1, <1>2 DEF vars
<1>8. QED
  BY <1>3, <1>4, <1>5, <1>6, <1>7, StepCases

\* What a recipient has waited is never lost, for any delay, whatever is done
\* to the rule.
THEOREM RipeStaysRipeHolds == Spec => RipeStaysRipe
<1> DEFINE Kept(k, r, delay) == Ripe(k, r, delay) => Ripe(k, r, delay)'
<1>1. TypeOK /\ [Next]_vars =>
        [\A k \in Keys, r \in Recipients, delay \in 1..MaxDelay : Kept(k, r, delay)]_vars
  BY RipeStep
<1>2. QED
  BY <1>1, TypeCorrect, PTL DEF Spec, RipeStaysRipe

\* Slow send begins to refuse only when the sender sets a delay.
LEMMA ApprovesStep ==
    ASSUME TypeOK, [Next]_vars, NEW k \in Keys, NEW r \in Recipients, Approves(k, r),
           ~ \E delay \in Delays : SetSlowSend(k, delay)
    PROVE  Approves(k, r)'
<1> USE SlowSendAssumption
<1>1. slowSend'[k] = slowSend[k] \/ slowSend'[k] = NoAccount
  BY StepCases DEF TypeOK, Tick, SetSlowSend, DisableSlowSend, RegisterRecipient, vars
<1>2. CASE slowSend'[k] = NoAccount
  BY <1>2 DEF Approves, Enabled
<1>3. CASE slowSend'[k] = slowSend[k] /\ slowSend[k] # NoAccount
  <2>1. slowSend[k] \in 1..MaxDelay /\ Ripe(k, r, slowSend[k])
    BY <1>3 DEF TypeOK, Approves, Enabled
  <2>2. now' - contact'[k][r] >= slowSend[k] /\ contact'[k][r] # NoAccount
    BY <2>1, RipeStep DEF Ripe, Registered
  <2>3. QED
    BY <1>3, <2>2 DEF Approves, Ripe, Registered
<1>4. QED
  BY <1>1, <1>2, <1>3

-----------------------------------------------------------------------------
(* The programs under the client. *)

\* Slow send sees a behaviour of its own.
LEMMA SlowStep == [ClientNext]_clientVars => [Next]_vars
BY DEF ClientNext, clientVars, Resolve, ResolveUnclaimed, LookUp, Build, Answer, Cosign, Return,
       Simulate, Submit, ChangeFriendGate, ChangeSlowSend, OpenOrClose

\* Every step but the setting of the friend gate leaves it alone.
LEMMA GateSteps ==
    ASSUME [ClientNext]_clientVars
    PROVE  \/ UNCHANGED friendGate
           \/ \E t \in GateThresholds, w \in Friends \cup {Payer, Default} :
                  Gate!SetFriendGate(Sender, t, w)
           \/ Gate!DisableFriendGate(Sender)
BY DEF ClientNext, clientVars, Resolve, ResolveUnclaimed, LookUp, Build, Answer, Cosign, Return,
       Simulate, Submit, ChangeFriendGate, ChangeSlowSend, OpenOrClose

\* The friend gate keeps its type: nobody is their own friend.
LEMMA GateTypeStep ==
    ASSUME Gate!TypeOK, [ClientNext]_clientVars
    PROVE  Gate!TypeOK'
<1> USE SdkClientAssumption
<1>1. CASE UNCHANGED friendGate
  BY <1>1 DEF Gate!TypeOK, Gate!Configured
<1>2. ASSUME NEW t \in GateThresholds, NEW w \in Friends \cup {Payer, Default},
             Gate!SetFriendGate(Sender, t, w)
      PROVE  Gate!TypeOK'
  <2> DEFINE pda == [threshold |-> t, friend_wallet |-> w]
  <2>1. t \in Nat \ {0} /\ w \in Friends \cup {Payer} /\ w # Payer
    BY <1>2 DEF Gate!SetFriendGate
  <2>2. friendGate' = [friendGate EXCEPT ![Sender] = pda]
    BY <1>2 DEF Gate!SetFriendGate
  <2>3. /\ pda \in [threshold : Nat \ {0}, friend_wallet : Friends \cup {Payer}]
        /\ pda.friend_wallet = w
    BY <2>1
  <2> HIDE DEF pda
  <2> QED
    BY <2>1, <2>2, <2>3 DEF Gate!TypeOK, Gate!Configured
<1>3. CASE Gate!DisableFriendGate(Sender)
  BY <1>3 DEF Gate!TypeOK, Gate!Configured, Gate!DisableFriendGate
<1> QED
  BY <1>1, <1>2, <1>3, GateSteps

\* Under the client slow send and the friend gate keep their types.
LEMMA ProgramTypes == ClientSpec => [](TypeOK /\ Gate!TypeOK)
<1>1. ClientInit => Init /\ Gate!TypeOK
  BY DEF ClientInit, Gate!Init, Gate!TypeOK, Gate!Configured
<1>2. ClientSpec => Spec
  BY <1>1, SlowStep, PTL DEF ClientSpec, Spec
<1>3. ClientSpec => []Gate!TypeOK
  BY <1>1, GateTypeStep, PTL DEF ClientSpec
<1> QED
  BY <1>2, <1>3, TypeCorrect, PTL

-----------------------------------------------------------------------------
(* Two signatures. *)

\* What the rule answers needs the friend among the signers.
LEMMA GateNeedsTheFriend ==
    ASSUME Gate!TypeOK, Gate!Configured(Sender), NEW amount, NEW tx, NEW i,
           Gate!Approves(Sender, amount, tx, i), amount >= friendGate[Sender].threshold
    PROVE  tx.signers # {Payer}
<1>1. friendGate[Sender].friend_wallet \in tx.signers
  BY DEF Gate!Approves, Gate!SignersSeen
<1>2. friendGate[Sender].friend_wallet # Payer
  BY SdkClientAssumption DEF Gate!TypeOK
<1> QED
  BY <1>1, <1>2

\* What lands has passed the friend gate.
LEMMA LandsPastTheGate ==
    ASSUME NEW to, NEW amount, NEW create, NEW tx, NEW others,
           Lands(to, amount, create, tx, others)
    PROVE  Gate!Approves(Sender, amount, tx, tx.transfer)
BY DEF Lands, Refusing

\* At or above the threshold no transaction of the client that lands is
\* signed by the sender alone: the friend on record is never the sender.
THEOREM TwoSignaturesHold == ClientSpec => TwoSignatures
<1> DEFINE Both == Gate!Configured(Sender) /\ (\E others \in SUBSET Obstacles : Submit(others))
                     /\ call.amount >= friendGate[Sender].threshold => Tx.signers # {Payer}
<1>1. Gate!TypeOK => Both
  BY GateNeedsTheFriend, LandsPastTheGate DEF Submit
<1>2. Gate!TypeOK /\ [ClientNext]_clientVars => [Both]_clientVars
  BY <1>1
<1> QED
  BY <1>2, ProgramTypes, PTL DEF ClientSpec, TwoSignatures

\* The carrier stands before the transfer in either form of the transaction,
\* signed by the friend it names.
LEMMA CarrierIsSeen ==
    ASSUME NEW to, NEW create, NEW friend
    PROVE  LET tx == CosignedTx(to, create, friend)
           IN  friend \in Gate!SignersSeen(tx, tx.transfer)
<1> DEFINE tx == CosignedTx(to, create, friend)
<1> DEFINE Named  == {{Payer, to}, {Payer}, {friend}}
           made   == Creation(to, create)
           before == Append(made, {friend})
<1>0. {Payer, to} \in Named /\ {friend} \in Named
  OBVIOUS
<1> HIDE DEF Named
<1>1. made \in Seq(Named)
  <2>1. <<>> \in Seq(Named) /\ <<{Payer, to}>> \in Seq(Named)
    BY <1>0
  <2>2. made = <<>> \/ made = <<{Payer, to}>>
    BY DEF Creation
  <2> QED
    BY <2>1, <2>2
<1> HIDE DEF made
<1>2. /\ before \in Seq(Named) /\ before # <<>>
      /\ Len(before) \in Nat \ {0} /\ before[Len(before)] = {friend}
  BY <1>0, <1>1, AppendProperties, LenProperties
<1>3. tx = [names |-> before \o <<{Payer}>>, signers |-> {Payer, friend},
            transfer |-> Len(before) + 1]
  BY DEF CosignedTx, made
<1> HIDE DEF before
<1>4. (before \o <<{Payer}>>)[Len(before)] = {friend}
  BY <1>2, ConcatProperties
<1>5. Len(before) \in 1..(Len(before) + 1)
  BY <1>2
<1> QED
  BY <1>3, <1>4, <1>5 DEF Gate!SignersSeen

\* A transaction the friend on record has signed passes the friend gate.
THEOREM CosignedAlwaysPasses == ClientSpec => []CosignedPassesTheGate
<1>1. CosignedPassesTheGate
  <2> SUFFICES ASSUME In("signed", {"cosign"}), Gate!Configured(Sender),
                      friendGate[Sender].friend_wallet = call.friend
               PROVE  Gate!Approves(Sender, call.amount, Tx, Tx.transfer)
    BY DEF CosignedPassesTheGate
  <2>1. Tx = CosignedTx(call.to, call.create, call.friend)
    BY DEF In, Tx
  <2> QED
    BY <2>1, CarrierIsSeen DEF Gate!Approves
<1> QED
  BY <1>1, PTL

-----------------------------------------------------------------------------
(* Previews. *)

\* The obstacles, all of them, in the order asked.
LEMMA AskedInOrder ==
    /\ Len(Asked) = 8
    /\ Asked[1] = "funds" /\ Asked[2] = "overflow" /\ Asked[3] = "daily_limit"
    /\ Asked[4] = "block_list" /\ Asked[5] = "cooloff" /\ Asked[6] = "slow_send"
    /\ Asked[7] = "night_mode" /\ Asked[8] = "friend_gate"
BY DEF Asked

\* What may refuse a transfer is something that is asked.
LEMMA RefusingIsAsked ==
    ASSUME NEW to, NEW amount, NEW tx, NEW others \in SUBSET Obstacles
    PROVE  Refusing(to, amount, tx, others) \subseteq {Asked[i] : i \in 1..8}
<1>1. {"funds", "overflow", "daily_limit", "block_list", "cooloff", "slow_send",
       "night_mode", "friend_gate"} \subseteq {Asked[i] : i \in 1..8}
  BY AskedInOrder
<1> QED
  BY <1>1, SdkClientAssumption DEF Refusing

\* If anything refuses, something is the first to.
LEMMA SomeoneIsFirst ==
    ASSUME NEW refusing, NEW n \in 1..8, Asked[n] \in refusing
    PROVE  \E i \in 1..8 : Asked[i] \in refusing /\ \A j \in 1..(i - 1) : Asked[j] \notin refusing
<1> DEFINE First(i) == Asked[i] \in refusing /\ \A j \in 1..(i - 1) : Asked[j] \notin refusing
           Clear(i) == \A j \in 1..i : Asked[j] \notin refusing
<1> SUFFICES ASSUME \A i \in 1..8 : ~First(i) PROVE FALSE
  OBVIOUS
<1>1. ASSUME NEW i \in 1..8, Clear(i - 1) PROVE Clear(i)
  BY <1>1
<1>2. Clear(0)
  OBVIOUS
<1> HIDE DEF First, Clear
<1>3. Clear(1) /\ (Clear(1) => Clear(2)) /\ (Clear(2) => Clear(3)) /\ (Clear(3) => Clear(4))
      /\ (Clear(4) => Clear(5)) /\ (Clear(5) => Clear(6)) /\ (Clear(6) => Clear(7))
      /\ (Clear(7) => Clear(8))
  BY <1>1, <1>2
<1> QED
  BY <1>3 DEF Clear

\* The scan of logs that hold the names of at most one rule.
LEMMA ScanFinds ==
    ASSUME NEW logs, NEW i \in 1..6, ErrorsOf[Scanned[i]] \cap logs # {},
           \A j \in 1..6 : j # i => ErrorsOf[Scanned[j]] \cap logs = {}
    PROVE  classifyRefusal(logs) = Scanned[i]
<1> DEFINE found(j) == ErrorsOf[Scanned[j]] \cap logs # {}
<1>1. found(i) /\ \A j \in 1..6 : j # i => ~found(j)
  OBVIOUS
<1>2. classifyRefusal(logs) =
        IF \E j \in 1..6 : found(j)
        THEN Scanned[CHOOSE j \in 1..6 : found(j) /\ \A h \in 1..(j - 1) : ~found(h)]
        ELSE None
  BY DEF classifyRefusal
<1> HIDE DEF found
<1>3. found(i) /\ \A h \in 1..(i - 1) : ~found(h)
  BY <1>1
<1>4. (CHOOSE j \in 1..6 : found(j) /\ \A h \in 1..(j - 1) : ~found(h)) = i
  BY <1>1, <1>3
<1> QED
  BY <1>1, <1>2, <1>4

\* From the logs of the first that refuses the client reads that rule, and
\* nothing if it is not a rule's.
LEMMA FirstIsNamed ==
    ASSUME NEW to, NEW refusing \in SUBSET {Asked[i] : i \in 1..8}, refusing # {}
    PROVE  \E i \in 1..8 :
              /\ Asked[i] \in refusing /\ \A j \in 1..(i - 1) : Asked[j] \notin refusing
              /\ classifyRefusal(Logs(to, refusing)) = IF i <= 2 THEN None ELSE Asked[i]
<1> DEFINE First(i) == Asked[i] \in refusing /\ \A j \in 1..(i - 1) : Asked[j] \notin refusing
           first    == CHOOSE i \in 1..8 : First(i)
           delay    == IF Registered(Sender, to) THEN "WaitingPeriodActive"
                       ELSE "RecipientNotRegistered"
           name     == [funds       |-> "insufficient",
                        overflow    |-> "Overflow",
                        daily_limit |-> "DailyLimitExceeded",
                        block_list  |-> "RecipientBlocked",
                        cooloff     |-> "CooloffActive",
                        slow_send   |-> delay,
                        night_mode  |-> "WithinBlockedWindow",
                        friend_gate |-> "FriendSignatureRequired"]
           logs     == {"CheckTransfer", name[Asked[first]]}
<1>1. \E i \in 1..8 : First(i)
  BY SomeoneIsFirst
<1>2. first \in 1..8 /\ First(first)
  BY <1>1
<1>3. Logs(to, refusing) = logs
  BY AskedInOrder DEF Logs
<1> HIDE DEF first
<1>4. classifyRefusal(logs) = IF first <= 2 THEN None ELSE Asked[first]
  <2> HIDE DEF delay
  <2>1. delay \in {"WaitingPeriodActive", "RecipientNotRegistered"}
    BY DEF delay
  <2>2. CASE first \in {1, 2}
    <3>1. \A i \in 1..6 : ErrorsOf[Scanned[i]] \cap logs = {}
      BY <2>2, AskedInOrder DEF ErrorsOf, Scanned
    <3> HIDE DEF logs
    <3> QED
      BY <2>2, <3>1 DEF classifyRefusal
  <2>3. ASSUME NEW i \in 1..6, first = i + 2 PROVE classifyRefusal(logs) = Asked[first]
    <3>1. Scanned[i] = Asked[first]
      BY <2>3, AskedInOrder DEF Scanned
    <3>2. name[Asked[first]] \in ErrorsOf[Scanned[i]]
      BY <2>1, <2>3, AskedInOrder DEF ErrorsOf, Scanned
    <3>3. \A j \in 1..6 : j # i => ErrorsOf[Scanned[j]] \cap logs = {}
      BY <2>1, <2>3, AskedInOrder DEF ErrorsOf, Scanned
    <3>4. ErrorsOf[Scanned[i]] \cap logs # {}
      BY <3>2
    <3> HIDE DEF logs
    <3> QED
      BY <3>1, <3>3, <3>4, ScanFinds
  <2> HIDE DEF logs
  <2>4. CASE first \in 3..8
    BY <2>3, <2>4
  <2> QED
    BY <1>2, <2>2, <2>4
<1> QED
  BY <1>2, <1>3, <1>4

\* When the last of the rules is the first to refuse, it alone does.
LEMMA FriendGateAlone ==
    ASSUME NEW to, NEW refusing \in SUBSET {Asked[i] : i \in 1..8}, refusing # {},
           classifyRefusal(Logs(to, refusing)) = "friend_gate"
    PROVE  refusing = {"friend_gate"}
<1>1. PICK i \in 1..8 :
         /\ Asked[i] \in refusing /\ \A j \in 1..(i - 1) : Asked[j] \notin refusing
         /\ classifyRefusal(Logs(to, refusing)) = IF i <= 2 THEN None ELSE Asked[i]
  BY FirstIsNamed
<1>2. i = 8
  BY <1>1, AskedInOrder, SdkClientAssumption
<1>3. \A j \in 1..7 : Asked[j] \notin refusing
  BY <1>1, <1>2
<1> QED
  BY <1>1, <1>2, <1>3, AskedInOrder

\* When a preview asks for the friend's signature, nothing else is missing.
THEOREM OnlyTheFriendIsMissing == ClientSpec => []FriendIsAllThatIsMissing
<1>1. FriendIsAllThatIsMissing
  <2> SUFFICES ASSUME NEW to \in ata, NEW amount \in Amounts, NEW others \in SUBSET Obstacles,
                      Preview(to, amount, others).refusedBy = "friend_gate"
               PROVE  Lands(to, amount, FALSE,
                            CosignedTx(to, FALSE, friendGate[Sender].friend_wallet), others)
    BY DEF FriendIsAllThatIsMissing
  <2> DEFINE friend   == friendGate[Sender].friend_wallet
             tx       == CosignedTx(to, FALSE, friend)
             refusing == Refusing(to, amount, TransferTx(to, FALSE), others)
             rule     == classifyRefusal(Logs(to, refusing))
  <2>1. refusing \in SUBSET {Asked[i] : i \in 1..8}
    BY RefusingIsAsked
  <2>2. refusing # {} /\ rule = "friend_gate"
    BY SdkClientAssumption DEF Preview, Explained, Failed, Approved, classifyRefusal
  <2>3. refusing = {"friend_gate"}
    BY <2>1, <2>2, FriendGateAlone
  <2>4. Approves(Sender, to) /\ others = {}
    <3>1. others \subseteq refusing /\ (~Approves(Sender, to) => "slow_send" \in refusing)
      BY DEF Refusing
    <3>2. "friend_gate" \notin others
      BY SdkClientAssumption
    <3> QED
      BY <2>3, <3>1, <3>2
  <2>5. Gate!Approves(Sender, amount, tx, tx.transfer)
    BY CarrierIsSeen DEF Gate!Approves
  <2>6. Refusing(to, amount, tx, others) = {}
    BY <2>4, <2>5 DEF Refusing
  <2> QED
    BY <2>6 DEF Lands
<1> QED
  BY <1>1, PTL

\* An approval holds as far as the two rules go: only the sender can take it
\* back, by setting one of them.
THEOREM ApprovalsHold == ClientSpec => ApprovalsLast
<1> DEFINE Kept(to, amount) == Held(to, amount) /\ OwnRulesPass(to, amount) =>
                                 OwnRulesPass(to, amount)' \/ SenderSetsARule
<1>1. ASSUME TypeOK, Gate!TypeOK, [ClientNext]_clientVars,
             NEW to \in Recipients, NEW amount \in Amounts, OwnRulesPass(to, amount),
             ~SenderSetsARule
      PROVE  OwnRulesPass(to, amount)'
  <2> DEFINE tx == TransferTx(to, FALSE)
  <2>1. Approves(Sender, to) /\ Gate!Approves(Sender, amount, tx, tx.transfer)
    BY <1>1 DEF OwnRulesPass, Refusing
  <2>2. Approves(Sender, to)'
    BY <1>1, <2>1, SlowStep, ApprovesStep, SdkClientAssumption DEF SenderSetsARule
  <2>3. Gate!Approves(Sender, amount, tx, tx.transfer)'
    <3>1. UNCHANGED friendGate \/ Gate!DisableFriendGate(Sender)
      BY <1>1, GateSteps DEF SenderSetsARule
    <3>2. CASE UNCHANGED friendGate
      BY <2>1, <3>2 DEF Gate!Approves, Gate!Configured, Gate!SignersSeen, TransferTx, Creation
    <3>3. CASE Gate!DisableFriendGate(Sender)
      <4>1. friendGate'[Sender] = NoAccount
        BY <1>1, <3>3, SdkClientAssumption DEF Gate!DisableFriendGate, Gate!TypeOK
      <4> QED
        BY <4>1 DEF Gate!Approves, Gate!Configured
    <3> QED
      BY <3>1, <3>2, <3>3
  <2> QED
    BY <2>2, <2>3 DEF OwnRulesPass, Refusing
<1>2. TypeOK /\ Gate!TypeOK /\ [ClientNext]_clientVars =>
        [\A to \in Recipients, amount \in Amounts : Kept(to, amount)]_clientVars
  BY <1>1
<1> QED
  BY <1>2, ProgramTypes, PTL DEF ClientSpec, ApprovalsLast

-----------------------------------------------------------------------------
(* Types of the call in progress. *)

\* A call, as its steps make it: a record with the resolved arguments, which
\* has an answer exactly when it has been answered, and always a recipient if
\* it has not.
IsCall(c) ==
    /\ c = [f \in DOMAIN c |-> c[f]]
    /\ {"kind", "stage", "to", "amount", "friend"} \subseteq DOMAIN c
    /\ c.amount \in Amounts /\ c.friend \in Friends \cup {None}
    /\ c.stage # "answered" => c.to \in Recipients /\ "answer" \notin DOMAIN c
    /\ c.stage = "answered" => c.answer \in Answers

CallOK == (call # None => IsCall(call)) /\ ata \subseteq Recipients

\* What a failure is explained by is one of the answers.
LEMMA ExplainedIsAnAnswer == ASSUME NEW logs PROVE Explained(logs) \in Answers
<1> DEFINE rule    == classifyRefusal(logs)
           rules   == {Scanned[i] : i \in 1..6}
           refused == [approved |-> FALSE, refusedBy |-> rule, error |-> FALSE]
           found(i) == ErrorsOf[Scanned[i]] \cap logs # {}
           first   == CHOOSE i \in 1..6 : found(i) /\ \A j \in 1..(i - 1) : ~found(j)
<1>1. rule = None \/ rule \in rules
  <2>1. rule = IF \E i \in 1..6 : found(i) THEN Scanned[first] ELSE None
    BY DEF classifyRefusal
  <2> HIDE DEF found
  <2>2. ASSUME \E i \in 1..6 : found(i) PROVE first \in 1..6
    <3> DEFINE Clear(i) == \A j \in 1..i : ~found(j)
    <3>1. ASSUME \A i \in 1..6 : ~(found(i) /\ Clear(i - 1)) PROVE FALSE
      <4>1. ASSUME NEW i \in 1..6, Clear(i - 1) PROVE Clear(i)
        BY <3>1, <4>1
      <4>2. Clear(0)
        OBVIOUS
      <4> HIDE DEF Clear
      <4>3. Clear(6)
        BY <4>1, <4>2
      <4> QED
        BY <2>2, <4>3 DEF Clear
    <3> QED
      BY <3>1
  <2> HIDE DEF first
  <2> QED
    BY <2>1, <2>2
<1>2. Explained(logs) = Failed \/ (rule # None /\ Explained(logs) = refused)
  BY DEF Explained
<1>3. Answers = [approved : {FALSE}, refusedBy : rules, error : {FALSE}]
                \cup {Approved, Unclaimed, Failed}
  BY DEF Answers
<1> HIDE DEF rule, rules
<1>4. rule \in rules => refused \in [approved : {FALSE}, refusedBy : rules, error : {FALSE}]
  OBVIOUS
<1> HIDE DEF refused
<1> QED
  BY <1>1, <1>2, <1>3, <1>4

\* A preview returns one of the answers.
LEMMA PreviewIsAnAnswer ==
    ASSUME NEW to, NEW amount, NEW others PROVE Preview(to, amount, others) \in Answers
BY ExplainedIsAnAnswer DEF Preview, Answers

\* Moving a call on to its next stage keeps its arguments.
LEMMA NextStage ==
    ASSUME IsCall(call), NEW stage, stage # "answered", call.stage # "answered",
           call' = [call EXCEPT !.stage = stage]
    PROVE  IsCall(call)'
<1>1. /\ DOMAIN call' = DOMAIN call /\ call'.stage = stage
      /\ \A f \in DOMAIN call : f # "stage" => call'[f] = call[f]
      /\ call' = [f \in DOMAIN call' |-> call'[f]]
  BY DEF IsCall
<1>2. call'.to = call.to /\ call'.amount = call.amount /\ call'.friend = call.friend
  BY <1>1 DEF IsCall
<1> QED
  BY <1>1, <1>2 DEF IsCall

\* So does a stage that adds a field.
LEMMA NextStageFilled ==
    ASSUME IsCall(call), NEW stage, call.stage # "answered",
           NEW field \in {"create", "answer"}, NEW value,
           stage = "answered" <=> field = "answer", field = "answer" => value \in Answers,
           call' = Filled([call EXCEPT !.stage = stage], field, value)
    PROVE  IsCall(call)'
<1> DEFINE moved == [call EXCEPT !.stage = stage]
<1>1. /\ DOMAIN moved = DOMAIN call /\ moved.stage = stage
      /\ \A f \in DOMAIN call : f # "stage" => moved[f] = call[f]
  BY DEF IsCall
<1> HIDE DEF moved
<1>2. call' = [f \in DOMAIN moved \cup {field} |-> IF f = field THEN value ELSE moved[f]]
  BY DEF moved, Filled
<1>3. /\ DOMAIN call' = DOMAIN call \cup {field}
      /\ call' = [f \in DOMAIN call' |-> call'[f]]
      /\ \A f \in DOMAIN call : f # field => call'[f] = moved[f]
      /\ call'[field] = value
  BY <1>1, <1>2
<1>4. /\ call'.stage = stage /\ call'.to = call.to
      /\ call'.amount = call.amount /\ call'.friend = call.friend
  BY <1>1, <1>3 DEF IsCall
<1>5. field = "answer" => call'.answer \in Answers
  BY <1>3
<1>6. stage # "answered" => "answer" \notin DOMAIN call'
  BY <1>3 DEF IsCall
<1> QED
  BY <1>3, <1>4, <1>5, <1>6 DEF IsCall

\* So does an answer.
LEMMA Answered ==
    ASSUME CallOK, IsCall(call), call.stage # "answered", ata' = ata,
           NEW value \in Answers, Answer(value)
    PROVE  CallOK'
<1>1. IsCall(call)'
  BY NextStageFilled DEF Answer
<1> QED
  BY <1>1 DEF CallOK

\* Every step keeps the call a call.
LEMMA CallStep ==
    ASSUME CallOK, [ClientNext]_clientVars
    PROVE  CallOK'
<1> USE DEF CallOK
<1>1. ASSUME NEW to \in Recipients, NEW amount \in Amounts, NEW kind,
             NEW friend \in Friends \cup {None}, Resolve(kind, to, amount, friend)
      PROVE  CallOK'
  <2>1. /\ call' = [kind |-> kind, stage |-> "resolved", to |-> to, amount |-> amount,
                    friend |-> friend]
        /\ ata' = ata
    BY <1>1 DEF Resolve
  <2>2. IsCall(call')
    BY <2>1 DEF IsCall
  <2> QED
    BY <2>1, <2>2
<1>10. ASSUME NEW amount \in Amounts, ResolveUnclaimed(amount) PROVE CallOK'
  <2>1. /\ call' = [kind |-> "preview", stage |-> "answered", to |-> None,
                    amount |-> amount, friend |-> None, answer |-> Unclaimed]
        /\ ata' = ata
    BY <1>10 DEF ResolveUnclaimed
  <2>2. IsCall(call')
    BY <2>1 DEF IsCall, Answers
  <2> QED
    BY <2>1, <2>2
<1>2. CASE LookUp
  <2>1. /\ IsCall(call) /\ call.stage = "resolved" /\ ata' = ata
        /\ call' = Filled([call EXCEPT !.stage = "looked"], "create", call.to \notin ata)
    BY <1>2 DEF LookUp, In
  <2>2. IsCall(call)'
    BY <2>1, NextStageFilled
  <2> QED
    BY <2>1, <2>2
<1>3. CASE Build
  <2> DEFINE value == Explained({"AccountDataNotFound"})
  <2>1. IsCall(call) /\ call.stage # "answered" /\ ata' = ata
    BY <1>3 DEF Build, In
  <2>2. CASE \E stage \in {"built", "threw"} : call' = [call EXCEPT !.stage = stage]
    BY <2>1, <2>2, NextStage
  <2>3. CASE Answer(value)
    BY <2>1, <2>3, Answered, ExplainedIsAnAnswer
  <2> QED
    BY <1>3, <2>2, <2>3 DEF Build
<1>4. CASE Cosign
  <2>1. /\ IsCall(call) /\ call.stage # "answered" /\ ata' = ata
        /\ call' = [call EXCEPT !.stage = "signed"]
    BY <1>4 DEF Cosign, In
  <2> QED
    BY <2>1, NextStage
<1>5. ASSUME NEW others \in SUBSET Obstacles, Simulate(others) PROVE CallOK'
  <2>1. /\ IsCall(call) /\ call.stage = "built" /\ ata' = ata
        /\ \/ Answer(Preview(call.to, call.amount, others))
           \/ Answer(Explained({"request failed"}))
    BY <1>5 DEF Simulate, In
  <2> QED
    BY <2>1, Answered, PreviewIsAnAnswer, ExplainedIsAnAnswer
<1>6. ASSUME NEW others \in SUBSET Obstacles, Submit(others) PROVE CallOK'
  BY <1>6 DEF Submit, In, IsCall
<1>7. CASE Return
  BY <1>7 DEF Return
<1>8. CASE ChangeFriendGate \/ ChangeSlowSend \/ UNCHANGED clientVars
  BY <1>8 DEF ChangeFriendGate, ChangeSlowSend, clientVars, IsCall
<1>9. ASSUME NEW r \in Recipients, OpenOrClose(r) PROVE CallOK'
  BY <1>9 DEF OpenOrClose, IsCall
<1> QED
  BY <1>1, <1>2, <1>3, <1>4, <1>5, <1>6, <1>7, <1>8, <1>9, <1>10 DEF ClientNext

\* The client and the accounts it works on keep their types.
THEOREM ClientTypeCorrect == ClientSpec => []ClientTypeOK
<1>1. ClientInit => CallOK
  BY DEF ClientInit, CallOK
<1>2. TypeOK /\ Gate!TypeOK /\ CallOK => ClientTypeOK
  BY DEF CallOK, IsCall, ClientTypeOK
<1> QED
  BY <1>1, <1>2, CallStep, ProgramTypes, PTL DEF ClientSpec
=============================================================================
