-------------------------- MODULE DailyLimitProofs --------------------------
(***************************************************************************)
(* Proofs about the daily cap, for any keys, caps, amounts and day length. *)
(***************************************************************************)
EXTENDS DailyLimitAudit, TLAPS

\* Booking an amount keeps the cap and either adds to the total of the open
\* window or starts a window at the current slot, a day or more later.
LEMMA WithTransferFacts ==
    ASSUME NEW pda \in Accounts, slot \in Nat, NEW amount \in Nat,
           NEW booked, booked = WithTransfer(pda, amount)
    PROVE  /\ booked \in [limit : 1..MaxU64, spent_today : Nat, window_start_slot : Nat]
           /\ booked.limit = pda.limit
           /\ \/ /\ booked.window_start_slot = pda.window_start_slot
                 /\ booked.spent_today = pda.spent_today + amount
              \/ /\ booked.window_start_slot = slot
                 /\ slot >= pda.window_start_slot + SlotsPerDay
<1> USE DailyLimitAssumption DEF Accounts
<1>1. CASE slot - pda.window_start_slot >= SlotsPerDay
  <2> DEFINE rolled == RollWindow(pda)
  <2>1. rolled = [limit |-> pda.limit, spent_today |-> 0, window_start_slot |-> slot]
    BY <1>1 DEF RollWindow
  <2>2. booked = [rolled EXCEPT !.spent_today = rolled.spent_today + amount]
    BY DEF WithTransfer
  <2>3. /\ rolled \in [limit : 1..MaxU64, spent_today : Nat, window_start_slot : Nat]
        /\ rolled.limit = pda.limit /\ rolled.window_start_slot = slot
    BY <2>1
  <2> HIDE DEF rolled
  <2>4. /\ booked \in [limit : 1..MaxU64, spent_today : Nat, window_start_slot : Nat]
        /\ booked.limit = pda.limit /\ booked.window_start_slot = slot
    BY <2>2, <2>3
  <2>5. slot >= pda.window_start_slot + SlotsPerDay
    BY <1>1
  <2>6. QED
    BY <2>4, <2>5
<1>2. CASE ~(slot - pda.window_start_slot >= SlotsPerDay)
  <2>1. booked = [pda EXCEPT !.spent_today = @ + amount]
    BY <1>2 DEF WithTransfer, RollWindow
  <2>2. QED
    BY <2>1
<1>3. QED
  BY <1>1, <1>2

\* The PDA after an approved transfer: a value of its type, with a total
\* within the cap and the same cap, its window old or starting now.
LEMMA CheckFacts ==
    ASSUME TypeOK, NEW k \in Keys, NEW amount \in Amounts,
           CheckTransfer(k, amount), Configured(k)
    PROVE  /\ dailyLimit' = [dailyLimit EXCEPT ![k] = dailyLimit'[k]]
           /\ dailyLimit'[k] \in Accounts
           /\ dailyLimit'[k].limit = dailyLimit[k].limit
           /\ dailyLimit'[k].spent_today <= dailyLimit[k].limit
           /\ \/ /\ dailyLimit'[k].window_start_slot = dailyLimit[k].window_start_slot
                 /\ dailyLimit'[k].spent_today >= dailyLimit[k].spent_today
              \/ /\ dailyLimit'[k].window_start_slot = slot
                 /\ slot >= dailyLimit[k].window_start_slot + SlotsPerDay
<1> USE DailyLimitAssumption
<1> DEFINE booked == WithTransfer(dailyLimit[k], amount)
<1>1. dailyLimit[k] \in Accounts /\ slot \in Nat /\ amount \in Nat
  BY DEF TypeOK, Configured
<1>2. dailyLimit' = [dailyLimit EXCEPT ![k] = booked]
  BY DEF CheckTransfer
<1>3. booked.spent_today <= dailyLimit[k].limit /\ booked.spent_today <= MaxU64
  BY DEF CheckTransfer, Approves
<1> HIDE DEF booked
<1>4. dailyLimit'[k] = booked
  BY <1>2 DEF TypeOK
<1>5. /\ booked \in [limit : 1..MaxU64, spent_today : Nat, window_start_slot : Nat]
      /\ booked.limit = dailyLimit[k].limit
      /\ \/ /\ booked.window_start_slot = dailyLimit[k].window_start_slot
            /\ booked.spent_today = dailyLimit[k].spent_today + amount
         \/ /\ booked.window_start_slot = slot
            /\ slot >= dailyLimit[k].window_start_slot + SlotsPerDay
  BY <1>1, WithTransferFacts DEF booked
<1>6. booked \in Accounts
  <2>1. booked.spent_today \in 0..MaxU64
    BY <1>3, <1>5
  <2>2. QED
    BY <1>5, <2>1 DEF Accounts
<1>7. dailyLimit' = [dailyLimit EXCEPT ![k] = dailyLimit'[k]]
  BY <1>2, <1>4
<1>8. dailyLimit[k].spent_today + amount >= dailyLimit[k].spent_today
  BY <1>1 DEF Accounts
<1>9. QED
  BY <1>3, <1>4, <1>5, <1>6, <1>7, <1>8

\* The total after an approved transfer: added to the open window's, or the
\* first of a new one.
LEMMA BookedTotal ==
    ASSUME TypeOK, NEW k \in Keys, NEW amount \in Amounts,
           CheckTransfer(k, amount), Configured(k)
    PROVE  \/ /\ dailyLimit'[k].window_start_slot = dailyLimit[k].window_start_slot
              /\ slot < dailyLimit[k].window_start_slot + SlotsPerDay
              /\ dailyLimit'[k].spent_today = dailyLimit[k].spent_today + amount
           \/ /\ dailyLimit'[k].window_start_slot = slot
              /\ slot >= dailyLimit[k].window_start_slot + SlotsPerDay
              /\ dailyLimit'[k].spent_today = amount
<1> USE DailyLimitAssumption
<1> DEFINE pda    == dailyLimit[k]
           rolled == RollWindow(pda)
<1>1. pda \in Accounts /\ slot \in Nat /\ amount \in Nat
  BY DEF TypeOK, Configured
<1>2. dailyLimit'[k] = [rolled EXCEPT !.spent_today = rolled.spent_today + amount]
  BY DEF CheckTransfer, WithTransfer, TypeOK
<1>3. CASE slot - pda.window_start_slot >= SlotsPerDay
  <2>1. rolled = [limit |-> pda.limit, spent_today |-> 0, window_start_slot |-> slot]
    BY <1>3 DEF RollWindow
  <2>2. QED
    BY <1>1, <1>2, <1>3, <2>1 DEF Accounts
<1>4. CASE ~(slot - pda.window_start_slot >= SlotsPerDay)
  <2>1. rolled = pda
    BY <1>4 DEF RollWindow
  <2>2. QED
    BY <1>1, <1>2, <1>4, <2>1 DEF Accounts
<1> QED
  BY <1>3, <1>4

\* The PDA after set_limit keeps its total and its window if it existed.
LEMMA SetFacts ==
    ASSUME TypeOK, NEW k \in Keys, NEW limit \in Limits, SetLimit(k, limit)
    PROVE  /\ dailyLimit' = [dailyLimit EXCEPT ![k] = dailyLimit'[k]]
           /\ dailyLimit'[k] \in Accounts
           /\ dailyLimit'[k].limit = limit
           /\ dailyLimit'[k].window_start_slot <= slot
           /\ IF Configured(k)
              THEN /\ dailyLimit'[k].window_start_slot = dailyLimit[k].window_start_slot
                   /\ dailyLimit'[k].spent_today = dailyLimit[k].spent_today
              ELSE dailyLimit'[k].spent_today = 0
<1> USE DailyLimitAssumption DEF Configured
<1>1. CASE Configured(k)
  <2>1. dailyLimit' = [dailyLimit EXCEPT ![k] = [dailyLimit[k] EXCEPT !.limit = limit]]
    BY <1>1 DEF SetLimit
  <2>2. dailyLimit[k] \in Accounts
    BY <1>1 DEF TypeOK
  <2>3. QED
    BY <1>1, <2>1, <2>2 DEF TypeOK, Accounts, SetLimit
<1>2. CASE ~Configured(k)
  <2>1. dailyLimit' = [dailyLimit EXCEPT ![k] =
          [limit |-> limit, spent_today |-> 0, window_start_slot |-> slot]]
    BY <1>2 DEF SetLimit
  <2>2. QED
    BY <1>2, <2>1 DEF TypeOK, Accounts, SetLimit
<1>3. QED
  BY <1>1, <1>2

\* Every step keeps the types.
LEMMA TypeStep == TypeOK /\ [Next]_vars => TypeOK'
<1> USE DailyLimitAssumption
<1> SUFFICES ASSUME TypeOK, [Next]_vars PROVE TypeOK'
  OBVIOUS
<1>1. CASE Tick
  BY <1>1 DEF Tick, TypeOK, Configured, Accounts
<1>2. ASSUME NEW k \in Keys, NEW limit \in Limits,
             SetLimit(k, limit) /\ UNCHANGED slot
      PROVE  TypeOK'
  BY <1>2, SetFacts DEF TypeOK, Configured
<1>3. ASSUME NEW k \in Keys, NEW amount \in Amounts,
             CheckTransfer(k, amount) /\ UNCHANGED slot
      PROVE  TypeOK'
  <2>1. CASE ~Configured(k)
    BY <1>3, <2>1 DEF CheckTransfer, TypeOK, Configured
  <2>2. CASE Configured(k)
    BY <1>3, <2>2, CheckFacts DEF TypeOK, Configured
  <2>3. QED
    BY <2>1, <2>2
<1>4. CASE UNCHANGED vars
  BY <1>4 DEF vars, TypeOK, Configured
<1>5. QED
  BY <1>1, <1>2, <1>3, <1>4 DEF Next

\* Every PDA keeps a value of its type, the total stays within u64 (so the
\* Overflow error of check_transfer.rs only anticipates DailyLimitExceeded)
\* and no window starts after the current slot.
THEOREM TypeCorrect == Spec => []TypeOK
<1>1. Init => TypeOK
  BY DailyLimitAssumption DEF Init, TypeOK, Configured
<1>2. QED
  BY <1>1, TypeStep, PTL DEF Spec

\* No early reset: not by set_limit, not by a transfer, not by a direct call
\* of check_transfer, in any order.
THEOREM NoEarlyResetHolds == Spec => NoEarlyReset
<1> USE DailyLimitAssumption
<1> DEFINE Kept(k) == Configured(k) =>
             /\ dailyLimit'[k] # NoAccount
             /\ \/ /\ dailyLimit'[k].window_start_slot = dailyLimit[k].window_start_slot
                   /\ dailyLimit'[k].spent_today >= dailyLimit[k].spent_today
                \/ dailyLimit'[k].window_start_slot >= dailyLimit[k].window_start_slot + SlotsPerDay
<1>1. ASSUME TypeOK, [Next]_vars, NEW k \in Keys PROVE Kept(k)
  <2> SUFFICES ASSUME Configured(k) PROVE Kept(k)
    OBVIOUS
  <2>1. dailyLimit[k] \in Accounts
    BY <1>1 DEF TypeOK, Configured
  <2>2. CASE dailyLimit'[k] = dailyLimit[k]
    BY <2>1, <2>2 DEF Configured, Accounts
  <2>3. ASSUME NEW j \in Keys, NEW limit \in Limits, SetLimit(j, limit)
        PROVE  Kept(k)
    <3>1. CASE j = k
      BY <1>1, <2>1, <2>3, <3>1, SetFacts DEF Accounts
    <3>2. CASE j # k
      BY <1>1, <2>2, <2>3, <3>2, SetFacts DEF TypeOK
    <3>3. QED
      BY <3>1, <3>2
  <2>4. ASSUME NEW j \in Keys, NEW amount \in Amounts, CheckTransfer(j, amount)
        PROVE  Kept(k)
    <3>1. CASE ~Configured(j)
      BY <2>2, <2>4, <3>1 DEF CheckTransfer
    <3>2. CASE Configured(j) /\ j = k
      BY <1>1, <2>1, <2>4, <3>2, CheckFacts DEF Accounts
    <3>3. CASE Configured(j) /\ j # k
      BY <1>1, <2>2, <2>4, <3>3, CheckFacts DEF TypeOK
    <3>4. QED
      BY <3>1, <3>2, <3>3
  <2>5. QED
    BY <1>1, <2>2, <2>3, <2>4 DEF Next, vars, Tick
<1>2. TypeOK /\ [Next]_vars => [\A k \in Keys : Kept(k)]_vars
  BY <1>1
<1>3. QED
  BY <1>2, TypeCorrect, PTL DEF Spec, NoEarlyReset

\* A cap lowered below what was spent already lets nothing more through: no
\* step leaves a total above the cap in force, unless only the cap changed.
THEOREM NoSpendAboveCapHolds == Spec => NoSpendAboveCap
<1> USE DailyLimitAssumption
<1> DEFINE Capped(k) == Configured(k) /\ dailyLimit'[k] # dailyLimit[k] =>
             \/ dailyLimit'[k].spent_today <= dailyLimit'[k].limit
             \/ dailyLimit'[k].spent_today = dailyLimit[k].spent_today
                /\ dailyLimit'[k].window_start_slot = dailyLimit[k].window_start_slot
<1>1. ASSUME TypeOK, [Next]_vars, NEW k \in Keys PROVE Capped(k)
  <2> SUFFICES ASSUME Configured(k), dailyLimit'[k] # dailyLimit[k] PROVE Capped(k)
    OBVIOUS
  <2>1. ASSUME NEW j \in Keys, NEW limit \in Limits, SetLimit(j, limit)
        PROVE  Capped(k)
    <3>1. CASE j = k
      BY <1>1, <2>1, <3>1, SetFacts
    <3>2. CASE j # k
      BY <1>1, <2>1, <3>2, SetFacts DEF TypeOK
    <3>3. QED
      BY <3>1, <3>2
  <2>2. ASSUME NEW j \in Keys, NEW amount \in Amounts, CheckTransfer(j, amount)
        PROVE  Capped(k)
    <3>1. CASE ~Configured(j)
      BY <2>2, <3>1 DEF CheckTransfer
    <3>2. CASE Configured(j) /\ j = k
      BY <1>1, <2>2, <3>2, CheckFacts
    <3>3. CASE Configured(j) /\ j # k
      BY <1>1, <2>2, <3>3, CheckFacts DEF TypeOK
    <3>4. QED
      BY <3>1, <3>2, <3>3
  <2>3. QED
    BY <1>1, <2>1, <2>2 DEF Next, vars, Tick
<1>2. TypeOK /\ [Next]_vars => [\A k \in Keys : Capped(k)]_vars
  BY <1>1
<1>3. QED
  BY <1>2, TypeCorrect, PTL DEF Spec, NoSpendAboveCap

-----------------------------------------------------------------------------
(* What the open window and any day have let through. *)

\* The record is well formed: totals from a slot on are amounts that do not
\* grow with the slot, and nothing is approved in the future.
RecordOK(k) ==
    /\ approved[k] \in [History -> Nat]
    /\ peak[k] \in Nat
    /\ \A s, t \in History : s <= t => approved[k][t] <= approved[k][s]
    /\ \A s \in History : s > slot => approved[k][s] = 0

\* The account follows the record: its total is what was approved since the
\* window's start, within the highest cap; nothing was approved a day after
\* that start or later, or the window would have rolled; and the day before
\* the start saw no more than one allowance.
WindowOK(k) ==
    IF Configured(k)
    THEN LET start == dailyLimit[k].window_start_slot
         IN  /\ dailyLimit[k].spent_today = approved[k][start]
             /\ dailyLimit[k].spent_today <= peak[k] /\ dailyLimit[k].limit <= peak[k]
             /\ \A s \in History : s >= start + SlotsPerDay => approved[k][s] = 0
             /\ \A s \in History : start - SlotsPerDay < s /\ s <= start =>
                    approved[k][s] - approved[k][start] <= peak[k]
    ELSE \A s \in History : approved[k][s] = 0

\* No stretch of a day or less saw more than two allowances.
DaysOK(k) ==
    \A s, e \in History : s <= e /\ e <= s + SlotsPerDay =>
        approved[k][s] - approved[k][e] <= 2 * peak[k]

\* AtMostTwiceTheCapInADay is not inductive: whether the next approval keeps
\* it depends on how the window lies in the day and what went before it.
RecordInv ==
    /\ slot \in 0..MaxSlot
    /\ approved \in [Keys -> [History -> Nat]] /\ peak \in [Keys -> Nat]
    /\ \A k \in Keys : RecordOK(k) /\ WindowOK(k) /\ DaysOK(k)

\* A call of the audited specification is one of the rule's own.
LEMMA AuditStep == [AuditNext]_auditVars => [Next]_vars
BY DEF AuditNext, auditVars, AuditedSetLimit, AuditedCheck, Next, vars

\* What is said of one sender's record depends on the sender's account and
\* record alone, and on no more than that the slot does not go back.
LEMMA SameRecord ==
    ASSUME RecordInv, TypeOK, NEW k \in Keys,
           dailyLimit'[k] = dailyLimit[k], approved'[k] = approved[k], peak'[k] = peak[k],
           slot' \in Nat, slot' >= slot
    PROVE  RecordOK(k)' /\ WindowOK(k)' /\ DaysOK(k)'
<1>1. RecordOK(k) /\ WindowOK(k) /\ DaysOK(k)
  BY DEF RecordInv
<1>2. History \subseteq Nat
  BY DailyLimitAssumption DEF History
<1>3. RecordOK(k)'
  BY <1>1, <1>2 DEF RecordOK, RecordInv
<1>4. WindowOK(k)'
  BY <1>1 DEF WindowOK, Configured
<1>5. DaysOK(k)'
  BY <1>1 DEF DaysOK
<1> QED
  BY <1>3, <1>4, <1>5

\* A new cap can only raise the peak, and a first one finds no record.
LEMMA SetKeepsRecord ==
    ASSUME RecordInv, TypeOK, NEW k \in Keys, NEW limit \in Limits, AuditedSetLimit(k, limit)
    PROVE  RecordOK(k)' /\ WindowOK(k)' /\ DaysOK(k)'
<1> USE DailyLimitAssumption
<1>1. /\ RecordOK(k) /\ WindowOK(k) /\ DaysOK(k)
      /\ slot \in History /\ History \subseteq Nat /\ limit \in Nat
  BY DEF RecordInv, History
<1>2. approved' = approved /\ slot' = slot
  BY DEF AuditedSetLimit
<1>3. peak'[k] \in Nat /\ peak'[k] >= peak[k] /\ peak'[k] >= limit
  BY <1>1 DEF AuditedSetLimit, RecordInv
<1>4. /\ dailyLimit'[k] \in Accounts /\ dailyLimit'[k].limit = limit
      /\ dailyLimit'[k].window_start_slot <= slot
      /\ IF Configured(k)
         THEN /\ dailyLimit'[k].window_start_slot = dailyLimit[k].window_start_slot
              /\ dailyLimit'[k].spent_today = dailyLimit[k].spent_today
         ELSE dailyLimit'[k].spent_today = 0
  BY SetFacts DEF AuditedSetLimit
<1>5. dailyLimit'[k] # NoAccount
  BY <1>4 DEF Accounts
<1>6. RecordOK(k)'
  BY <1>1, <1>2, <1>3 DEF RecordOK
<1>7. WindowOK(k)'
  <2> DEFINE start == dailyLimit'[k].window_start_slot
  <2>1. start \in History
    BY <1>1, <1>4 DEF History, Accounts
  <2>2. CASE Configured(k)
    <3>1. /\ dailyLimit'[k].spent_today = approved[k][start]
          /\ dailyLimit'[k].spent_today <= peak[k]
          /\ \A s \in History : s >= start + SlotsPerDay => approved[k][s] = 0
          /\ \A s \in History : start - SlotsPerDay < s /\ s <= start =>
                 approved[k][s] - approved[k][start] <= peak[k]
      BY <1>1, <1>4, <2>2 DEF WindowOK
    <3>2. \A s \in History : approved[k][s] \in Nat
      BY <1>1 DEF RecordOK
    <3>3. dailyLimit'[k].spent_today <= peak'[k] /\ peak[k] \in Nat
      BY <1>1, <1>3, <1>4, <3>1 DEF RecordOK, Accounts
    <3>4. \A s \in History : start - SlotsPerDay < s /\ s <= start =>
                 approved[k][s] - approved[k][start] <= peak'[k]
      BY <1>3, <2>1, <3>1, <3>2, <3>3
    <3>5. QED
      BY <1>2, <1>3, <1>4, <1>5, <3>1, <3>3, <3>4 DEF WindowOK, Configured
  <2>3. CASE ~Configured(k)
    <3>1. \A s \in History : approved[k][s] = 0
      BY <1>1, <2>3 DEF WindowOK
    <3>2. QED
      BY <1>2, <1>3, <1>4, <1>5, <2>1, <2>3, <3>1 DEF WindowOK, Configured
  <2>4. QED
    BY <2>2, <2>3
<1>8. DaysOK(k)'
  <2>1. \A s \in History : approved[k][s] \in Nat
    BY <1>1 DEF RecordOK
  <2>2. peak[k] \in Nat
    BY <1>1 DEF RecordOK
  <2>3. QED
    BY <1>1, <1>2, <1>3, <2>1, <2>2 DEF DaysOK
<1> QED
  BY <1>6, <1>7, <1>8

\* What an approval does to the record.
LEMMA BookedRecord ==
    ASSUME RecordInv, NEW k \in Keys, NEW amount \in Amounts,
           AuditedCheck(k, amount), Configured(k)
    PROVE  /\ approved'[k] \in [History -> Nat]
           /\ \A s \in History : approved'[k][s] =
                  IF s <= slot THEN approved[k][s] + amount ELSE approved[k][s]
           /\ approved' = [approved EXCEPT ![k] = approved'[k]]
           /\ peak' = peak /\ slot' = slot
<1> DEFINE booked == [s \in History |->
                          IF s <= slot THEN approved[k][s] + amount ELSE approved[k][s]]
<1>1. approved' = [approved EXCEPT ![k] = booked]
  BY DEF AuditedCheck
<1>2. amount \in Nat /\ approved \in [Keys -> [History -> Nat]]
  BY DailyLimitAssumption DEF RecordInv
<1>3. booked \in [History -> Nat]
  BY <1>2
<1>4. approved'[k] = booked
  BY <1>1, <1>2
<1>5. peak' = peak /\ slot' = slot
  BY DEF AuditedCheck
<1> QED
  BY <1>1, <1>3, <1>4, <1>5

\* What an approval leaves in the account, beside CheckFacts: the total is
\* what the record says.
LEMMA TotalFollows ==
    ASSUME RecordInv, TypeOK, NEW k \in Keys, NEW amount \in Amounts,
           AuditedCheck(k, amount), Configured(k)
    PROVE  LET start == dailyLimit'[k].window_start_slot
           IN  /\ start \in History /\ start <= slot
               /\ dailyLimit'[k].spent_today = approved'[k][start]
               /\ \A s \in History : s >= start + SlotsPerDay => approved'[k][s] = 0
               /\ \A s \in History : start - SlotsPerDay < s /\ s <= start =>
                      approved'[k][s] - approved'[k][start] <= peak[k]
<1> USE DailyLimitAssumption
<1> DEFINE pda    == dailyLimit[k]
           start  == pda.window_start_slot
           booked == dailyLimit'[k]
           begun  == booked.window_start_slot
<1>1. /\ pda \in Accounts /\ start <= slot
      /\ slot \in History /\ History = 0..(MaxSlot + 1) /\ amount \in Nat
  BY DEF RecordInv, History, TypeOK, Configured
<1>2. /\ \A s \in History : approved[k][s] \in Nat
      /\ \A s, t \in History : s <= t => approved[k][t] <= approved[k][s]
      /\ pda.spent_today = approved[k][start] /\ pda.spent_today <= peak[k]
      /\ \A s \in History : s >= start + SlotsPerDay => approved[k][s] = 0
      /\ \A s \in History : start - SlotsPerDay < s /\ s <= start =>
             approved[k][s] - approved[k][start] <= peak[k]
      /\ peak[k] \in Nat
  BY DEF RecordInv, RecordOK, WindowOK
<1>3. \A s \in History : approved'[k][s] =
          IF s <= slot THEN approved[k][s] + amount ELSE approved[k][s]
  BY BookedRecord
<1>4. \/ /\ begun = start /\ slot < start + SlotsPerDay
         /\ booked.spent_today = pda.spent_today + amount
      \/ /\ begun = slot /\ slot >= start + SlotsPerDay
         /\ booked.spent_today = amount
  BY <1>1, BookedTotal DEF AuditedCheck
<1>5. start \in Nat /\ SlotsPerDay \in Nat \ {0} /\ slot \in Nat /\ start \in History
  BY <1>1 DEF Accounts
<1> HIDE DEF pda, start, booked, begun
<1>6. CASE /\ begun = start /\ slot < start + SlotsPerDay
           /\ booked.spent_today = pda.spent_today + amount
  <2>1. booked.spent_today = approved'[k][begun]
    BY <1>1, <1>2, <1>3, <1>5, <1>6
  <2>2. \A s \in History : s >= begun + SlotsPerDay => approved'[k][s] = 0
    BY <1>1, <1>2, <1>3, <1>5, <1>6
  <2>3. ASSUME NEW s \in History, begun - SlotsPerDay < s, s <= begun
        PROVE  approved'[k][s] - approved'[k][begun] <= peak[k]
    <3>1. approved'[k][s] = approved[k][s] + amount /\ approved'[k][begun] = approved[k][begun] + amount
      BY <1>1, <1>3, <1>5, <1>6, <2>3
    <3>2. approved[k][s] - approved[k][begun] <= peak[k]
      BY <1>2, <1>6, <2>3
    <3>3. approved[k][s] \in Nat /\ approved[k][begun] \in Nat
      BY <1>2, <1>5, <1>6
    <3>4. QED
      BY <1>1, <1>2, <3>1, <3>2, <3>3
  <2>4. QED
    BY <1>1, <1>5, <1>6, <2>1, <2>2, <2>3 DEF booked, begun, start
<1>7. CASE /\ begun = slot /\ slot >= start + SlotsPerDay
           /\ booked.spent_today = amount
  <2>1. approved[k][slot] = 0
    BY <1>1, <1>2, <1>7
  <2>2. booked.spent_today = approved'[k][begun]
    BY <1>1, <1>3, <1>7, <2>1
  <2>3. \A s \in History : s >= begun + SlotsPerDay => approved'[k][s] = 0
    BY <1>1, <1>2, <1>3, <1>5, <1>7
  <2>4. ASSUME NEW s \in History, begun - SlotsPerDay < s, s <= begun
        PROVE  approved'[k][s] - approved'[k][begun] <= peak[k]
    <3>1. approved'[k][s] = approved[k][s] + amount /\ approved'[k][begun] = amount
      BY <1>1, <1>3, <1>7, <2>1, <2>4
    <3>2. start <= s
      BY <1>1, <1>5, <1>7, <2>4
    <3>3. approved[k][s] <= peak[k] /\ approved[k][s] \in Nat
      <4>1. approved[k][s] <= approved[k][start] /\ approved[k][start] <= peak[k]
        BY <1>2, <1>5, <3>2, <2>4
      <4>2. QED
        BY <1>2, <1>5, <2>4, <4>1
    <3>4. QED
      BY <1>1, <1>2, <3>1, <3>3
  <2>5. QED
    BY <1>1, <1>5, <1>7, <2>2, <2>3, <2>4 DEF booked, begun
<1> QED
  BY <1>4, <1>6, <1>7

\* An approval keeps the record and the account together, and no day sees
\* more than the allowance of the open window and the one before it.
LEMMA CheckKeepsRecord ==
    ASSUME RecordInv, TypeOK, NEW k \in Keys, NEW amount \in Amounts,
           AuditedCheck(k, amount), Configured(k)
    PROVE  RecordOK(k)' /\ WindowOK(k)' /\ DaysOK(k)'
<1> USE DailyLimitAssumption
<1> DEFINE A == approved[k]
           B == approved'[k]
           begun == dailyLimit'[k].window_start_slot
<1>1. /\ RecordOK(k) /\ WindowOK(k) /\ DaysOK(k)
      /\ slot \in History /\ History = 0..(MaxSlot + 1) /\ amount \in Nat
      /\ SlotsPerDay \in Nat \ {0}
  BY DEF RecordInv, History
<1>2. /\ B \in [History -> Nat] /\ peak' = peak /\ slot' = slot
      /\ \A s \in History : B[s] = IF s <= slot THEN A[s] + amount ELSE A[s]
  BY BookedRecord
<1>3. /\ \A s \in History : A[s] \in Nat
      /\ \A s, t \in History : s <= t => A[t] <= A[s]
      /\ \A s \in History : s > slot => A[s] = 0
      /\ peak[k] \in Nat
      /\ \A s, e \in History : s <= e /\ e <= s + SlotsPerDay => A[s] - A[e] <= 2 * peak[k]
  BY <1>1 DEF RecordOK, DaysOK
<1>4. /\ dailyLimit'[k] \in Accounts /\ dailyLimit'[k].limit = dailyLimit[k].limit
      /\ dailyLimit'[k].spent_today <= dailyLimit[k].limit
      /\ dailyLimit[k].limit \in Nat /\ dailyLimit[k].limit <= peak[k]
  BY <1>1, CheckFacts DEF AuditedCheck, WindowOK, TypeOK, Accounts, Configured
<1>5. /\ begun \in History /\ begun <= slot /\ dailyLimit'[k].spent_today = B[begun]
      /\ \A s \in History : s >= begun + SlotsPerDay => B[s] = 0
      /\ \A s \in History : begun - SlotsPerDay < s /\ s <= begun => B[s] - B[begun] <= peak[k]
  BY TotalFollows
<1>6. dailyLimit'[k].spent_today <= peak[k] /\ dailyLimit'[k].spent_today \in Nat
      /\ dailyLimit'[k] # NoAccount
  BY <1>3, <1>4 DEF Accounts
<1>7. WindowOK(k)'
  BY <1>2, <1>4, <1>5, <1>6 DEF WindowOK, Configured
<1> HIDE DEF A, B, begun
<1>8. \A s \in History : B[s] \in Nat
  BY <1>2
<1>9. ASSUME NEW s \in History, NEW t \in History, s <= t
      PROVE  B[t] <= B[s]
  <2>1. A[t] <= A[s] /\ A[s] \in Nat /\ A[t] \in Nat
    BY <1>3, <1>9
  <2>2. s \in Int /\ t \in Int /\ slot \in Int
    BY <1>1
  <2>3. /\ B[s] = IF s <= slot THEN A[s] + amount ELSE A[s]
        /\ B[t] = IF t <= slot THEN A[t] + amount ELSE A[t]
    BY <1>2
  <2>4. QED
    BY <1>1, <1>9, <2>1, <2>2, <2>3
<1>10. ASSUME NEW s \in History, s > slot
       PROVE  B[s] = 0
  <2>1. B[s] = A[s]
    BY <1>1, <1>2, <1>10
  <2>2. QED
    BY <1>3, <1>10, <2>1
<1>11. RecordOK(k)'
  BY <1>2, <1>3, <1>9, <1>10 DEF RecordOK, B
<1>12. ASSUME NEW s \in History, s > slot - SlotsPerDay
       PROVE  B[s] <= 2 * peak[k]
  <2>1. B[begun] <= peak[k] /\ B[begun] \in Nat /\ B[s] \in Nat
    BY <1>5, <1>6, <1>8
  <2>2. CASE begun <= s
    BY <1>3, <1>5, <1>9, <1>12, <2>1, <2>2
  <2>3. CASE s < begun
    <3>1. B[s] - B[begun] <= peak[k]
      BY <1>1, <1>5, <1>12, <2>3
    <3>2. QED
      BY <1>3, <2>1, <3>1
  <2>4. QED
    BY <1>1, <1>5, <2>2, <2>3
<1>13. ASSUME NEW s \in History, NEW e \in History, s <= e, e <= s + SlotsPerDay
       PROVE  B[s] - B[e] <= 2 * peak[k]
  <2>1. B[s] \in Nat /\ B[e] \in Nat /\ A[s] \in Nat /\ A[e] \in Nat /\ A[s] - A[e] <= 2 * peak[k]
    BY <1>3, <1>8, <1>13
  <2>2. CASE s <= slot /\ slot < e
    <3>1. B[s] <= 2 * peak[k]
      BY <1>1, <1>12, <1>13, <2>2
    <3>2. QED
      BY <1>3, <2>1, <3>1
  <2>3. CASE ~(s <= slot /\ slot < e)
    <3>1. B[s] - B[e] = A[s] - A[e]
      BY <1>1, <1>2, <1>13, <2>1, <2>3
    <3>2. QED
      BY <2>1, <3>1
  <2>4. QED
    BY <2>2, <2>3
<1>14. DaysOK(k)'
  BY <1>2, <1>13 DEF DaysOK, B
<1> QED
  BY <1>7, <1>11, <1>14

\* The record and the accounts stay together.
LEMMA RecordStep ==
    ASSUME RecordInv, TypeOK, [AuditNext]_auditVars
    PROVE  RecordInv'
<1> USE DailyLimitAssumption
<1>1. /\ slot \in Nat /\ slot \in 0..MaxSlot /\ dailyLimit \in [Keys -> Accounts \cup {NoAccount}]
      /\ approved \in [Keys -> [History -> Nat]] /\ peak \in [Keys -> Nat]
  BY DEF RecordInv, TypeOK
<1>2. CASE UNCHANGED auditVars
  BY <1>1, <1>2, SameRecord DEF auditVars, vars, RecordInv
<1>3. CASE Tick /\ UNCHANGED <<approved, peak>>
  <2>1. slot' \in 0..MaxSlot /\ slot' >= slot /\ dailyLimit' = dailyLimit
    BY <1>1, <1>3 DEF Tick
  <2>2. QED
    BY <1>1, <1>3, <2>1, SameRecord DEF RecordInv
<1>4. ASSUME NEW k \in Keys, NEW limit \in Limits, AuditedSetLimit(k, limit)
      PROVE  RecordInv'
  <2>1. slot' = slot /\ approved' = approved /\ peak' \in [Keys -> Nat]
    BY <1>1, <1>4 DEF AuditedSetLimit
  <2>2. ASSUME NEW j \in Keys, j # k
        PROVE  RecordOK(j)' /\ WindowOK(j)' /\ DaysOK(j)'
    <3>1. dailyLimit'[j] = dailyLimit[j]
      BY <1>1, <1>4, <2>2, SetFacts DEF AuditedSetLimit
    <3>2. peak'[j] = peak[j] /\ approved'[j] = approved[j]
      BY <1>1, <1>4, <2>2 DEF AuditedSetLimit
    <3>3. QED
      BY <1>1, <2>1, <3>1, <3>2, SameRecord
  <2>3. RecordOK(k)' /\ WindowOK(k)' /\ DaysOK(k)'
    BY <1>4, SetKeepsRecord
  <2>4. QED
    BY <1>1, <2>1, <2>2, <2>3 DEF RecordInv
<1>5. ASSUME NEW k \in Keys, NEW amount \in Amounts, AuditedCheck(k, amount)
      PROVE  RecordInv'
  <2>1. CASE ~Configured(k)
    <3>1. UNCHANGED auditVars
      BY <1>5, <2>1 DEF AuditedCheck, CheckTransfer, auditVars, vars
    <3>2. QED
      BY <1>2, <3>1
  <2>2. CASE Configured(k)
    <3>1. /\ approved'[k] \in [History -> Nat] /\ approved' = [approved EXCEPT ![k] = approved'[k]]
          /\ peak' = peak /\ slot' = slot
      BY <1>5, <2>2, BookedRecord
    <3>2. ASSUME NEW j \in Keys, j # k
          PROVE  RecordOK(j)' /\ WindowOK(j)' /\ DaysOK(j)'
      <4>1. dailyLimit'[j] = dailyLimit[j]
        BY <1>1, <1>5, <2>2, <3>2, CheckFacts DEF AuditedCheck
      <4>2. approved'[j] = approved[j]
        BY <1>1, <3>1, <3>2
      <4>3. QED
        BY <1>1, <3>1, <4>1, <4>2, SameRecord
    <3>3. RecordOK(k)' /\ WindowOK(k)' /\ DaysOK(k)'
      BY <1>5, <2>2, CheckKeepsRecord
    <3>4. approved' \in [Keys -> [History -> Nat]]
      BY <1>1, <3>1
    <3>5. QED
      BY <1>1, <3>1, <3>2, <3>3, <3>4 DEF RecordInv
  <2>3. QED
    BY <2>1, <2>2
<1> QED
  BY <1>2, <1>3, <1>4, <1>5 DEF AuditNext

\* Accounts and record stay together in every behaviour.
LEMMA RecordHolds == AuditSpec => [](TypeOK /\ RecordInv)
<1>1. AuditInit => RecordInv
  BY DailyLimitAssumption
     DEF AuditInit, Init, RecordInv, RecordOK, WindowOK, DaysOK, Configured, History
<1>2. AuditInit => Init
  BY DEF AuditInit
<1>3. AuditSpec => Spec
  BY <1>2, AuditStep, PTL DEF AuditSpec, Spec
<1> QED
  BY <1>1, <1>3, RecordStep, TypeCorrect, PTL DEF AuditSpec

\* The stored total is what the open window approved: no approval is missed,
\* counted twice or kept past its window, however late the window rolls.
THEOREM SpentIsTheWindowsTotal == AuditSpec => []SpentIsWindowTotal
<1>1. TypeOK /\ RecordInv => SpentIsWindowTotal
  <2> SUFFICES ASSUME TypeOK, RecordInv, NEW k \in Keys, Configured(k)
               PROVE  dailyLimit[k].spent_today
                        = ApprovedFrom(k, dailyLimit[k].window_start_slot, slot)
    BY DEF SpentIsWindowTotal
  <2>1. slot \in 0..MaxSlot /\ slot + 1 \in History /\ slot + 1 > slot
    BY DailyLimitAssumption DEF RecordInv, History
  <2>2. approved[k][slot + 1] = 0
    BY <2>1 DEF RecordInv, RecordOK
  <2>3. dailyLimit[k].spent_today = approved[k][dailyLimit[k].window_start_slot]
    BY DEF RecordInv, WindowOK
  <2>4. dailyLimit[k].spent_today \in Nat
    BY DailyLimitAssumption DEF TypeOK, Configured, Accounts
  <2>5. QED
    BY <2>2, <2>3, <2>4 DEF ApprovedFrom
<1> QED
  BY <1>1, RecordHolds, PTL

\* Two allowances are the most a day can see, whatever its position over the
\* tumbling windows and whatever the sender does to the cap meanwhile.
THEOREM TwiceTheCapIsTheMost == AuditSpec => []AtMostTwiceTheCapInADay
<1>1. RecordInv => AtMostTwiceTheCapInADay
  <2> SUFFICES ASSUME RecordInv, NEW k \in Keys, NEW first \in 0..slot, NEW last,
                      last = IF first + SlotsPerDay - 1 < slot
                             THEN first + SlotsPerDay - 1 ELSE slot
               PROVE  ApprovedFrom(k, first, last) <= 2 * peak[k]
    BY DEF AtMostTwiceTheCapInADay
  <2>1. slot \in 0..MaxSlot /\ SlotsPerDay \in Nat \ {0} /\ MaxSlot \in Nat
    BY DailyLimitAssumption DEF RecordInv
  <2>2. /\ first \in History /\ last + 1 \in History
        /\ first <= last + 1 /\ last + 1 <= first + SlotsPerDay
    BY <2>1 DEF History
  <2>3. DaysOK(k)
    BY DEF RecordInv
  <2>4. QED
    BY <2>2, <2>3 DEF DaysOK, ApprovedFrom
<1> QED
  BY <1>1, RecordHolds, PTL
=============================================================================
