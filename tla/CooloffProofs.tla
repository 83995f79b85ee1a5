---------------------------- MODULE CooloffProofs ----------------------------
(***************************************************************************)
(* Proofs about the cool-off, for any senders, thresholds, durations,      *)
(* amounts and clock.                                                      *)
(***************************************************************************)
EXTENDS CooloffAudit, TLAPS

\* The actions of Next, one alternative each.
LEMMA StepCases ==
    ASSUME [Next]_vars
    PROVE  \/ Tick
           \/ \E k \in Keys, t \in Thresholds, d \in Durations :
                SetCooloff(k, t, d) /\ UNCHANGED now
           \/ \E k \in Keys : DisableCooloff(k) /\ UNCHANGED now
           \/ \E k \in Keys, amount \in Amounts : CheckTransfer(k, amount) /\ UNCHANGED now
           \/ UNCHANGED vars
BY DEF Next

\* set_cooloff stores a setting within bounds and keeps the timer of an
\* account that exists.
LEMMA SetFacts ==
    ASSUME TypeOK, NEW k \in Keys, NEW t \in Thresholds, NEW d \in Durations,
           SetCooloff(k, t, d)
    PROVE  /\ cooloff' = [cooloff EXCEPT ![k] = cooloff'[k]]
           /\ cooloff'[k] \in Accounts
           /\ cooloff'[k].last_large_transfer_at =
                IF Configured(k) THEN cooloff[k].last_large_transfer_at ELSE 0
<1> USE CooloffAssumption
<1> DEFINE timer == IF Configured(k) THEN cooloff[k].last_large_transfer_at ELSE 0
<1>1. timer \in Nat
  BY DEF TypeOK, Accounts, Configured
<1>2. t \in Nat \ {0} /\ d \in 1..MaxDuration
  BY DEF SetCooloff
<1>3. cooloff' = [cooloff EXCEPT ![k] =
        [threshold |-> t, duration_seconds |-> d, last_large_transfer_at |-> timer]]
  BY DEF SetCooloff
<1> HIDE DEF timer
<1>4. cooloff'[k] = [threshold |-> t, duration_seconds |-> d, last_large_transfer_at |-> timer]
  BY <1>3 DEF TypeOK
<1>5. cooloff'[k] \in Accounts /\ cooloff'[k].last_large_transfer_at = timer
  BY <1>1, <1>2, <1>4 DEF Accounts
<1>6. cooloff' = [cooloff EXCEPT ![k] = cooloff'[k]]
  BY <1>3, <1>4
<1>7. QED
  BY <1>5, <1>6 DEF timer

\* A transfer that passes leaves the account alone or, if it is large, moves
\* the timer to the present.
LEMMA CheckFacts ==
    ASSUME TypeOK, NEW k \in Keys, NEW amount \in Amounts, CheckTransfer(k, amount)
    PROVE  \/ cooloff' = cooloff
           \/ /\ Configured(k)
              /\ cooloff' = [cooloff EXCEPT ![k] = cooloff'[k]]
              /\ cooloff'[k] \in Accounts
              /\ cooloff'[k].last_large_transfer_at = now
<1>1. CASE ~IsLarge(k, amount)
  BY <1>1 DEF CheckTransfer
<1>2. CASE IsLarge(k, amount)
  <2>1. Configured(k) /\ cooloff[k] \in Accounts /\ now \in Nat
    BY <1>2 DEF IsLarge, TypeOK, Configured
  <2>2. cooloff' = [cooloff EXCEPT ![k] =
          [cooloff[k] EXCEPT !.last_large_transfer_at = now]]
    BY <1>2 DEF CheckTransfer
  <2>3. cooloff'[k] = [cooloff[k] EXCEPT !.last_large_transfer_at = now]
    BY <2>2 DEF TypeOK
  <2>4. QED
    BY <2>1, <2>2, <2>3 DEF Accounts
<1>3. QED
  BY <1>1, <1>2

\* Every step keeps the types.
LEMMA TypeStep ==
    ASSUME TypeOK, [Next]_vars
    PROVE  TypeOK'
<1> USE CooloffAssumption
<1>1. ASSUME Tick PROVE TypeOK'
  <2>1. PICK d \in ClockSteps : now' = now + d
    BY <1>1 DEF Tick
  <2>2. now \in Nat /\ now' \in Nat /\ now <= now' /\ now >= Epoch
    BY <2>1 DEF TypeOK
  <2>3. cooloff' = cooloff
    BY <1>1 DEF Tick
  <2>4. ASSUME NEW k \in Keys, Configured(k)
        PROVE  cooloff[k].last_large_transfer_at <= now'
    <3>1. /\ cooloff[k].last_large_transfer_at \in Nat
          /\ cooloff[k].last_large_transfer_at <= now
      BY <2>4 DEF TypeOK, Configured, Accounts
    <3>2. QED
      BY <2>2, <3>1
  <2>5. QED
    BY <2>2, <2>3, <2>4 DEF TypeOK, Configured
<1>2. ASSUME NEW k \in Keys, NEW t \in Thresholds, NEW d \in Durations,
             SetCooloff(k, t, d), UNCHANGED now
      PROVE  TypeOK'
  <2>1. cooloff'[k].last_large_transfer_at <= now
    BY <1>2, SetFacts DEF TypeOK
  <2>2. QED
    BY <1>2, <2>1, SetFacts DEF TypeOK, Configured
<1>3. ASSUME NEW k \in Keys, DisableCooloff(k), UNCHANGED now PROVE TypeOK'
  BY <1>3 DEF DisableCooloff, TypeOK, Configured
<1>4. ASSUME NEW k \in Keys, NEW amount \in Amounts, CheckTransfer(k, amount),
             UNCHANGED now
      PROVE  TypeOK'
  BY <1>4, CheckFacts DEF TypeOK, Configured
<1>5. ASSUME UNCHANGED vars PROVE TypeOK'
  BY <1>5 DEF vars, TypeOK, Configured
<1>6. QED
  BY <1>1, <1>2, <1>3, <1>4, <1>5, StepCases

\* Every PDA keeps a value of its type: only settings within the bounds of
\* set_cooloff.rs are stored, and the timer is never ahead of the clock.
THEOREM TypeCorrect == Spec => []TypeOK
<1>1. Init => TypeOK
  BY CooloffAssumption DEF Init, TypeOK, Configured
<1>2. TypeOK /\ [Next]_vars => TypeOK'
  BY TypeStep
<1>3. QED
  BY <1>1, <1>2, PTL DEF Spec

\* While the rule stays enabled no call takes its timer back, in particular
\* no call of set_cooloff.
THEOREM TimerNeverMovesBackHolds == Spec => TimerNeverMovesBack
<1> USE CooloffAssumption
<1> DEFINE Kept(k) == Configured(k) /\ cooloff'[k] # NoAccount =>
             cooloff'[k].last_large_transfer_at >= cooloff[k].last_large_transfer_at
<1>1. ASSUME TypeOK, [Next]_vars, NEW k \in Keys PROVE Kept(k)
  <2> SUFFICES ASSUME Configured(k), cooloff'[k] # NoAccount
               PROVE  cooloff'[k].last_large_transfer_at >= cooloff[k].last_large_transfer_at
    OBVIOUS
  <2>1. /\ cooloff[k].last_large_transfer_at \in Nat /\ now \in Nat
        /\ cooloff[k].last_large_transfer_at <= now
    BY <1>1 DEF TypeOK, Configured, Accounts
  <2>2. CASE cooloff'[k] = cooloff[k]
    BY <2>1, <2>2
  <2>3. ASSUME NEW j \in Keys, NEW t \in Thresholds, NEW d \in Durations,
               SetCooloff(j, t, d), j = k
        PROVE  cooloff'[k].last_large_transfer_at = cooloff[k].last_large_transfer_at
    BY <1>1, <2>3, SetFacts
  <2>4. ASSUME NEW j \in Keys, NEW t \in Thresholds, NEW d \in Durations,
               SetCooloff(j, t, d), j # k
        PROVE  cooloff'[k] = cooloff[k]
    BY <1>1, <2>4, SetFacts DEF TypeOK
  <2>5. ASSUME NEW j \in Keys, DisableCooloff(j) PROVE cooloff'[k] = cooloff[k]
    BY <1>1, <2>5 DEF DisableCooloff, TypeOK
  <2>6. ASSUME NEW j \in Keys, NEW amount \in Amounts, CheckTransfer(j, amount)
        PROVE  \/ cooloff'[k] = cooloff[k]
               \/ cooloff'[k].last_large_transfer_at = now
    BY <1>1, <2>6, CheckFacts DEF TypeOK
  <2>7. QED
    BY <1>1, <2>1, <2>2, <2>3, <2>4, <2>5, <2>6, StepCases DEF Tick, vars
<1>2. TypeOK /\ [Next]_vars => [\A k \in Keys : Kept(k)]_vars
  BY <1>1
<1>3. QED
  BY <1>2, TypeCorrect, PTL DEF Spec, TimerNeverMovesBack

-----------------------------------------------------------------------------
(* The spacing of large transfers. *)

Approvals == [at : Nat, amount : Nat]

AuditTypeOK ==
    /\ passed \in [Keys -> Seq(Approvals)]
    /\ highest \in [Keys -> Nat]
    /\ shortest \in [Keys -> Nat]

\* What connects the record with the account: the setting in force is within
\* the extremes recorded, and the timer is not behind any recorded transfer
\* that was large whatever the setting was.
TimerCovers(k) ==
    /\ ~Configured(k) => passed[k] = <<>>
    /\ Configured(k) => /\ cooloff[k].threshold <= highest[k]
                        /\ shortest[k] <= cooloff[k].duration_seconds
                        /\ \A i \in 1..Len(passed[k]) : passed[k][i].amount >= highest[k] =>
                              passed[k][i].at <= cooloff[k].last_large_transfer_at

Spaced(k) ==
    \A i, j \in 1..Len(passed[k]) :
        i < j /\ passed[k][i].amount >= highest[k] /\ passed[k][j].amount >= highest[k]
            => passed[k][j].at - passed[k][i].at >= shortest[k]

\* LargeTransfersSpaced is not inductive: without TimerCovers the next large
\* transfer could follow a record that the timer has forgotten.
SpacingInv == AuditTypeOK /\ \A k \in Keys : TimerCovers(k) /\ Spaced(k)

\* A call of the audited specification is one of the rule's own.
LEMMA AuditStepCases ==
    ASSUME [AuditNext]_auditVars
    PROVE  \/ Tick /\ UNCHANGED audit
           \/ \E k \in Keys, t \in Thresholds, d \in Durations : AuditedSet(k, t, d)
           \/ \E k \in Keys : AuditedDisable(k)
           \/ \E k \in Keys, amount \in Amounts : AuditedCheck(k, amount)
           \/ UNCHANGED auditVars
BY DEF AuditNext

\* The audited specification adds a record and takes no step of its own.
LEMMA AuditImplementsRule ==
    ASSUME [AuditNext]_auditVars
    PROVE  [Next]_vars
BY DEF AuditNext, auditVars, vars, Next, AuditedSet, AuditedDisable, AuditedCheck

\* An entry of a sequence over S is in S.
LEMMA SeqEntry ==
    ASSUME NEW S, NEW s \in Seq(S), NEW i \in 1..Len(s)
    PROVE  s[i] \in S
OBVIOUS

\* Every recorded transfer has a time and an amount.
LEMMA RecordedFacts ==
    ASSUME AuditTypeOK, NEW k \in Keys
    PROVE  /\ passed[k] \in Seq(Approvals) /\ Len(passed[k]) \in Nat
           /\ \A i \in 1..Len(passed[k]) :
                passed[k][i].at \in Nat /\ passed[k][i].amount \in Nat
<1>1. passed[k] \in Seq(Approvals)
  BY DEF AuditTypeOK
<1>2. ASSUME NEW i \in 1..Len(passed[k])
      PROVE  passed[k][i].at \in Nat /\ passed[k][i].amount \in Nat
  <2>1. passed[k][i] \in Approvals
    BY ONLY <1>1, SeqEntry
  <2>2. QED
    BY <2>1 DEF Approvals
<1>3. Len(passed[k]) \in Nat
  BY <1>1
<1>4. QED
  BY <1>1, <1>2, <1>3

\* What a successful check records: nothing for a sender without the rule;
\* otherwise one more entry, and the timer is now if the amount is large.
LEMMA AuditedCheckFacts ==
    ASSUME TypeOK, AuditTypeOK, NEW k \in Keys, NEW amount \in Amounts,
           AuditedCheck(k, amount), Configured(k)
    PROVE  /\ passed' = [passed EXCEPT ![k] = passed'[k]]
           /\ passed'[k] = Append(passed[k], [at |-> now, amount |-> amount])
           /\ passed'[k] \in Seq(Approvals)
           /\ Len(passed'[k]) = Len(passed[k]) + 1
           /\ \A i \in 1..Len(passed[k]) : passed'[k][i] = passed[k][i]
           /\ passed'[k][Len(passed[k]) + 1] = [at |-> now, amount |-> amount]
           /\ Len(passed[k]) \in Nat
<1> USE CooloffAssumption
<1> DEFINE entry == [at |-> now, amount |-> amount]
<1>1. passed' = [passed EXCEPT ![k] = Append(passed[k], entry)]
  BY DEF AuditedCheck
<1>2. passed[k] \in Seq(Approvals) /\ entry \in Approvals
  BY DEF AuditTypeOK, Approvals, TypeOK
<1>3. passed'[k] = Append(passed[k], entry)
  BY <1>1 DEF AuditTypeOK
<1>4. passed' = [passed EXCEPT ![k] = passed'[k]]
  BY <1>1, <1>3
<1> HIDE DEF entry
<1>5. /\ passed'[k] \in Seq(Approvals)
      /\ Len(passed'[k]) = Len(passed[k]) + 1
      /\ \A i \in 1..Len(passed[k]) : passed'[k][i] = passed[k][i]
      /\ passed'[k][Len(passed[k]) + 1] = entry
      /\ Len(passed[k]) \in Nat
  BY <1>2, <1>3
<1>6. QED
  BY <1>3, <1>4, <1>5 DEF entry

\* An approved transfer keeps the record covered and spaced: if it is large
\* whatever the setting was, the wait it passed was measured from a timer
\* that covers every earlier such transfer.
LEMMA CheckKeepsSpacing ==
    ASSUME TypeOK, AuditTypeOK, NEW k \in Keys, NEW amount \in Amounts,
           AuditedCheck(k, amount), Configured(k), TimerCovers(k), Spaced(k)
    PROVE  TimerCovers(k)' /\ Spaced(k)'
<1> USE CooloffAssumption
<1> DEFINE n == Len(passed[k])
           timer == cooloff[k].last_large_transfer_at
<1>1. /\ cooloff[k] \in Accounts /\ now \in Nat /\ timer \in Nat /\ timer <= now
      /\ highest[k] \in Nat /\ shortest[k] \in Nat /\ amount \in Nat
      /\ cooloff[k].threshold \in Nat /\ cooloff[k].duration_seconds \in Nat
  BY DEF TypeOK, AuditTypeOK, Configured, Accounts
<1>2. /\ n \in Nat /\ Len(passed'[k]) = n + 1
      /\ \A i \in 1..n : passed'[k][i] = passed[k][i]
      /\ passed'[k][n + 1].at = now /\ passed'[k][n + 1].amount = amount
  <2>1. passed'[k][n + 1] = [at |-> now, amount |-> amount]
    BY AuditedCheckFacts
  <2>2. QED
    BY <2>1, AuditedCheckFacts
<1>3. \A i \in 1..n : passed[k][i].at \in Nat /\ passed[k][i].amount \in Nat
  BY RecordedFacts
<1>4. UNCHANGED <<now, highest, shortest>> /\ CheckTransfer(k, amount)
  BY DEF AuditedCheck
<1>5. cooloff'[k].threshold = cooloff[k].threshold
      /\ cooloff'[k].duration_seconds = cooloff[k].duration_seconds
      /\ cooloff'[k] # NoAccount
      /\ cooloff'[k].last_large_transfer_at = IF IsLarge(k, amount) THEN now ELSE timer
  <2>1. CASE IsLarge(k, amount)
    <3>1. cooloff' = [cooloff EXCEPT ![k] = [cooloff[k] EXCEPT !.last_large_transfer_at = now]]
      BY <1>4, <2>1 DEF CheckTransfer
    <3>2. cooloff'[k] = [cooloff[k] EXCEPT !.last_large_transfer_at = now]
      BY <3>1 DEF TypeOK
    <3>3. cooloff'[k] \in Accounts
      BY <1>1, <3>2 DEF Accounts
    <3>4. cooloff'[k] # NoAccount
      BY <3>3 DEF Accounts
    <3>5. QED
      BY <1>1, <2>1, <3>2, <3>4 DEF Accounts
  <2>2. CASE ~IsLarge(k, amount)
    BY <1>4, <2>2 DEF CheckTransfer, Configured
  <2>3. QED
    BY <2>1, <2>2
<1>6. amount >= highest[k] => /\ IsLarge(k, amount)
                              /\ now - timer >= shortest[k]
  BY <1>1, <1>4 DEF TimerCovers, IsLarge, CheckTransfer, Approves
<1>7. \A i \in 1..n : passed[k][i].amount >= highest[k] => passed[k][i].at <= timer
  BY DEF TimerCovers
<1> HIDE DEF n, timer
<1>8. ASSUME NEW i \in 1..(n + 1), passed'[k][i].amount >= highest[k]
      PROVE  passed'[k][i].at <= cooloff'[k].last_large_transfer_at
  <2>1. CASE i \in 1..n
    <3>1. passed'[k][i] = passed[k][i] /\ passed[k][i].at \in Nat
      BY <1>2, <1>3, <2>1
    <3>2. passed[k][i].at <= timer
      BY <1>7, <1>8, <2>1, <3>1
    <3>3. QED
      BY <1>1, <1>5, <3>1, <3>2
  <2>2. CASE i = n + 1
    BY <1>1, <1>2, <1>5, <1>6, <1>8, <2>2
  <2>3. QED
    BY <1>2, <2>1, <2>2
<1>9. ASSUME NEW i \in 1..(n + 1), NEW j \in 1..(n + 1), i < j,
             passed'[k][i].amount >= highest[k], passed'[k][j].amount >= highest[k]
      PROVE  passed'[k][j].at - passed'[k][i].at >= shortest[k]
  <2>1. CASE j \in 1..n
    <3>1. i \in 1..n /\ passed'[k][i] = passed[k][i] /\ passed'[k][j] = passed[k][j]
      BY <1>2, <1>9, <2>1
    <3>2. QED
      BY <1>9, <2>1, <3>1 DEF Spaced, n
  <2>2. CASE j = n + 1
    <3>1. i \in 1..n /\ passed'[k][i] = passed[k][i]
      BY <1>2, <1>9, <2>2
    <3>2. passed[k][i].at <= timer /\ passed[k][i].at \in Nat
      BY <1>3, <1>7, <1>9, <3>1
    <3>3. passed'[k][j].at = now /\ now - timer >= shortest[k]
      BY <1>2, <1>6, <1>9, <2>2
    <3>4. QED
      BY <1>1, <3>1, <3>2, <3>3
  <2>3. QED
    BY <1>2, <2>1, <2>2
<1>10. TimerCovers(k)'
  BY <1>2, <1>4, <1>5, <1>8 DEF TimerCovers, Configured
<1>11. Spaced(k)'
  BY <1>2, <1>4, <1>9 DEF Spaced
<1>12. QED
  BY <1>10, <1>11

\* What is at least a number is at least any smaller one.
LEMMA AtLeastLess ==
    ASSUME NEW a \in Int, NEW b \in Int, NEW c \in Int, a >= b, c <= b
    PROVE  a >= c
OBVIOUS

\* A change of the setting widens the extremes on record, so that fewer
\* transfers count as large and less distance is asked of them.
LEMMA SetKeepsSpacing ==
    ASSUME TypeOK, AuditTypeOK, NEW k \in Keys, NEW t \in Thresholds, NEW d \in Durations,
           AuditedSet(k, t, d), TimerCovers(k), Spaced(k)
    PROVE  TimerCovers(k)' /\ Spaced(k)'
<1> USE CooloffAssumption
<1>1. /\ highest[k] \in Nat /\ shortest[k] \in Nat /\ t \in Nat /\ d \in Int
      /\ passed[k] \in Seq(Approvals)
  BY DEF AuditTypeOK
<1>2. \A i \in 1..Len(passed[k]) : passed[k][i].at \in Nat /\ passed[k][i].amount \in Nat
  BY RecordedFacts
<1>3. /\ passed' = passed
      /\ highest'[k] \in Nat /\ highest'[k] >= highest[k] /\ highest'[k] >= t
      /\ shortest'[k] \in Int /\ shortest'[k] <= shortest[k] /\ shortest'[k] <= d
  BY <1>1 DEF AuditedSet, AuditTypeOK
<1>4. /\ cooloff'[k] # NoAccount /\ cooloff'[k].threshold = t
      /\ cooloff'[k].duration_seconds = d
  <2>1. SetCooloff(k, t, d)
    BY DEF AuditedSet
  <2>2. cooloff'[k].threshold = t /\ cooloff'[k].duration_seconds = d
    BY <2>1 DEF SetCooloff, TypeOK
  <2>3. cooloff'[k] \in Accounts
    BY <2>1, SetFacts
  <2>4. QED
    BY <2>2, <2>3 DEF Accounts
<1>5. passed[k] # <<>> => Configured(k)
                          /\ cooloff'[k].last_large_transfer_at = cooloff[k].last_large_transfer_at
  BY SetFacts DEF AuditedSet, TimerCovers
<1>6. ASSUME NEW i \in 1..Len(passed[k]), passed[k][i].amount >= highest'[k]
      PROVE  passed[k][i].at <= cooloff'[k].last_large_transfer_at
  <2>1. passed[k] # <<>>
    BY <1>1
  <2>2. passed[k][i].amount >= highest[k]
    BY <1>1, <1>2, <1>3, <1>6
  <2>3. QED
    BY <1>5, <2>1, <2>2 DEF TimerCovers
<1>7. ASSUME NEW i \in 1..Len(passed[k]), NEW j \in 1..Len(passed[k]), i < j,
             passed[k][i].amount >= highest'[k], passed[k][j].amount >= highest'[k]
      PROVE  passed[k][j].at - passed[k][i].at >= shortest'[k]
  <2>1. passed[k][i].amount >= highest[k] /\ passed[k][j].amount >= highest[k]
    BY <1>1, <1>2, <1>3, <1>7
  <2>2. passed[k][j].at - passed[k][i].at >= shortest[k]
    BY <1>7, <2>1 DEF Spaced
  <2>3. passed[k][j].at - passed[k][i].at \in Int
    BY <1>2, <1>7
  <2>4. shortest'[k] \in Int /\ shortest[k] \in Int /\ shortest'[k] <= shortest[k]
    BY <1>1, <1>3
  <2>5. QED
    BY <2>2, <2>3, <2>4, AtLeastLess
<1>8. TimerCovers(k)'
  BY <1>3, <1>4, <1>6 DEF TimerCovers, Configured
<1>9. Spaced(k)'
  BY <1>3, <1>7 DEF Spaced
<1>10. QED
  BY <1>8, <1>9

\* The record of one sender is untouched by what another does.
LEMMA OtherKeys ==
    ASSUME TypeOK, AuditTypeOK, NEW k \in Keys, TimerCovers(k), Spaced(k),
           cooloff'[k] = cooloff[k], passed'[k] = passed[k],
           highest'[k] = highest[k], shortest'[k] = shortest[k]
    PROVE  TimerCovers(k)' /\ Spaced(k)'
BY DEF TimerCovers, Spaced, Configured

\* The record keeps its type.
LEMMA RecordKeepsType ==
    ASSUME TypeOK, AuditTypeOK, [AuditNext]_auditVars
    PROVE  AuditTypeOK'
<1> USE CooloffAssumption
<1>1. ASSUME NEW k \in Keys, NEW t \in Thresholds, NEW d \in Durations, AuditedSet(k, t, d)
      PROVE  AuditTypeOK'
  <2>1. t \in Nat /\ d \in Nat
    BY <1>1 DEF AuditedSet, SetCooloff
  <2>2. QED
    BY <1>1, <2>1 DEF AuditedSet, AuditTypeOK
<1>2. ASSUME NEW k \in Keys, AuditedDisable(k) PROVE AuditTypeOK'
  BY <1>2 DEF AuditedDisable, AuditTypeOK
<1>3. ASSUME NEW k \in Keys, NEW amount \in Amounts, AuditedCheck(k, amount)
      PROVE  AuditTypeOK'
  <2>1. CASE Configured(k)
    <3>1. passed' \in [Keys -> Seq(Approvals)]
      BY <1>3, <2>1, AuditedCheckFacts DEF AuditTypeOK
    <3>2. QED
      BY <1>3, <3>1 DEF AuditedCheck, AuditTypeOK
  <2>2. CASE ~Configured(k)
    BY <1>3, <2>2 DEF AuditedCheck, AuditTypeOK
  <2>3. QED
    BY <2>1, <2>2
<1>4. QED
  BY <1>1, <1>2, <1>3, AuditStepCases DEF audit, auditVars, AuditTypeOK

\* No step of any sender breaks the spacing of another's transfers or of
\* their own.
LEMMA RecordKeepsSpacing ==
    ASSUME TypeOK, SpacingInv, [AuditNext]_auditVars, NEW k \in Keys
    PROVE  TimerCovers(k)' /\ Spaced(k)'
<1> DEFINE Goal == TimerCovers(k)' /\ Spaced(k)'
<1>1. AuditTypeOK /\ TimerCovers(k) /\ Spaced(k)
  BY DEF SpacingInv
<1>2. ASSUME cooloff'[k] = cooloff[k], passed'[k] = passed[k],
             highest'[k] = highest[k], shortest'[k] = shortest[k]
      PROVE  Goal
  BY <1>1, <1>2, OtherKeys
<1>3. ASSUME NEW j \in Keys, NEW t \in Thresholds, NEW d \in Durations, AuditedSet(j, t, d)
      PROVE  Goal
  <2>1. CASE j = k
    BY <1>1, <1>3, <2>1, SetKeepsSpacing
  <2>2. CASE j # k
    <3>1. cooloff'[k] = cooloff[k]
      BY <1>3, <2>2 DEF AuditedSet, SetCooloff, TypeOK
    <3>2. passed' = passed /\ highest'[k] = highest[k] /\ shortest'[k] = shortest[k]
      BY <1>1, <1>3, <2>2 DEF AuditedSet, AuditTypeOK
    <3>3. QED
      BY <1>2, <3>1, <3>2
  <2>3. QED
    BY <2>1, <2>2
<1>4. ASSUME NEW j \in Keys, AuditedDisable(j) PROVE Goal
  <2>1. CASE j = k
    <3>1. cooloff'[k] = NoAccount /\ passed'[k] = <<>>
      BY <1>1, <1>4, <2>1 DEF AuditedDisable, DisableCooloff, TypeOK, AuditTypeOK
    <3>2. TimerCovers(k)'
      BY <3>1 DEF TimerCovers, Configured
    <3>3. Spaced(k)'
      BY <3>1 DEF Spaced
    <3>4. QED
      BY <3>2, <3>3
  <2>2. CASE j # k
    <3>1. cooloff'[k] = cooloff[k]
      BY <1>4, <2>2 DEF AuditedDisable, DisableCooloff, TypeOK
    <3>2. passed'[k] = passed[k] /\ highest'[k] = highest[k] /\ shortest'[k] = shortest[k]
      BY <1>1, <1>4, <2>2 DEF AuditedDisable, AuditTypeOK
    <3>3. QED
      BY <1>2, <3>1, <3>2
  <2>3. QED
    BY <2>1, <2>2
<1>5. ASSUME NEW j \in Keys, NEW amount \in Amounts, AuditedCheck(j, amount) PROVE Goal
  <2>1. CASE j = k /\ Configured(k)
    BY <1>1, <1>5, <2>1, CheckKeepsSpacing
  <2>2. CASE ~Configured(j)
    <3>1. cooloff' = cooloff
      BY <1>5, <2>2 DEF AuditedCheck, CheckTransfer, IsLarge
    <3>2. UNCHANGED <<passed, highest, shortest>>
      BY <1>5, <2>2 DEF AuditedCheck
    <3>3. QED
      BY <1>2, <3>1, <3>2
  <2>3. CASE j # k
    <3>1. cooloff'[k] = cooloff[k]
      BY <1>5, <2>3, CheckFacts DEF AuditedCheck, TypeOK
    <3>2. passed'[k] = passed[k] /\ UNCHANGED <<highest, shortest>>
      BY <1>1, <1>5, <2>3 DEF AuditedCheck, AuditTypeOK
    <3>3. QED
      BY <1>2, <3>1, <3>2
  <2>4. QED
    BY <2>1, <2>2, <2>3
<1>6. UNCHANGED <<cooloff, audit>> => Goal
  BY <1>2 DEF audit
<1>7. QED
  BY <1>3, <1>4, <1>5, <1>6, AuditStepCases DEF auditVars, vars, Tick

\* The cool-off does what it is for, over any sequence of transfers and
\* changes of its settings while it stays enabled.
THEOREM LargeTransfersStaySpaced == AuditSpec => []LargeTransfersSpaced
<1>1. AuditInit => Init /\ SpacingInv
  <2> SUFFICES ASSUME AuditInit PROVE SpacingInv
    BY DEF AuditInit
  <2>1. AuditTypeOK
    BY CooloffAssumption DEF AuditInit, AuditTypeOK
  <2>2. ASSUME NEW k \in Keys PROVE TimerCovers(k) /\ Spaced(k)
    BY DEF AuditInit, Init, Configured, TimerCovers, Spaced
  <2>3. QED
    BY <2>1, <2>2 DEF SpacingInv
<1>2. [AuditNext]_auditVars => [Next]_vars
  BY AuditImplementsRule
<1>3. TypeOK /\ SpacingInv /\ [AuditNext]_auditVars => SpacingInv'
  BY RecordKeepsType, RecordKeepsSpacing DEF SpacingInv
<1>4. SpacingInv => LargeTransfersSpaced
  BY DEF SpacingInv, Spaced, LargeTransfersSpaced
<1>5. QED
  BY <1>1, <1>2, <1>3, <1>4, TypeCorrect, PTL DEF AuditSpec, Spec
=============================================================================
