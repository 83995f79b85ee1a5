----------------------------- MODULE HookProofs -----------------------------
(***************************************************************************)
(* Proofs about the hook, for any wallets, amounts, transactions and       *)
(* settings: each rule runs under it as its own module says, the blocked   *)
(* hours are one interval, every account keeps its type, a transfer        *)
(* executed rule by rule is all or nothing and keeps all types halfway,    *)
(* what moved is within what was counted, and the rules open together.     *)
(***************************************************************************)
EXTENDS HookPipeline, HookAudit, TLAPS

-----------------------------------------------------------------------------
(* The six rules under the hook. *)

\* A step is a tick, the creation of the extra-account list, a change to one
\* rule's settings, a direct check, or a call of all six rules.
LEMMA StepCases ==
    ASSUME [Next]_vars
    PROVE  \/ Tick
           \/ UNCHANGED <<rules, clock>>
           \/ \E w \in RuleUsers : ChangeRules(w)
           \/ \E w \in RuleUsers, amount \in Amounts : DirectCheck(w, amount)
           \/ \E authority \in Wallets, recipient \in Wallets, amount \in Amounts,
                 tx \in Transactions : \E i \in 1..Len(tx.names) :
                    Execute(authority, recipient, amount, tx, i)
<1> USE StedeHookAssumption
<1>1. ASSUME NEW tx \in Transactions, NEW amount \in Amounts, NEW recipient \in Payees,
             NEW i \in 1..Len(tx.names), NEW source \in Wallets, NEW authority \in Wallets,
             Transfer(authority, source, recipient, amount, tx, i)
      PROVE  \E a \in Wallets, r \in Wallets, m \in Amounts, t \in Transactions :
                \E j \in 1..Len(t.names) : Execute(a, r, m, t, j)
  BY <1>1 DEF Transfer
<1>2. ASSUME NEW tx \in Transactions, NEW amount \in Amounts, NEW recipient \in Payees,
             NEW i \in 1..Len(tx.names), NEW authority \in RuleUsers,
             DirectExecute(authority, recipient, amount, tx, i)
      PROVE  \E a \in Wallets, r \in Wallets, m \in Amounts, t \in Transactions :
                \E j \in 1..Len(t.names) : Execute(a, r, m, t, j)
  BY <1>2 DEF DirectExecute
<1>3. InitializeExtraAccountMetaList => UNCHANGED <<rules, clock>>
  BY DEF InitializeExtraAccountMetaList, rules, clock
<1>4. UNCHANGED vars => UNCHANGED <<rules, clock>>
  BY DEF vars
<1> QED
  BY <1>1, <1>2, <1>3, <1>4 DEF Next

\* The daily limit sees a behaviour of its own.
LEMMA DailyStep == [Next]_vars => [Daily!Next]_<<dailyLimit, slot>>
<1> SUFFICES ASSUME [Next]_vars PROVE [Daily!Next]_<<dailyLimit, slot>>
  OBVIOUS
<1> USE StedeHookAssumption
<1>1. ASSUME Tick PROVE Daily!Next
  BY <1>1 DEF Tick, Daily!Next, Daily!Tick, rules
<1>2. ASSUME UNCHANGED <<rules, clock>> PROVE UNCHANGED <<dailyLimit, slot>>
  BY <1>2 DEF rules, clock
<1>3. ASSUME NEW w \in RuleUsers, ChangeRules(w) PROVE [Daily!Next]_<<dailyLimit, slot>>
  <2>1. UNCHANGED slot
    BY <1>3 DEF ChangeRules, clock
  <2>2. ASSUME ChangeDailyLimit(w) PROVE Daily!Next
    BY <2>1, <2>2 DEF ChangeDailyLimit, Daily!Next
  <2>3. ASSUME ~ChangeDailyLimit(w) PROVE UNCHANGED dailyLimit
    BY <1>3, <2>3 DEF ChangeRules, ChangeBlockList, ChangeCooloff, ChangeSlowSend,
                      ChangeTimeWindow, ChangeFriendGate
  <2> QED
    BY <2>1, <2>2, <2>3
<1>4. ASSUME NEW w \in RuleUsers, NEW amount \in Amounts, DirectCheck(w, amount)
      PROVE  [Daily!Next]_<<dailyLimit, slot>>
  BY <1>4 DEF DirectCheck, Daily!Next, clock
<1>5. ASSUME NEW authority \in Wallets, NEW recipient \in Wallets, NEW amount \in Amounts,
             NEW tx \in Transactions, NEW i \in 1..Len(tx.names),
             Execute(authority, recipient, amount, tx, i)
      PROVE  Daily!Next
  BY <1>5 DEF Execute, Daily!Next, clock
<1> QED
  BY <1>1, <1>2, <1>3, <1>4, <1>5, StepCases

\* So does the block list.
LEMMA BlockStep == [Next]_vars => [Block!Next]_blockList
<1> SUFFICES ASSUME [Next]_vars PROVE [Block!Next]_blockList
  OBVIOUS
<1> USE StedeHookAssumption
<1>1. ASSUME Tick PROVE UNCHANGED blockList
  BY <1>1 DEF Tick, rules
<1>2. ASSUME UNCHANGED <<rules, clock>> PROVE UNCHANGED blockList
  BY <1>2 DEF rules
<1>3. ASSUME NEW w \in RuleUsers, ChangeRules(w) PROVE [Block!Next]_blockList
  <2>1. ASSUME ChangeBlockList(w) PROVE Block!Next
    BY <2>1 DEF ChangeBlockList, Block!Next
  <2>2. ASSUME ~ChangeBlockList(w) PROVE UNCHANGED blockList
    BY <1>3, <2>2 DEF ChangeRules, ChangeDailyLimit, ChangeCooloff, ChangeSlowSend,
                      ChangeTimeWindow, ChangeFriendGate
  <2> QED
    BY <2>1, <2>2
<1>4. ASSUME NEW w \in RuleUsers, NEW amount \in Amounts, DirectCheck(w, amount)
      PROVE  UNCHANGED blockList
  BY <1>4 DEF DirectCheck
<1>5. ASSUME NEW authority \in Wallets, NEW recipient \in Wallets, NEW amount \in Amounts,
             NEW tx \in Transactions, NEW i \in 1..Len(tx.names),
             Execute(authority, recipient, amount, tx, i)
      PROVE  UNCHANGED blockList
  BY <1>5 DEF Execute, Block!CheckTransfer
<1> QED
  BY <1>1, <1>2, <1>3, <1>4, <1>5, StepCases

\* So does the cool-off.
LEMMA CoolStep == [Next]_vars => [Cool!Next]_<<cooloff, now>>
<1> SUFFICES ASSUME [Next]_vars PROVE [Cool!Next]_<<cooloff, now>>
  OBVIOUS
<1> USE StedeHookAssumption
<1>1. ASSUME Tick PROVE Cool!Next
  BY <1>1 DEF Tick, Cool!Next, Cool!Tick, rules
<1>2. ASSUME UNCHANGED <<rules, clock>> PROVE UNCHANGED <<cooloff, now>>
  BY <1>2 DEF rules, clock
<1>3. ASSUME NEW w \in RuleUsers, ChangeRules(w) PROVE [Cool!Next]_<<cooloff, now>>
  <2>1. UNCHANGED now
    BY <1>3 DEF ChangeRules, clock
  <2>2. ASSUME ChangeCooloff(w) PROVE Cool!Next
    BY <2>1, <2>2 DEF ChangeCooloff, Cool!Next
  <2>3. ASSUME ~ChangeCooloff(w) PROVE UNCHANGED cooloff
    BY <1>3, <2>3 DEF ChangeRules, ChangeDailyLimit, ChangeBlockList, ChangeSlowSend,
                      ChangeTimeWindow, ChangeFriendGate
  <2> QED
    BY <2>1, <2>2, <2>3
<1>4. ASSUME NEW w \in RuleUsers, NEW amount \in Amounts, DirectCheck(w, amount)
      PROVE  [Cool!Next]_<<cooloff, now>>
  BY <1>4 DEF DirectCheck, Cool!Next, clock
<1>5. ASSUME NEW authority \in Wallets, NEW recipient \in Wallets, NEW amount \in Amounts,
             NEW tx \in Transactions, NEW i \in 1..Len(tx.names),
             Execute(authority, recipient, amount, tx, i)
      PROVE  Cool!Next
  BY <1>5 DEF Execute, Cool!Next, clock
<1> QED
  BY <1>1, <1>2, <1>3, <1>4, <1>5, StepCases

\* So does slow send.
LEMMA SlowStep == [Next]_vars => [Slow!Next]_<<slowSend, contact, now>>
<1> SUFFICES ASSUME [Next]_vars PROVE [Slow!Next]_<<slowSend, contact, now>>
  OBVIOUS
<1> USE StedeHookAssumption
<1>1. ASSUME Tick PROVE Slow!Next
  BY <1>1 DEF Tick, Slow!Next, Slow!Tick, rules
<1>2. ASSUME UNCHANGED <<rules, clock>> PROVE UNCHANGED <<slowSend, contact, now>>
  BY <1>2 DEF rules, clock
<1>3. ASSUME NEW w \in RuleUsers, ChangeRules(w)
      PROVE  [Slow!Next]_<<slowSend, contact, now>>
  <2>1. UNCHANGED now
    BY <1>3 DEF ChangeRules, clock
  <2>2. ASSUME ChangeSlowSend(w) PROVE Slow!Next
    BY <2>1, <2>2 DEF ChangeSlowSend, Slow!Next
  <2>3. ASSUME ~ChangeSlowSend(w) PROVE UNCHANGED <<slowSend, contact>>
    BY <1>3, <2>3 DEF ChangeRules, ChangeDailyLimit, ChangeBlockList, ChangeCooloff,
                      ChangeTimeWindow, ChangeFriendGate
  <2> QED
    BY <2>1, <2>2, <2>3
<1>4. ASSUME NEW w \in RuleUsers, NEW amount \in Amounts, DirectCheck(w, amount)
      PROVE  UNCHANGED <<slowSend, contact, now>>
  BY <1>4 DEF DirectCheck, clock
<1>5. ASSUME NEW authority \in Wallets, NEW recipient \in Wallets, NEW amount \in Amounts,
             NEW tx \in Transactions, NEW i \in 1..Len(tx.names),
             Execute(authority, recipient, amount, tx, i)
      PROVE  UNCHANGED <<slowSend, contact, now>>
  BY <1>5 DEF Execute, Slow!CheckTransfer, clock
<1> QED
  BY <1>1, <1>2, <1>3, <1>4, <1>5, StepCases

\* So does the time window.
LEMMA WindowStep == [Next]_vars => [Window!Next]_<<timeWindow, now>>
<1> SUFFICES ASSUME [Next]_vars PROVE [Window!Next]_<<timeWindow, now>>
  OBVIOUS
<1> USE StedeHookAssumption
<1>1. ASSUME Tick PROVE Window!Next
  BY <1>1 DEF Tick, Window!Next, Window!Tick, rules
<1>2. ASSUME UNCHANGED <<rules, clock>> PROVE UNCHANGED <<timeWindow, now>>
  BY <1>2 DEF rules, clock
<1>3. ASSUME NEW w \in RuleUsers, ChangeRules(w) PROVE [Window!Next]_<<timeWindow, now>>
  <2>1. UNCHANGED now
    BY <1>3 DEF ChangeRules, clock
  <2>2. ASSUME ChangeTimeWindow(w) PROVE Window!Next
    BY <2>1, <2>2 DEF ChangeTimeWindow, Window!Next
  <2>3. ASSUME ~ChangeTimeWindow(w) PROVE UNCHANGED timeWindow
    BY <1>3, <2>3 DEF ChangeRules, ChangeDailyLimit, ChangeBlockList, ChangeCooloff,
                      ChangeSlowSend, ChangeFriendGate
  <2> QED
    BY <2>1, <2>2, <2>3
<1>4. ASSUME NEW w \in RuleUsers, NEW amount \in Amounts, DirectCheck(w, amount)
      PROVE  UNCHANGED <<timeWindow, now>>
  BY <1>4 DEF DirectCheck, clock
<1>5. ASSUME NEW authority \in Wallets, NEW recipient \in Wallets, NEW amount \in Amounts,
             NEW tx \in Transactions, NEW i \in 1..Len(tx.names),
             Execute(authority, recipient, amount, tx, i)
      PROVE  UNCHANGED <<timeWindow, now>>
  BY <1>5 DEF Execute, Window!CheckTransfer, clock
<1> QED
  BY <1>1, <1>2, <1>3, <1>4, <1>5, StepCases

\* So does the friend gate.
LEMMA GateStep == [Next]_vars => [Gate!Next]_friendGate
<1> SUFFICES ASSUME [Next]_vars PROVE [Gate!Next]_friendGate
  OBVIOUS
<1> USE StedeHookAssumption
<1>1. ASSUME Tick PROVE UNCHANGED friendGate
  BY <1>1 DEF Tick, rules
<1>2. ASSUME UNCHANGED <<rules, clock>> PROVE UNCHANGED friendGate
  BY <1>2 DEF rules
<1>3. ASSUME NEW w \in RuleUsers, ChangeRules(w) PROVE [Gate!Next]_friendGate
  <2>1. ASSUME ChangeFriendGate(w) PROVE Gate!Next
    BY <2>1 DEF ChangeFriendGate, Gate!Next
  <2>2. ASSUME ~ChangeFriendGate(w) PROVE UNCHANGED friendGate
    BY <1>3, <2>2 DEF ChangeRules, ChangeDailyLimit, ChangeBlockList, ChangeCooloff,
                      ChangeSlowSend, ChangeTimeWindow
  <2> QED
    BY <2>1, <2>2
<1>4. ASSUME NEW w \in RuleUsers, NEW amount \in Amounts, DirectCheck(w, amount)
      PROVE  UNCHANGED friendGate
  BY <1>4 DEF DirectCheck
<1>5. ASSUME NEW authority \in Wallets, NEW recipient \in Wallets, NEW amount \in Amounts,
             NEW tx \in Transactions, NEW i \in 1..Len(tx.names),
             Execute(authority, recipient, amount, tx, i)
      PROVE  UNCHANGED friendGate
  BY <1>5 DEF Execute, Gate!CheckTransfer
<1> QED
  BY <1>1, <1>2, <1>3, <1>4, <1>5, StepCases

\* Under the hook each rule behaves as its own specification says, whatever
\* the other five do and whoever calls: no transfer, direct call or change
\* of settings takes a rule through a step of which its module knows nothing,
\* so that every safety property of a rule alone holds here.
THEOREM RulesUnderHook ==
    Spec => /\ Daily!Spec /\ Block!Spec /\ Cool!Spec
            /\ Slow!Spec /\ Window!Spec /\ Gate!Spec
<1>1. Init => /\ Daily!Init /\ Block!Init /\ Cool!Init
              /\ Slow!Init /\ Window!Init /\ Gate!Init
  BY DEF Init
<1>2. Spec => Daily!Spec
  BY <1>1, DailyStep, PTL DEF Spec, Daily!Spec, Daily!vars
<1>3. Spec => Block!Spec
  BY <1>1, BlockStep, PTL DEF Spec, Block!Spec
<1>4. Spec => Cool!Spec
  BY <1>1, CoolStep, PTL DEF Spec, Cool!Spec, Cool!vars
<1>5. Spec => Slow!Spec
  BY <1>1, SlowStep, PTL DEF Spec, Slow!Spec, Slow!vars
<1>6. Spec => Window!Spec
  BY <1>1, WindowStep, PTL DEF Spec, Window!Spec, Window!vars
<1>7. Spec => Gate!Spec
  BY <1>1, GateStep, PTL DEF Spec, Gate!Spec
<1> QED
  BY <1>2, <1>3, <1>4, <1>5, <1>6, <1>7

-----------------------------------------------------------------------------
(* The time window, for a day of any length.  The arithmetic of            *)
(* check_transfer (a doubled remainder, two pairs of comparisons) is an    *)
(* interval on the dial of the clock, for every time of the clock's type   *)
(* and every window.                                                       *)

\* A remainder is in the range of its modulus.
LEMMA ModRange ==
    ASSUME NEW n \in Nat \ {0}, NEW x \in Int
    PROVE  x % n \in 0..(n - 1)
  BY SMTT(30)

\* Small numbers are their own remainder, also a whole modulus further on.
LEMMA ModSmall ==
    ASSUME NEW n \in Nat \ {0}, NEW x \in 0..(n - 1)
    PROVE  x % n = x /\ (x + n) % n = x
  BY SMTT(30)

\* The remainder of a negative number of small size.
LEMMA ModNegative ==
    ASSUME NEW n \in Nat \ {0}, NEW x \in 1..(n - 1)
    PROVE  (-x) % n = n - x
  BY SMTT(30)

\* Division with remainder.
LEMMA QuotientAndRemainder ==
    ASSUME NEW n \in Nat \ {0}, NEW x \in Int
    PROVE  x \div n \in Int /\ x = n * (x \div n) + (x % n)
  BY SMTT(30)

\* There is one remainder in range.
LEMMA RemainderIsUnique ==
    ASSUME NEW n \in Nat \ {0}, NEW x \in Int, NEW q \in Int, NEW r \in 0..(n - 1),
           x = n * q + r
    PROVE  x % n = r
  BY SMTT(30)

\* The remainder of the negated time is what is missing to a full day.
LEMMA ModOfNegated ==
    ASSUME NEW n \in Nat \ {0}, NEW x \in Nat
    PROVE  (-x) % n = (n - (x % n)) % n
<1> DEFINE q == x \div n
           r == x % n
<1>1. q \in Int /\ r \in 0..(n - 1) /\ x = n * q + r
  BY QuotientAndRemainder, ModRange
<1> HIDE DEF q, r
<1>2. CASE r = 0
  <2>1. -q \in Int /\ -x \in Int /\ 0 \in 0..(n - 1)
    BY <1>1
  <2>2. (-x) % n = 0
    <3>1. -x = n * (-q) + 0
      BY <1>1, <1>2
    <3>2. QED
      BY ONLY <2>1, <3>1, RemainderIsUnique
  <2>3. (n - r) % n = 0
    BY <1>2, ModSmall
  <2>4. QED
    BY <2>2, <2>3 DEF r
<1>3. CASE r # 0
  <2>1. n - r \in 0..(n - 1) /\ -q - 1 \in Int /\ -x \in Int
    BY <1>1, <1>3
  <2>2. -x = n * (-q - 1) + (n - r)
    BY <1>1, SMTT(30)
  <2>3. (-x) % n = n - r
    BY <2>1, <2>2, RemainderIsUnique
  <2>4. (n - r) % n = n - r
    BY <2>1, ModSmall
  <2>5. QED
    BY <2>3, <2>4 DEF r
<1>4. QED
  BY <1>2, <1>3

\* A time within the day has an hour of the day.
LEMMA DivBound ==
    ASSUME NEW h \in Nat \ {0}, NEW s \in Nat \ {0}, NEW x \in Nat, x < h * s
    PROVE  x \div s \in 0..(h - 1)
  BY SMTT(30)

\* A day has at least one second.
LEMMA DayIsPositive == Window!SecondsPerDay \in Nat \ {0}
<1>1. HoursPerDay \in Nat \ {0} /\ SecondsPerHour \in Nat \ {0}
  BY RulesAssumption DEF Window!TimeWindowAssumption
<1>2. QED
  BY <1>1, SMTT(30) DEF Window!SecondsPerDay

\* The doubled remainder of check_transfer gives the hour of the day for
\* every time, also one before 1970, where Rust's remainder is negative.
THEOREM HourOfAnyTime ==
    ASSUME NEW t \in Int
    PROVE  /\ Window!HourOf(t) = (t % Window!SecondsPerDay) \div SecondsPerHour
           /\ Window!HourOf(t) \in 0..(HoursPerDay - 1)
<1> DEFINE day == Window!SecondsPerDay
           r == Window!Rem(Window!Rem(t, day) + day, day)
<1>1. day \in Nat \ {0}
  BY DayIsPositive
<1> HIDE DEF day
<1>2. r = t % day
  <2>1. CASE t >= 0
    <3>1. Window!Rem(t, day) = t % day /\ t % day \in 0..(day - 1)
      BY <1>1, <2>1, ModRange DEF Window!Rem
    <3>2. r = ((t % day) + day) % day
      BY <1>1, <3>1 DEF Window!Rem
    <3>3. QED
      BY <1>1, <3>1, <3>2, ModSmall
  <2>2. CASE t < 0
    <3> DEFINE m == (-t) % day
    <3>1. m \in 0..(day - 1) /\ -t \in Nat
      BY <1>1, <2>2, ModRange
    <3>2. Window!Rem(t, day) = -m
      BY <2>2 DEF Window!Rem
    <3>3. r = (-m + day) % day
      BY <1>1, <3>1, <3>2 DEF Window!Rem
    <3>4. (-(-t)) % day = (day - m) % day
      BY <1>1, <3>1, ModOfNegated
    <3>5. -(-t) = t /\ -m + day = day - m
      BY <1>1, <3>1
    <3>6. QED
      BY <3>3, <3>4, <3>5
  <2>3. QED
    BY <2>1, <2>2
<1>3. Window!HourOf(t) = r \div SecondsPerHour
  BY DEF Window!HourOf, day
<1>4. r \div SecondsPerHour \in 0..(HoursPerDay - 1)
  <2>1. r \in Nat /\ r < HoursPerDay * SecondsPerHour
    BY <1>1, <1>2, ModRange DEF day, Window!SecondsPerDay
  <2>2. QED
    BY <2>1, DivBound, RulesAssumption DEF Window!TimeWindowAssumption
<1>5. QED
  BY <1>2, <1>3, <1>4 DEF day

\* The distance clockwise from a to b, without the remainder.
LEMMA ClockwiseCases ==
    ASSUME NEW a \in 0..(HoursPerDay - 1), NEW b \in 0..(HoursPerDay - 1)
    PROVE  Window!Clockwise(a, b) = IF a <= b THEN b - a ELSE HoursPerDay - (a - b)
<1>0. HoursPerDay \in Nat \ {0}
  BY RulesAssumption DEF Window!TimeWindowAssumption
<1>1. CASE a <= b
  <2>1. b - a \in 0..(HoursPerDay - 1)
    BY <1>0, <1>1
  <2>2. QED
    BY <1>0, <1>1, <2>1, ModSmall DEF Window!Clockwise
<1>2. CASE ~(a <= b)
  <2>1. a - b \in 1..(HoursPerDay - 1) /\ b - a = -(a - b)
    BY <1>0, <1>2
  <2>2. (-(a - b)) % HoursPerDay = HoursPerDay - (a - b)
    BY <1>0, <2>1, ModNegative
  <2>3. QED
    BY <1>2, <2>1, <2>2 DEF Window!Clockwise
<1>3. QED
  BY <1>1, <1>2

\* The comparisons of check_transfer, with and without a wrap past midnight,
\* are the interval from start_hour, included, to end_hour, not included.
LEMMA BlockedIsAnInterval ==
    ASSUME NEW w \in Window!Windows, NEW hour \in 0..(HoursPerDay - 1)
    PROVE  Window!Blocked(w, hour)
             <=> Window!Clockwise(w.start_hour, hour)
                   < Window!Clockwise(w.start_hour, w.end_hour)
<1>1. /\ w.start_hour \in 0..(HoursPerDay - 1) /\ w.end_hour \in 0..(HoursPerDay - 1)
      /\ HoursPerDay \in Nat \ {0}
  BY RulesAssumption DEF Window!TimeWindowAssumption, Window!Windows
<1>2. /\ Window!Clockwise(w.start_hour, hour) =
           IF w.start_hour <= hour THEN hour - w.start_hour
           ELSE HoursPerDay - (w.start_hour - hour)
      /\ Window!Clockwise(w.start_hour, w.end_hour) =
           IF w.start_hour <= w.end_hour THEN w.end_hour - w.start_hour
           ELSE HoursPerDay - (w.start_hour - w.end_hour)
  BY <1>1, ClockwiseCases
<1>3. QED
  BY <1>1, <1>2 DEF Window!Blocked

\* set_time_window stores hours of the day only.
LEMMA WindowTypes == Window!Spec => []Window!TypeOK
<1> USE RulesAssumption DEF Window!TimeWindowAssumption, Window!TypeOK, Window!Windows
<1>1. Window!Init => Window!TypeOK
  BY DEF Window!Init
<1>2. Window!TypeOK /\ [Window!Next]_<<timeWindow, now>> => Window!TypeOK'
  <2> SUFFICES ASSUME Window!TypeOK, [Window!Next]_<<timeWindow, now>> PROVE Window!TypeOK'
    OBVIOUS
  <2>1. CASE Window!Tick
    BY <2>1 DEF Window!Tick
  <2>2. ASSUME NEW k \in Wallets, NEW start_hour \in Hours, NEW end_hour \in Hours,
               Window!SetTimeWindow(k, start_hour, end_hour), UNCHANGED now
        PROVE  Window!TypeOK'
    BY <2>2 DEF Window!SetTimeWindow
  <2>3. CASE \E k \in Wallets : Window!DisableTimeWindow(k) /\ UNCHANGED now
    BY <2>3 DEF Window!DisableTimeWindow
  <2>4. CASE UNCHANGED <<timeWindow, now>>
    BY <2>4 DEF Window!vars
  <2>5. CASE \E k \in Wallets : Window!CheckTransfer(k) /\ UNCHANGED now
    BY <2>5 DEF Window!CheckTransfer
  <2>6. QED
    BY <2>1, <2>2, <2>3, <2>4, <2>5 DEF Window!Next
<1>3. QED
  BY <1>1, <1>2, PTL DEF Window!Spec, Window!vars

\* Whatever is stored and whatever the time, a transfer is refused exactly
\* during the blocked hours, for a day of any length and under the hook.
THEOREM RefusalIsExact == Spec => []RefusedExactlyWithin
<1>1. Window!TypeOK => RefusedExactlyWithin
  <2> SUFFICES ASSUME Window!TypeOK, NEW k \in Wallets, Window!Configured(k)
               PROVE  LET w == timeWindow[k]
                          hour == (now % Window!SecondsPerDay) \div SecondsPerHour
                      IN  ~Window!Approves(k) <=> Window!Clockwise(w.start_hour, hour)
                                                    < Window!Clockwise(w.start_hour, w.end_hour)
    BY DEF RefusedExactlyWithin, Window!RefusedExactlyWithin
  <2>1. timeWindow[k] \in Window!Windows /\ now \in Int
    BY DEF Window!TypeOK, Window!Configured
  <2>2. /\ Window!HourOf(now) = (now % Window!SecondsPerDay) \div SecondsPerHour
        /\ Window!HourOf(now) \in 0..(HoursPerDay - 1)
    BY <2>1, HourOfAnyTime
  <2>3. Window!Approves(k) <=> ~Window!Blocked(timeWindow[k], Window!HourOf(now))
    BY DEF Window!Approves
  <2>4. Window!Blocked(timeWindow[k], Window!HourOf(now))
          <=> Window!Clockwise(timeWindow[k].start_hour, Window!HourOf(now))
                < Window!Clockwise(timeWindow[k].start_hour, timeWindow[k].end_hour)
    BY <2>1, <2>2, BlockedIsAnInterval
  <2>5. QED
    BY <2>2, <2>3, <2>4
<1>2. QED
  BY <1>1, RulesUnderHook, WindowTypes, PTL

-----------------------------------------------------------------------------
(* Types. *)

\* The proofs about each rule; their history variables play no part here.
DailyProofs  == INSTANCE DailyLimitProofs
                  WITH Keys <- Wallets, approved <- NoAccount, peak <- NoAccount
BlockProofs  == INSTANCE BlockListProofs WITH Keys <- Wallets, asked <- NoAccount
CoolProofs   == INSTANCE CooloffProofs
                  WITH Keys <- Wallets, Thresholds <- CooloffThresholds, MaxApprovals <- 0,
                       passed <- NoAccount, highest <- NoAccount, shortest <- NoAccount

\* A step of the daily limit keeps its types: that is from the proofs about
\* it, whose assumption is one of the hook's.
LEMMA DailyTypeStep == Daily!TypeOK /\ [Daily!Next]_<<dailyLimit, slot>> => Daily!TypeOK'
<1>1. DailyProofs!DailyLimitAssumption
  BY RulesAssumption DEF Daily!DailyLimitAssumption, DailyProofs!DailyLimitAssumption
<1>2. [Daily!Next]_<<dailyLimit, slot>> => [DailyProofs!Next]_DailyProofs!vars
  BY DEF Daily!Next, Daily!Tick, Daily!SetLimit, Daily!CheckTransfer, Daily!Approves,
         Daily!Configured, Daily!WithTransfer, Daily!RollWindow, DailyProofs!vars,
         DailyProofs!Next, DailyProofs!Tick, DailyProofs!SetLimit, DailyProofs!CheckTransfer,
         DailyProofs!Approves, DailyProofs!Configured, DailyProofs!WithTransfer,
         DailyProofs!RollWindow
<1>3. /\ Daily!TypeOK <=> DailyProofs!TypeOK
      /\ Daily!TypeOK' <=> DailyProofs!TypeOK'
  BY DEF Daily!TypeOK, DailyProofs!TypeOK, Daily!Configured, DailyProofs!Configured,
     Daily!Accounts, DailyProofs!Accounts
<1> QED
  BY <1>1, <1>2, <1>3, DailyProofs!TypeStep

\* So the daily limit keeps its types under the hook.
LEMMA DailyTypes == Daily!Spec => []Daily!TypeOK
<1>1. Daily!Init => Daily!TypeOK
  BY RulesAssumption
     DEF Daily!DailyLimitAssumption, Daily!Init, Daily!TypeOK, Daily!Configured
<1> QED
  BY <1>1, DailyTypeStep, PTL DEF Daily!Spec, Daily!vars

\* The types of the block list, likewise.
LEMMA BlockTypes == Block!Spec => []Block!TypeOK
<1>1. BlockProofs!BlockListAssumption
  BY RulesAssumption DEF Block!BlockListAssumption, BlockProofs!BlockListAssumption
<1>2. Block!Init => BlockProofs!Init
  BY DEF Block!Init, BlockProofs!Init
<1>3. [Block!Next]_blockList => [BlockProofs!Next]_blockList
  BY DEF Block!Next, Block!AddBlocked, Block!RemoveBlocked, Block!CheckTransfer,
         Block!Approves,
         Block!Configured, Block!Find, Block!FirstEmpty, Block!Empty, Block!Slots,
         BlockProofs!Next, BlockProofs!AddBlocked, BlockProofs!RemoveBlocked,
         BlockProofs!CheckTransfer, BlockProofs!Approves,
         BlockProofs!Configured, BlockProofs!Find, BlockProofs!FirstEmpty, BlockProofs!Empty,
         BlockProofs!Slots
<1>4. BlockProofs!TypeOK => Block!TypeOK
  BY DEF Block!TypeOK, BlockProofs!TypeOK, Block!Slots, BlockProofs!Slots
<1>5. Block!Spec => BlockProofs!Spec
  BY <1>2, <1>3, PTL
     DEF Block!Spec, BlockProofs!Spec
<1> QED
  BY <1>1, <1>4, <1>5, BlockProofs!TypeCorrect, PTL

\* A step of the cool-off keeps its types, likewise.
LEMMA CoolTypeStep == Cool!TypeOK /\ [Cool!Next]_<<cooloff, now>> => Cool!TypeOK'
<1>1. CoolProofs!CooloffAssumption
  BY RulesAssumption DEF Cool!CooloffAssumption, CoolProofs!CooloffAssumption
<1>2. [Cool!Next]_<<cooloff, now>> => [CoolProofs!Next]_CoolProofs!vars
  BY DEF Cool!Next, Cool!Tick, Cool!SetCooloff, Cool!DisableCooloff, Cool!CheckTransfer,
         Cool!Approves, Cool!Configured, Cool!IsLarge, CoolProofs!vars,
         CoolProofs!Next, CoolProofs!Tick, CoolProofs!SetCooloff, CoolProofs!DisableCooloff,
         CoolProofs!CheckTransfer, CoolProofs!Approves, CoolProofs!Configured,
         CoolProofs!IsLarge
<1>3. /\ Cool!TypeOK <=> CoolProofs!TypeOK
      /\ Cool!TypeOK' <=> CoolProofs!TypeOK'
  BY DEF Cool!TypeOK, CoolProofs!TypeOK, Cool!Configured, CoolProofs!Configured,
     Cool!Accounts, CoolProofs!Accounts
<1> QED
  BY <1>1, <1>2, <1>3, CoolProofs!TypeStep

\* So the cool-off keeps its types under the hook.
LEMMA CoolTypes == Cool!Spec => []Cool!TypeOK
<1>1. Cool!Init => Cool!TypeOK
  BY RulesAssumption
     DEF Cool!CooloffAssumption, Cool!Init, Cool!TypeOK, Cool!Configured
<1> QED
  BY <1>1, CoolTypeStep, PTL DEF Cool!Spec, Cool!vars

\* The types of slow send, by the argument of SdkClientProofs, whose theorems
\* are about a wallet's client as well.
LEMMA SlowTypes == Slow!Spec => []Slow!TypeOK
<1> DEFINE Contacts == [Wallets -> Nat \cup {NoAccount}]
           Kept == \A k \in Wallets, r \in Wallets :
                     contact'[k][r] # NoAccount => contact'[k][r] <= now'
<1>0. Slow!SlowSendAssumption
  BY RulesAssumption
<1>1. Slow!Init => Slow!TypeOK
  BY <1>0 DEF Slow!SlowSendAssumption, Slow!Init, Slow!TypeOK, Slow!Registered
<1>2. ASSUME Slow!TypeOK, [Slow!Next]_<<slowSend, contact, now>> PROVE Slow!TypeOK'
  <2>1. /\ now \in Nat /\ slowSend \in [Wallets -> 1..MaxDelay \cup {NoAccount}]
        /\ contact \in [Wallets -> Contacts]
        /\ \A k \in Wallets, r \in Wallets : contact[k][r] # NoAccount => contact[k][r] <= now
    BY <1>2 DEF Slow!TypeOK, Slow!Registered
  <2>2. ASSUME now' \in Nat, slowSend' \in [Wallets -> 1..MaxDelay \cup {NoAccount}],
               contact' \in [Wallets -> Contacts], Kept
        PROVE  Slow!TypeOK'
    BY <2>2 DEF Slow!TypeOK, Slow!Registered
  <2>3. ASSUME Slow!Tick PROVE Slow!TypeOK'
    <3>1. now' \in Nat /\ now <= now' /\ UNCHANGED <<slowSend, contact>>
      BY <1>0, <2>1, <2>3 DEF Slow!Tick, Slow!SlowSendAssumption
    <3>2. ASSUME NEW k \in Wallets, NEW r \in Wallets, contact[k][r] # NoAccount
          PROVE  contact[k][r] <= now'
      <4>1. contact[k][r] \in Nat /\ contact[k][r] <= now
        BY <2>1, <3>2
      <4> QED
        BY <2>1, <3>1, <4>1
    <3> QED
      BY <2>1, <2>2, <3>1, <3>2
  <2>4. ASSUME NEW k \in Wallets, NEW d \in Delays, Slow!SetSlowSend(k, d), UNCHANGED now
        PROVE  Slow!TypeOK'
    <3>1. d \in 1..MaxDelay
      BY <1>0, <2>4 DEF Slow!SetSlowSend, Slow!SlowSendAssumption
    <3> QED
      BY <2>1, <2>2, <2>4, <3>1 DEF Slow!SetSlowSend
  <2>5. ASSUME NEW k \in Wallets, Slow!DisableSlowSend(k), UNCHANGED now PROVE Slow!TypeOK'
    BY <2>1, <2>2, <2>5 DEF Slow!DisableSlowSend
  <2>6. ASSUME NEW k \in Wallets, NEW r \in Wallets, Slow!RegisterRecipient(k, r), UNCHANGED now
        PROVE  Slow!TypeOK'
    <3>1. contact' = [contact EXCEPT ![k] = [contact[k] EXCEPT ![r] = now]]
          /\ UNCHANGED slowSend
      BY <2>6 DEF Slow!RegisterRecipient
    <3>2. contact[k] \in Contacts /\ [contact[k] EXCEPT ![r] = now] \in Contacts
      BY <2>1
    <3>3. contact' \in [Wallets -> Contacts]
      BY <2>1, <3>1, <3>2
    <3>4. ASSUME NEW j \in Wallets, NEW q \in Wallets, contact'[j][q] # NoAccount
          PROVE  contact'[j][q] <= now'
      <4>1. CASE j = k /\ q = r
        BY <2>1, <2>6, <3>1, <3>2, <4>1
      <4>2. CASE j = k /\ q # r
        BY <2>1, <2>6, <3>1, <3>2, <3>4, <4>2
      <4>3. CASE j # k
        BY <2>1, <2>6, <3>1, <3>4, <4>3
      <4> QED
        BY <4>1, <4>2, <4>3
    <3> QED
      BY <2>1, <2>2, <2>6, <3>1, <3>3, <3>4
  <2>7. ASSUME UNCHANGED <<slowSend, contact, now>> PROVE Slow!TypeOK'
    BY <2>1, <2>2, <2>7
  <2> QED
    BY <1>2, <2>3, <2>4, <2>5, <2>6, <2>7 DEF Slow!Next, Slow!CheckTransfer
<1> QED
  BY <1>1, <1>2, PTL DEF Slow!Spec, Slow!vars

\* The part of the state that no rule keeps, and the gate, have their types.
Rest == Gate!TypeOK /\ meta_list \in BOOLEAN /\ balance \in [Wallets -> Nat]

\* Tokens that are there can be moved.
LEMMA MovedType ==
    ASSUME balance \in [Wallets -> Nat], NEW amount \in Amounts, NEW recipient \in Wallets,
           NEW source \in Wallets, source # recipient, amount <= balance[source],
           balance' = Moved(source, recipient, amount)
    PROVE  balance' \in [Wallets -> Nat]
<1>1. amount \in Nat
  BY RulesAssumption DEF Cool!CooloffAssumption
<1>2. balance[source] - amount \in Nat /\ balance[recipient] + amount \in Nat
  BY <1>1
<1> QED
  BY <1>2 DEF Moved

\* A step keeps the types of that part.
LEMMA RestStep ==
    ASSUME Rest, [Next]_vars
    PROVE  Rest'
<1> USE StedeHookAssumption
<1>1. Gate!TypeOK'
  <2>1. CASE UNCHANGED friendGate
    BY <2>1 DEF Rest, Gate!TypeOK, Gate!Configured
  <2>2. ASSUME NEW k \in Wallets, NEW t \in GateThresholds, NEW w \in Wallets \cup {Default},
               Gate!SetFriendGate(k, t, w)
        PROVE  Gate!TypeOK'
    <3> DEFINE pda == [threshold |-> t, friend_wallet |-> w]
    <3>1. t \in Nat \ {0} /\ w \in Wallets /\ w # k
      BY <2>2 DEF Gate!SetFriendGate
    <3>2. friendGate' = [friendGate EXCEPT ![k] = pda]
      BY <2>2 DEF Gate!SetFriendGate
    <3>3. pda \in [threshold : Nat \ {0}, friend_wallet : Wallets] /\ pda.friend_wallet = w
      BY <3>1
    <3> HIDE DEF pda
    <3> QED
      BY <3>1, <3>2, <3>3 DEF Rest, Gate!TypeOK, Gate!Configured
  <2>3. ASSUME NEW k \in Wallets, Gate!DisableFriendGate(k) PROVE Gate!TypeOK'
    BY <2>3 DEF Rest, Gate!TypeOK, Gate!Configured, Gate!DisableFriendGate
  <2> QED
    BY <2>1, <2>2, <2>3, GateStep DEF Gate!Next
<1>2. meta_list' \in BOOLEAN
  <2>1. meta_list' = meta_list \/ meta_list' = TRUE
    BY DEF Next, vars, Tick, InitializeExtraAccountMetaList, ChangeRules, DirectCheck,
           Transfer, DirectExecute, Execute
  <2> QED
    BY <2>1 DEF Rest
<1>3. balance' \in [Wallets -> Nat]
  <2>1. CASE UNCHANGED balance
    BY <2>1 DEF Rest
  <2> QED
    BY <2>1, MovedType DEF Rest, Next, vars, Tick, InitializeExtraAccountMetaList,
                           ChangeRules, DirectCheck, Transfer, DirectExecute
<1> QED
  BY <1>1, <1>2, <1>3 DEF Rest

\* Every account keeps a value of its type however the hook, the rules and
\* their settings are called; no balance goes below zero.
THEOREM TypeCorrect == Spec => []TypeOK
<1>1. Init => Rest
  BY StedeHookAssumption DEF Init, Rest, Gate!TypeOK, Gate!Init, Gate!Configured
<1>2. Spec => []Rest
  BY <1>1, RestStep, PTL DEF Spec
<1>3. Daily!TypeOK /\ Block!TypeOK /\ Cool!TypeOK /\ Slow!TypeOK /\ Window!TypeOK /\ Rest
        => TypeOK
  BY DEF Rest, TypeOK
<1> QED
  BY <1>2, <1>3, RulesUnderHook, DailyTypes, BlockTypes, CoolTypes, SlowTypes, WindowTypes, PTL

-----------------------------------------------------------------------------
(* The pipeline implements the hook. *)

\* What each rule answers to the call being executed, on the accounts as
\* they were committed.
DailyPasses  == Atomic!Daily!Approves(call.authority, call.amount)
BlockPasses  == Block!Approves(call.authority, call.recipient)
CoolPasses   == Atomic!Cool!Approves(call.authority, call.amount)
SlowPasses   == Slow!Approves(call.authority, call.recipient)
WindowPasses == Window!Approves(call.authority)
GatePasses   == Gate!Approves(call.authority, call.amount, call.tx, call.index)

\* What the two rules that write leave behind when they pass it.
DailyAfter ==
    IF Atomic!Daily!Configured(call.authority)
    THEN [committed.dailyLimit EXCEPT ![call.authority] =
            Atomic!Daily!WithTransfer(@, call.amount)]
    ELSE committed.dailyLimit

CooloffAfter ==
    IF Atomic!Cool!IsLarge(call.authority, call.amount)
    THEN [committed.cooloff EXCEPT ![call.authority].last_large_transfer_at = now]
    ELSE committed.cooloff

\* The call was begun as Token-2022 does, and the tokens are where it put
\* them.
Begun ==
    /\ call \in Calls
    /\ call.recipient \in Payees
    /\ call.index \in 1..Len(call.tx.names)
    /\ call.authority \in {call.source, Delegates[call.source]}
    /\ Authorises(call.authority, call.tx, call.index)
    /\ call.source # call.recipient
    /\ call.amount <= committed.balance[call.source]
    /\ balance = Atomic!Moved(call.source, call.recipient, call.amount)

\* The rules asked so far pass the call, and those that write have written.
AskedSoFar ==
    /\ dailyLimit = IF call.stage = "daily" THEN committed.dailyLimit ELSE DailyAfter
    /\ cooloff = IF call.stage \in {"daily", "block", "cooloff"}
                 THEN committed.cooloff ELSE CooloffAfter
    /\ call.stage # "daily" => meta_list /\ DailyPasses
    /\ call.stage \notin {"daily", "block"} => BlockPasses
    /\ call.stage \in {"slow", "window", "gate", "passed"} => CoolPasses
    /\ call.stage \in {"window", "gate", "passed"} => SlowPasses
    /\ call.stage \in {"gate", "passed"} => WindowPasses
    /\ call.stage = "passed" => GatePasses

\* Between transactions what is committed is what the programs see.
Settled ==
    /\ dailyLimit = committed.dailyLimit
    /\ cooloff = committed.cooloff
    /\ balance = committed.balance

PInv == (Idle => Settled) /\ (~Idle => Begun /\ AskedSoFar)

\* The accounts a call under way reads and does not write.
others == <<blockList, slowSend, contact, timeWindow, friendGate>>

\* A call that goes on differs in its stage only, and while no account but
\* those of the two writing rules changes the answers stay.
LEMMA NextStage ==
    ASSUME PInv, NEW stage \in Stages, NEW next \in Stages, At(stage, next), UNCHANGED others
    PROVE  /\ Begun /\ AskedSoFar /\ ~Idle'
           /\ call.stage = stage /\ call'.stage = next
           /\ Begun' /\ UNCHANGED <<clock, meta_list, balance, committed>>
           /\ UNCHANGED <<DailyAfter, CooloffAfter>>
           /\ DailyPasses' = DailyPasses /\ BlockPasses' = BlockPasses
           /\ CoolPasses' = CoolPasses /\ SlowPasses' = SlowPasses
           /\ WindowPasses' = WindowPasses /\ GatePasses' = GatePasses
<1>1. Begun /\ AskedSoFar /\ call.stage = stage /\ call' = [call EXCEPT !.stage = next]
  BY DEF PInv, At
<1>2. /\ call' \in Calls /\ call'.stage = next
      /\ call'.authority = call.authority /\ call'.source = call.source
      /\ call'.recipient = call.recipient /\ call'.amount = call.amount
      /\ call'.tx = call.tx /\ call'.index = call.index
  BY <1>1 DEF Begun, Calls
<1>3. ~Idle'
  BY <1>2, HookPipelineAssumption DEF Idle
<1>4. UNCHANGED <<clock, meta_list, balance, committed>> /\ UNCHANGED <<slot, now>>
  BY DEF At, clock
<1>5. Begun'
  BY <1>1, <1>2, <1>4 DEF Begun, Authorises, Atomic!Moved
<1>6. UNCHANGED <<DailyAfter, CooloffAfter>>
  BY <1>2, <1>4 DEF DailyAfter, CooloffAfter, Atomic!Daily!Configured, Atomic!Cool!IsLarge,
       Atomic!Daily!WithTransfer, Atomic!Daily!RollWindow, Atomic!Cool!Configured
<1>7. DailyPasses' = DailyPasses
  BY <1>2, <1>4 DEF DailyPasses, Atomic!Daily!Approves, Atomic!Daily!Configured,
       Atomic!Daily!WithTransfer, Atomic!Daily!RollWindow
<1>8. BlockPasses' = BlockPasses
  BY <1>2 DEF BlockPasses, Block!Approves, Block!Configured, Block!Find, others
<1>9. CoolPasses' = CoolPasses
  BY <1>2, <1>4 DEF CoolPasses, Atomic!Cool!Approves, Atomic!Cool!IsLarge,
       Atomic!Cool!Configured
<1>10. SlowPasses' = SlowPasses
  BY <1>2, <1>4 DEF SlowPasses, Slow!Approves, Slow!Enabled, Slow!Ripe, Slow!Registered, others
<1>11. WindowPasses' = WindowPasses
  BY <1>2, <1>4 DEF WindowPasses, Window!Approves, Window!Configured, Window!HourOf, others
<1>12. GatePasses' = GatePasses
  BY <1>2 DEF GatePasses, Gate!Approves, Gate!Configured, Gate!SignersSeen, others
<1> QED
  BY <1>1, <1>2, <1>3, <1>4, <1>5, <1>6, <1>7, <1>8, <1>9, <1>10, <1>11, <1>12

\* Each rule is asked of the accounts as committed, except that the earlier
\* ones have left theirs; nothing is committed meanwhile.
LEMMA AskStep ==
    ASSUME PInv,
           AskDailyLimit \/ AskBlockList \/ AskCooloff \/ AskSlowSend
             \/ AskTimeWindow \/ AskFriendGate
    PROVE  PInv' /\ UNCHANGED Atomic!vars
<1> USE DEF Stages
<1>1. CASE AskDailyLimit
  <2>1. /\ At("daily", "block") /\ UNCHANGED others /\ UNCHANGED cooloff /\ meta_list
        /\ Daily!CheckTransfer(call.authority, call.amount)
    BY <1>1 DEF AskDailyLimit, others
  <2>2. /\ Begun' /\ AskedSoFar /\ call.stage = "daily" /\ call'.stage = "block"
        /\ UNCHANGED <<slot, now, meta_list, balance, committed>>
        /\ DailyAfter' = DailyAfter /\ DailyPasses' = DailyPasses /\ ~Idle'
    BY <2>1, NextStage DEF clock
  <2>3. dailyLimit = committed.dailyLimit
    BY <2>2 DEF AskedSoFar
  <2>4. DailyPasses
    BY <2>1, <2>3 DEF DailyPasses, Daily!CheckTransfer, Daily!Approves, Daily!Configured,
         Daily!WithTransfer, Daily!RollWindow, Atomic!Daily!Approves,
         Atomic!Daily!Configured, Atomic!Daily!WithTransfer, Atomic!Daily!RollWindow
  <2>5. dailyLimit' = DailyAfter
    BY <2>1, <2>3 DEF DailyAfter, Daily!CheckTransfer, Daily!Configured, Daily!WithTransfer,
         Daily!RollWindow, Atomic!Daily!Configured, Atomic!Daily!WithTransfer,
         Atomic!Daily!RollWindow
  <2> QED
    BY <2>1, <2>2, <2>4, <2>5
       DEF PInv, AskedSoFar, others, Atomic!vars, Atomic!rules, Atomic!clock
<1>2. CASE AskBlockList
  <2>1. /\ At("block", "cooloff") /\ UNCHANGED others /\ UNCHANGED <<dailyLimit, cooloff>>
        /\ BlockPasses
    BY <1>2 DEF AskBlockList, Block!CheckTransfer, BlockPasses, others
  <2> QED
    BY <2>1, NextStage
       DEF PInv, AskedSoFar, others, Atomic!vars, Atomic!rules, Atomic!clock, clock
<1>3. CASE AskCooloff
  <2>1. /\ At("cooloff", "slow") /\ UNCHANGED others /\ UNCHANGED dailyLimit
        /\ Cool!CheckTransfer(call.authority, call.amount)
    BY <1>3 DEF AskCooloff, others
  <2>2. /\ AskedSoFar /\ call.stage = "cooloff"
    BY <2>1, NextStage
  <2>3. cooloff = committed.cooloff
    BY <2>2 DEF AskedSoFar
  <2>4. CoolPasses
    BY <2>1, <2>3 DEF CoolPasses, Cool!CheckTransfer, Cool!Approves, Cool!IsLarge,
         Cool!Configured, Atomic!Cool!Approves, Atomic!Cool!IsLarge, Atomic!Cool!Configured
  <2>5. cooloff' = CooloffAfter
    BY <2>1, <2>3 DEF CooloffAfter, Cool!CheckTransfer, Cool!IsLarge, Cool!Configured,
         Atomic!Cool!IsLarge, Atomic!Cool!Configured
  <2> QED
    BY <2>1, <2>4, <2>5, NextStage
       DEF PInv, AskedSoFar, others, Atomic!vars, Atomic!rules, Atomic!clock, clock
<1>4. CASE AskSlowSend
  <2>1. /\ At("slow", "window") /\ UNCHANGED others /\ UNCHANGED <<dailyLimit, cooloff>>
        /\ SlowPasses
    BY <1>4 DEF AskSlowSend, Slow!CheckTransfer, SlowPasses, others
  <2> QED
    BY <2>1, NextStage
       DEF PInv, AskedSoFar, others, Atomic!vars, Atomic!rules, Atomic!clock, clock
<1>5. CASE AskTimeWindow
  <2>1. /\ At("window", "gate") /\ UNCHANGED others /\ UNCHANGED <<dailyLimit, cooloff>>
        /\ WindowPasses
    BY <1>5 DEF AskTimeWindow, Window!CheckTransfer, WindowPasses, others
  <2> QED
    BY <2>1, NextStage
       DEF PInv, AskedSoFar, others, Atomic!vars, Atomic!rules, Atomic!clock, clock
<1>6. CASE AskFriendGate
  <2>1. /\ At("gate", "passed") /\ UNCHANGED others /\ UNCHANGED <<dailyLimit, cooloff>>
        /\ GatePasses
    BY <1>6 DEF AskFriendGate, Gate!CheckTransfer, GatePasses, others
  <2> QED
    BY <2>1, NextStage
       DEF PInv, AskedSoFar, others, Atomic!vars, Atomic!rules, Atomic!clock, clock
<1> QED
  BY <1>1, <1>2, <1>3, <1>4, <1>5, <1>6

\* Token-2022 has moved the tokens of a call that has begun, and nobody else
\* knows.
LEMMA BeginStep ==
    ASSUME PInv,
           NEW tx \in Transactions, NEW amount \in Amounts, NEW recipient \in Payees,
           NEW i \in 1..Len(tx.names), NEW source \in Wallets, NEW authority \in Wallets,
           Begin(authority, source, recipient, amount, tx, i)
    PROVE  PInv' /\ UNCHANGED Atomic!vars
<1>1. /\ Settled /\ UNCHANGED rules /\ UNCHANGED <<clock, meta_list, committed>>
      /\ call' = [stage |-> "daily", authority |-> authority, source |-> source,
                  recipient |-> recipient, amount |-> amount, tx |-> tx, index |-> i]
      /\ authority \in {source, Delegates[source]} /\ Authorises(authority, tx, i)
      /\ source # recipient /\ amount <= balance[source]
      /\ balance' = Moved(source, recipient, amount)
  BY DEF Begin, PInv
<1>2. /\ call'.stage = "daily" /\ call'.authority = authority /\ call'.source = source
      /\ call'.recipient = recipient /\ call'.amount = amount /\ call'.tx = tx
      /\ call'.index = i
  BY <1>1
<1>3. call' \in Calls
  <2>1. recipient \in Wallets /\ i \in Nat /\ "daily" \in Stages
    BY StedeHookAssumption DEF Stages
  <2> QED
    BY <1>1, <2>1 DEF Calls
<1>4. ~Idle'
  BY <1>3, HookPipelineAssumption DEF Idle
<1>5. Begun'
  BY <1>1, <1>2, <1>3 DEF Begun, Authorises, Moved, Atomic!Moved, Settled
<1>6. AskedSoFar'
  BY <1>1, <1>2 DEF AskedSoFar, Settled, rules
<1> QED
  BY <1>1, <1>4, <1>5, <1>6 DEF PInv, Atomic!vars, Atomic!rules, Atomic!clock, rules, clock

\* A call that fails leaves everything as it was committed.
LEMMA AbortStep ==
    ASSUME PInv, Abort
    PROVE  PInv' /\ UNCHANGED Atomic!vars
<1>1. Idle' /\ Settled'
  BY DEF Abort, Idle, Settled
<1> QED
  BY <1>1 DEF Abort, PInv, Atomic!vars, Atomic!rules, Atomic!clock, clock

\* A call that all six rules passed is committed as one transfer.
LEMMA CommitStep ==
    ASSUME PInv, Commit
    PROVE  PInv' /\ Atomic!Next
<1>1. /\ Begun /\ AskedSoFar /\ call.stage = "passed" /\ call' = None
      /\ committed' = Accounts
      /\ UNCHANGED <<dailyLimit, blockList, cooloff, slowSend, contact, timeWindow,
                     friendGate, slot, now, meta_list, balance>>
  BY DEF Commit, PInv, vars, rules, clock
<1>2. /\ committed'.dailyLimit = dailyLimit /\ committed'.cooloff = cooloff
      /\ committed'.balance = balance
  BY <1>1 DEF Accounts
<1>3. PInv'
  BY <1>1, <1>2 DEF PInv, Idle, Settled
<1>4. /\ dailyLimit = DailyAfter /\ cooloff = CooloffAfter /\ meta_list
      /\ DailyPasses /\ BlockPasses /\ CoolPasses /\ SlowPasses /\ WindowPasses /\ GatePasses
  BY <1>1 DEF AskedSoFar
<1>5. Atomic!Daily!CheckTransfer(call.authority, call.amount)
  BY <1>2, <1>4 DEF Atomic!Daily!CheckTransfer, DailyPasses, DailyAfter
<1>6. Atomic!Cool!CheckTransfer(call.authority, call.amount)
  BY <1>2, <1>4 DEF Atomic!Cool!CheckTransfer, CoolPasses, CooloffAfter
<1>7. Atomic!Block!CheckTransfer(call.authority, call.recipient)
  BY <1>1, <1>4 DEF Atomic!Block!CheckTransfer, BlockPasses, Block!Approves,
       Block!Configured, Block!Find, Block!Slots, Atomic!Block!Approves,
       Atomic!Block!Configured, Atomic!Block!Find, Atomic!Block!Slots
<1>8. Atomic!Slow!CheckTransfer(call.authority, call.recipient)
  BY <1>1, <1>4 DEF Atomic!Slow!CheckTransfer, SlowPasses, Slow!Approves, Slow!Enabled,
       Slow!Ripe, Slow!Registered, Atomic!Slow!Approves, Atomic!Slow!Enabled,
       Atomic!Slow!Ripe, Atomic!Slow!Registered
<1>9. Atomic!Window!CheckTransfer(call.authority)
  BY <1>1, <1>4 DEF Atomic!Window!CheckTransfer, WindowPasses, Window!Approves,
       Window!Configured, Window!Blocked, Window!HourOf, Window!Rem, Window!SecondsPerDay,
       Atomic!Window!Approves, Atomic!Window!Configured, Atomic!Window!Blocked,
       Atomic!Window!HourOf, Atomic!Window!Rem, Atomic!Window!SecondsPerDay
<1>10. Atomic!Gate!CheckTransfer(call.authority, call.amount, call.tx, call.index)
  BY <1>1, <1>4 DEF Atomic!Gate!CheckTransfer, GatePasses, Gate!Approves, Gate!Configured,
       Gate!SignersSeen, Atomic!Gate!Approves, Atomic!Gate!Configured,
       Atomic!Gate!SignersSeen
<1>11. Atomic!Transfer(call.authority, call.source, call.recipient, call.amount,
                       call.tx, call.index)
  BY <1>1, <1>2, <1>4, <1>5, <1>6, <1>7, <1>8, <1>9, <1>10
     DEF Begun, Authorises, Atomic!Transfer, Atomic!Authorises, Atomic!Execute, Atomic!clock
<1>12. /\ call.tx \in Transactions /\ call.amount \in Amounts /\ call.recipient \in Payees
       /\ call.index \in 1..Len(call.tx.names) /\ call.source \in Wallets
       /\ call.authority \in Wallets
  BY <1>1 DEF Begun, Calls
<1> QED
  BY <1>3, <1>11, <1>12 DEF Atomic!Next

\* Between transactions the specification says the same of the accounts the
\* programs see and of the accounts as committed.
LEMMA SameSettings ==
    ASSUME Settled, Settled', NEW w, ChangeRules(w)
    PROVE  Atomic!ChangeRules(w)
<1> USE DEF Settled
<1>1. /\ committed.dailyLimit = dailyLimit /\ committed'.dailyLimit = dailyLimit'
      /\ committed.cooloff = cooloff /\ committed'.cooloff = cooloff'
      /\ committed.balance = balance /\ committed'.balance = balance'
  OBVIOUS
<1> HIDE DEF Settled
<1>2. UNCHANGED <<slot, now, meta_list, balance>>
  BY DEF ChangeRules, clock
<1>3. ASSUME ChangeDailyLimit(w) PROVE Atomic!ChangeDailyLimit(w)
  BY ONLY <1>1, <1>3 DEF ChangeDailyLimit, Daily!SetLimit, Daily!Configured,
       Atomic!ChangeDailyLimit, Atomic!Daily!SetLimit, Atomic!Daily!Configured
<1>4. ASSUME ChangeBlockList(w) PROVE Atomic!ChangeBlockList(w)
  BY ONLY <1>1, <1>4 DEF ChangeBlockList, Block!AddBlocked, Block!RemoveBlocked,
       Block!Configured, Block!Find, Block!FirstEmpty, Block!Empty, Block!Slots,
       Atomic!ChangeBlockList, Atomic!Block!AddBlocked, Atomic!Block!RemoveBlocked,
       Atomic!Block!Configured, Atomic!Block!Find, Atomic!Block!FirstEmpty,
       Atomic!Block!Empty, Atomic!Block!Slots
<1>5. ASSUME ChangeCooloff(w) PROVE Atomic!ChangeCooloff(w)
  BY ONLY <1>1, <1>5 DEF ChangeCooloff, Cool!SetCooloff, Cool!DisableCooloff,
       Cool!Configured, Atomic!ChangeCooloff, Atomic!Cool!SetCooloff,
       Atomic!Cool!DisableCooloff, Atomic!Cool!Configured
<1>6. ASSUME ChangeSlowSend(w) PROVE Atomic!ChangeSlowSend(w)
  BY ONLY <1>1, <1>6 DEF ChangeSlowSend, Slow!SetSlowSend, Slow!DisableSlowSend,
       Slow!RegisterRecipient, Slow!Enabled, Slow!Registered,
       Atomic!ChangeSlowSend, Atomic!Slow!SetSlowSend, Atomic!Slow!DisableSlowSend,
       Atomic!Slow!RegisterRecipient, Atomic!Slow!Enabled, Atomic!Slow!Registered
<1>7. ASSUME ChangeTimeWindow(w) PROVE Atomic!ChangeTimeWindow(w)
  BY ONLY <1>1, <1>7 DEF ChangeTimeWindow, Window!SetTimeWindow, Window!DisableTimeWindow,
       Window!Configured, Atomic!ChangeTimeWindow, Atomic!Window!SetTimeWindow,
       Atomic!Window!DisableTimeWindow, Atomic!Window!Configured
<1>8. ASSUME ChangeFriendGate(w) PROVE Atomic!ChangeFriendGate(w)
  BY ONLY <1>1, <1>8 DEF ChangeFriendGate, Gate!SetFriendGate, Gate!DisableFriendGate,
       Gate!Configured, Atomic!ChangeFriendGate, Atomic!Gate!SetFriendGate,
       Atomic!Gate!DisableFriendGate, Atomic!Gate!Configured
<1> QED
  BY <1>1, <1>2, <1>3, <1>4, <1>5, <1>6, <1>7, <1>8
     DEF ChangeRules, Atomic!ChangeRules, Atomic!clock

\* The same of a direct check.
LEMMA SameCheck ==
    ASSUME Settled, Settled', NEW w, NEW amount, DirectCheck(w, amount)
    PROVE  Atomic!DirectCheck(w, amount)
<1>1. /\ committed.dailyLimit = dailyLimit /\ committed'.dailyLimit = dailyLimit'
      /\ committed.cooloff = cooloff /\ committed'.cooloff = cooloff'
      /\ committed.balance = balance /\ committed'.balance = balance'
  BY DEF Settled
<1>2. ASSUME Daily!CheckTransfer(w, amount) PROVE Atomic!Daily!CheckTransfer(w, amount)
  BY ONLY <1>1, <1>2 DEF Daily!CheckTransfer, Daily!Approves, Daily!Configured,
       Daily!WithTransfer, Daily!RollWindow, Atomic!Daily!CheckTransfer,
       Atomic!Daily!Approves, Atomic!Daily!Configured, Atomic!Daily!WithTransfer,
       Atomic!Daily!RollWindow
<1>3. ASSUME Cool!CheckTransfer(w, amount) PROVE Atomic!Cool!CheckTransfer(w, amount)
  BY ONLY <1>1, <1>3 DEF Cool!CheckTransfer, Cool!Approves, Cool!IsLarge, Cool!Configured,
       Atomic!Cool!CheckTransfer, Atomic!Cool!Approves, Atomic!Cool!IsLarge,
       Atomic!Cool!Configured
<1> QED
  BY <1>1, <1>2, <1>3 DEF DirectCheck, Atomic!DirectCheck, clock, Atomic!clock

\* Transactions of one step are committed as the same step.
LEMMA OtherStep ==
    ASSUME PInv, OtherTransaction
    PROVE  PInv' /\ Atomic!Next
<1>1. Idle /\ Idle' /\ Settled /\ committed' = Accounts'
  BY DEF OtherTransaction, PInv, Idle
<1>2. Settled'
  BY <1>1 DEF Settled, Accounts
<1>3. PInv'
  BY <1>1, <1>2 DEF PInv
<1>4. ASSUME Tick PROVE Atomic!Tick
  BY <1>1, <1>2, <1>4 DEF Settled, Tick, rules, Atomic!Tick, Atomic!rules
<1>5. ASSUME InitializeExtraAccountMetaList PROVE Atomic!InitializeExtraAccountMetaList
  BY <1>1, <1>2, <1>5 DEF Settled, InitializeExtraAccountMetaList, rules, clock,
       Atomic!InitializeExtraAccountMetaList, Atomic!rules, Atomic!clock
<1> QED
  BY <1>1, <1>2, <1>3, <1>4, <1>5, SameSettings, SameCheck
     DEF OtherTransaction, Atomic!Next

\* The pipeline starts as the hook does.
LEMMA PipeStart == PipeInit => PInv /\ Atomic!Init
BY DEF PipeInit, PInv, Idle, Settled, Accounts, Init, Atomic!Init, Daily!Init,
   Atomic!Daily!Init, Block!Init, Atomic!Block!Init, Cool!Init, Atomic!Cool!Init,
   Slow!Init, Atomic!Slow!Init, Window!Init, Atomic!Window!Init, Gate!Init,
   Atomic!Gate!Init

\* Every step of the pipeline keeps the call in its place, and is a step of
\* the hook on the accounts as committed, or none.
LEMMA PipeStep ==
    ASSUME PInv, [PipeNext]_pipeVars
    PROVE  PInv' /\ [Atomic!Next]_Atomic!vars
<1>1. ASSUME UNCHANGED pipeVars PROVE PInv' /\ UNCHANGED Atomic!vars
  <2>1. UNCHANGED <<dailyLimit, cooloff, balance, blockList, slowSend, contact, timeWindow,
                    friendGate, slot, now, meta_list, call, committed>>
    BY <1>1 DEF pipeVars, vars, rules, clock
  <2>2. UNCHANGED Atomic!vars
    BY <2>1 DEF Atomic!vars, Atomic!rules, Atomic!clock
  <2>3. CASE Idle
    BY <2>1, <2>2, <2>3 DEF PInv, Idle, Settled
  <2>4. CASE ~Idle
    <3>1. call \in Calls /\ call.stage \in Stages
      BY <2>4 DEF PInv, Begun, Calls
    <3>2. call = [call EXCEPT !.stage = call.stage]
      BY <3>1 DEF Calls
    <3>3. At(call.stage, call.stage) /\ UNCHANGED others
      BY <2>1, <2>4, <3>2 DEF At, others, clock
    <3> QED
      BY <2>1, <2>2, <3>1, <3>3, NextStage DEF PInv, AskedSoFar
  <2> QED
    BY <2>3, <2>4
<1> QED
  BY <1>1, OtherStep, BeginStep, AskStep, CommitStep, AbortStep DEF PipeNext

\* All or nothing, for any wallets, amounts, settings and transactions: what
\* the runtime commits of a transfer that was executed rule by rule is one
\* step of StedeHook that all six rules pass together, or nothing.
THEOREM PipelineImplementsHook == PipeSpec => ImplementsHook
  BY PipeStart, PipeStep, PTL DEF PipeSpec, ImplementsHook, Atomic!Spec

-----------------------------------------------------------------------------
(* Types halfway through a transfer. *)

\* What is written during a call is what its rules and the hook keep; the
\* accounts to go back to have their types too.
CommittedTypes ==
    Atomic!Daily!TypeOK /\ Atomic!Cool!TypeOK /\ committed.balance \in [Wallets -> Nat]

Halfway == Rest /\ Daily!TypeOK /\ Cool!TypeOK /\ CommittedTypes

\* The rules a call only reads, and the clock, change between calls.
LEMMA Elsewhere ==
    ASSUME [PipeNext]_pipeVars
    PROVE  [Next]_vars \/ UNCHANGED <<others, clock, meta_list>>
<1>1. ASSUME OtherTransaction PROVE Next
  BY <1>1 DEF OtherTransaction, Next
<1>2. ASSUME AskDailyLimit \/ AskBlockList \/ AskCooloff \/ AskSlowSend
               \/ AskTimeWindow \/ AskFriendGate
      PROVE  UNCHANGED <<others, clock, meta_list>>
  BY <1>2 DEF AskDailyLimit, AskBlockList, AskCooloff, AskSlowSend, AskTimeWindow,
       AskFriendGate, At, Block!CheckTransfer, Slow!CheckTransfer, Window!CheckTransfer,
       Gate!CheckTransfer, others
<1>3. ASSUME NEW authority, NEW source, NEW recipient, NEW amount, NEW tx, NEW i,
             Begin(authority, source, recipient, amount, tx, i)
      PROVE  UNCHANGED <<others, clock, meta_list>>
  BY <1>3 DEF Begin, rules, others
<1>4. ASSUME Commit \/ Abort \/ UNCHANGED pipeVars
      PROVE  UNCHANGED <<others, clock, meta_list>>
  BY <1>4 DEF Commit, Abort, pipeVars, vars, rules, others
<1> QED
  BY <1>1, <1>2, <1>3, <1>4 DEF PipeNext

\* What is committed has the types of what it is a copy of.
LEMMA CommittedFollows ==
    ASSUME Daily!TypeOK', Cool!TypeOK', balance' \in [Wallets -> Nat], committed' = Accounts'
    PROVE  CommittedTypes'
<1>1. /\ committed'.dailyLimit = dailyLimit' /\ committed'.cooloff = cooloff'
      /\ committed'.balance = balance'
  BY DEF Accounts
<1>2. Atomic!Daily!TypeOK'
  BY <1>1 DEF Daily!TypeOK, Daily!Configured, Daily!Accounts, Atomic!Daily!TypeOK,
       Atomic!Daily!Configured, Atomic!Daily!Accounts
<1>3. Atomic!Cool!TypeOK'
  BY <1>1 DEF Cool!TypeOK, Cool!Configured, Cool!Accounts, Atomic!Cool!TypeOK,
       Atomic!Cool!Configured, Atomic!Cool!Accounts
<1> QED
  BY <1>1, <1>2, <1>3 DEF CommittedTypes

\* It keeps them while neither it nor the clock changes.
LEMMA CommittedStays ==
    ASSUME CommittedTypes, UNCHANGED <<committed, clock>>
    PROVE  CommittedTypes'
BY DEF CommittedTypes, clock, Atomic!Daily!TypeOK, Atomic!Daily!Configured,
       Atomic!Daily!Accounts, Atomic!Cool!TypeOK, Atomic!Cool!Configured,
       Atomic!Cool!Accounts

\* A transfer under way writes values of the types of what it writes, and a
\* failed one restores such values.
LEMMA HalfwayStep ==
    ASSUME PInv, Halfway, [PipeNext]_pipeVars
    PROVE  Halfway'
<1>1. CASE OtherTransaction
  <2>1. Next /\ committed' = Accounts'
    BY <1>1 DEF OtherTransaction, Next
  <2>2. Rest' /\ Daily!TypeOK' /\ Cool!TypeOK'
    BY <2>1, RestStep, DailyStep, DailyTypeStep, CoolStep, CoolTypeStep DEF Halfway
  <2> QED
    BY <2>1, <2>2, CommittedFollows DEF Halfway, Rest
<1>2. ASSUME UNCHANGED <<others, clock, meta_list>>
      PROVE  /\ Gate!TypeOK' /\ meta_list' \in BOOLEAN
             /\ UNCHANGED <<slot, now>>
  BY <1>2 DEF Halfway, Rest, others, clock, Gate!TypeOK, Gate!Configured
<1>3. ASSUME UNCHANGED <<others, clock, meta_list>>,
             [Daily!Next]_<<dailyLimit, slot>>, [Cool!Next]_<<cooloff, now>>,
             balance' \in [Wallets -> Nat], committed' \in {committed, Accounts'}
      PROVE  Halfway'
  <2>1. Daily!TypeOK' /\ Cool!TypeOK'
    BY <1>3, DailyTypeStep, CoolTypeStep DEF Halfway
  <2>2. CommittedTypes'
    BY <1>3, <2>1, CommittedFollows, CommittedStays DEF Halfway
  <2> QED
    BY <1>2, <1>3, <2>1, <2>2 DEF Halfway, Rest
<1>4. ASSUME NEW tx \in Transactions, NEW amount \in Amounts, NEW recipient \in Payees,
             NEW i \in 1..Len(tx.names), NEW source \in Wallets, NEW authority \in Wallets,
             Begin(authority, source, recipient, amount, tx, i)
      PROVE  Halfway'
  <2>1. /\ UNCHANGED <<others, clock, meta_list>> /\ UNCHANGED <<dailyLimit, slot>>
        /\ UNCHANGED <<cooloff, now>> /\ committed' = committed
    BY <1>4 DEF Begin, rules, others, clock
  <2>2. balance' \in [Wallets -> Nat]
    BY <1>4, StedeHookAssumption, MovedType DEF Begin, Halfway, Rest
  <2> QED
    BY <1>3, <2>1, <2>2
<1>5. CASE AskDailyLimit
  <2>1. call.authority \in Wallets /\ call.amount \in Amounts
    BY <1>5 DEF AskDailyLimit, At, PInv, Begun, Calls
  <2>2. /\ UNCHANGED <<others, clock, meta_list>> /\ UNCHANGED slot /\ UNCHANGED balance
        /\ UNCHANGED <<cooloff, now>> /\ committed' = committed
        /\ Daily!CheckTransfer(call.authority, call.amount)
    BY <1>5 DEF AskDailyLimit, At, others, clock
  <2>3. Daily!Next
    BY <2>1, <2>2 DEF Daily!Next
  <2> QED
    BY <1>3, <2>2, <2>3 DEF Halfway, Rest
<1>6. CASE AskCooloff
  <2>1. call.authority \in Wallets /\ call.amount \in Amounts
    BY <1>6 DEF AskCooloff, At, PInv, Begun, Calls
  <2>2. /\ UNCHANGED <<others, clock, meta_list>> /\ UNCHANGED now /\ UNCHANGED balance
        /\ UNCHANGED <<dailyLimit, slot>> /\ committed' = committed
        /\ Cool!CheckTransfer(call.authority, call.amount)
    BY <1>6 DEF AskCooloff, At, others, clock
  <2>3. Cool!Next
    BY <2>1, <2>2 DEF Cool!Next
  <2> QED
    BY <1>3, <2>2, <2>3 DEF Halfway, Rest
<1>7. CASE AskBlockList \/ AskSlowSend \/ AskTimeWindow \/ AskFriendGate \/ Commit
             \/ UNCHANGED pipeVars
  <2>1. /\ UNCHANGED <<others, clock, meta_list>> /\ UNCHANGED <<dailyLimit, slot>>
        /\ UNCHANGED <<cooloff, now>> /\ UNCHANGED balance
    BY <1>7 DEF AskBlockList, AskSlowSend, AskTimeWindow, AskFriendGate, At, Commit,
         Block!CheckTransfer, Slow!CheckTransfer, Window!CheckTransfer, Gate!CheckTransfer,
         pipeVars, vars, rules, others, clock
  <2>2. committed' \in {committed, Accounts'}
    BY <1>7, <2>1 DEF AskBlockList, AskSlowSend, AskTimeWindow, AskFriendGate, At, Commit,
         pipeVars, Accounts
  <2> QED
    BY <1>3, <2>1, <2>2 DEF Halfway, Rest
<1>8. CASE Abort
  <2>1. /\ UNCHANGED <<others, clock, meta_list>> /\ UNCHANGED committed
        /\ dailyLimit' = committed.dailyLimit /\ cooloff' = committed.cooloff
        /\ balance' = committed.balance
    BY <1>8 DEF Abort, others
  <2>2. UNCHANGED <<slot, now>>
    BY <2>1 DEF clock
  <2>3. Daily!TypeOK'
    BY <2>1, <2>2 DEF Halfway, CommittedTypes, Daily!TypeOK, Daily!Configured,
         Daily!Accounts, Atomic!Daily!TypeOK, Atomic!Daily!Configured, Atomic!Daily!Accounts
  <2>4. Cool!TypeOK'
    BY <2>1, <2>2 DEF Halfway, CommittedTypes, Cool!TypeOK, Cool!Configured,
         Cool!Accounts, Atomic!Cool!TypeOK, Atomic!Cool!Configured, Atomic!Cool!Accounts
  <2>5. balance' \in [Wallets -> Nat]
    BY <2>1 DEF Halfway, CommittedTypes
  <2> QED
    BY <1>2, <2>1, <2>3, <2>4, <2>5, CommittedStays DEF Halfway, Rest
<1> QED
  BY <1>1, <1>4, <1>5, <1>6, <1>7, <1>8 DEF PipeNext

\* Every account keeps a value of its type at every stage of a transfer that
\* is executed rule by rule, also after one that fails.
THEOREM PipeTypeCorrect == PipeSpec => []PipeTypeOK
<1>1. PipeInit => Halfway
  <2> SUFFICES ASSUME PipeInit PROVE Halfway
    OBVIOUS
  <2>1. Init /\ committed = Accounts
    BY DEF PipeInit
  <2>2. Rest
    BY <2>1, StedeHookAssumption
       DEF Init, Rest, Gate!TypeOK, Gate!Init, Gate!Configured
  <2>3. Daily!TypeOK
    BY <2>1, RulesAssumption DEF Init, Daily!DailyLimitAssumption, Daily!Init,
         Daily!TypeOK, Daily!Configured
  <2>4. Cool!TypeOK
    BY <2>1, RulesAssumption DEF Init, Cool!CooloffAssumption, Cool!Init,
         Cool!TypeOK, Cool!Configured
  <2>5. /\ committed.dailyLimit = dailyLimit /\ committed.cooloff = cooloff
        /\ committed.balance = balance
    BY <2>1 DEF Accounts
  <2>6. Atomic!Daily!TypeOK
    BY <2>3, <2>5 DEF Daily!TypeOK, Daily!Configured, Daily!Accounts, Atomic!Daily!TypeOK,
         Atomic!Daily!Configured, Atomic!Daily!Accounts
  <2>7. Atomic!Cool!TypeOK
    BY <2>4, <2>5 DEF Cool!TypeOK, Cool!Configured, Cool!Accounts, Atomic!Cool!TypeOK,
         Atomic!Cool!Configured, Atomic!Cool!Accounts
  <2> QED
    BY <2>2, <2>3, <2>4, <2>5, <2>6, <2>7 DEF Halfway, CommittedTypes, Rest
<1>2. PipeSpec => [](PInv /\ Halfway)
  BY <1>1, PipeStart, PipeStep, HalfwayStep, PTL DEF PipeSpec
<1>3. PipeInit => Block!Init /\ Slow!Init /\ Window!Init
  BY DEF PipeInit, Init
<1>4. [PipeNext]_pipeVars => /\ [Block!Next]_blockList
                             /\ [Slow!Next]_<<slowSend, contact, now>>
                             /\ [Window!Next]_<<timeWindow, now>>
  BY Elsewhere, BlockStep, SlowStep, WindowStep DEF others, clock
<1>5. PipeSpec => Block!Spec /\ Slow!Spec /\ Window!Spec
  BY <1>3, <1>4, PTL DEF PipeSpec, Block!Spec, Slow!Spec, Slow!vars, Window!Spec, Window!vars
<1>6. /\ PInv => call \in Calls \cup {None}
      /\ Halfway /\ Block!TypeOK /\ Slow!TypeOK /\ Window!TypeOK => TypeOK
  BY DEF PInv, Begun, Idle, Halfway, Rest, TypeOK
<1>7. PInv /\ Halfway /\ Block!TypeOK /\ Slow!TypeOK /\ Window!TypeOK => PipeTypeOK
  BY <1>6 DEF PipeTypeOK
<1> QED
  BY <1>2, <1>5, <1>7, BlockTypes, SlowTypes, WindowTypes, PTL

-----------------------------------------------------------------------------
(* What moved is within what the daily limit counted. *)

\* What the daily limit knows of an approved transfer, from its own proofs.
LEMMA DailyBooked ==
    ASSUME Daily!TypeOK, NEW k \in Wallets, NEW amount \in Amounts,
           Daily!CheckTransfer(k, amount), Daily!Configured(k)
    PROVE  /\ dailyLimit' = [dailyLimit EXCEPT ![k] = dailyLimit'[k]]
           /\ dailyLimit'[k] \in Daily!Accounts
           /\ \/ /\ dailyLimit'[k].window_start_slot = dailyLimit[k].window_start_slot
                 /\ slot < dailyLimit[k].window_start_slot + SlotsPerDay
                 /\ dailyLimit'[k].spent_today = dailyLimit[k].spent_today + amount
              \/ /\ dailyLimit'[k].window_start_slot = slot
                 /\ slot >= dailyLimit[k].window_start_slot + SlotsPerDay
                 /\ dailyLimit'[k].spent_today = amount
<1>1. DailyProofs!DailyLimitAssumption
  BY RulesAssumption DEF Daily!DailyLimitAssumption, DailyProofs!DailyLimitAssumption
<1>2. DailyProofs!TypeOK /\ DailyProofs!Configured(k)
  BY DEF Daily!TypeOK, DailyProofs!TypeOK, Daily!Configured, DailyProofs!Configured,
     Daily!Accounts, DailyProofs!Accounts
<1>3. DailyProofs!CheckTransfer(k, amount)
  BY DEF Daily!CheckTransfer, Daily!Approves, Daily!Configured, Daily!WithTransfer,
         Daily!RollWindow, DailyProofs!CheckTransfer, DailyProofs!Approves,
         DailyProofs!Configured, DailyProofs!WithTransfer, DailyProofs!RollWindow
<1>4. /\ dailyLimit' = [dailyLimit EXCEPT ![k] = dailyLimit'[k]]
      /\ dailyLimit'[k] \in DailyProofs!Accounts
  BY <1>1, <1>2, <1>3, DailyProofs!CheckFacts
<1>5. DailyProofs!Accounts = Daily!Accounts
  BY DEF Daily!Accounts, DailyProofs!Accounts
<1> QED
  BY <1>1, <1>2, <1>3, <1>4, <1>5, DailyProofs!BookedTotal

\* And of a new setting.
LEMMA DailySet ==
    ASSUME Daily!TypeOK, NEW k \in Wallets, NEW limit \in Limits, Daily!SetLimit(k, limit)
    PROVE  /\ dailyLimit' = [dailyLimit EXCEPT ![k] = dailyLimit'[k]]
           /\ dailyLimit'[k] \in Daily!Accounts
           /\ IF Daily!Configured(k)
              THEN /\ dailyLimit'[k].window_start_slot = dailyLimit[k].window_start_slot
                   /\ dailyLimit'[k].spent_today = dailyLimit[k].spent_today
              ELSE dailyLimit'[k].spent_today = 0
<1>1. DailyProofs!DailyLimitAssumption
  BY RulesAssumption DEF Daily!DailyLimitAssumption, DailyProofs!DailyLimitAssumption
<1>2. /\ DailyProofs!TypeOK
      /\ DailyProofs!Configured(k) <=> Daily!Configured(k)
      /\ DailyProofs!Accounts = Daily!Accounts
  BY DEF Daily!TypeOK, DailyProofs!TypeOK, Daily!Configured, DailyProofs!Configured,
     Daily!Accounts, DailyProofs!Accounts
<1>3. DailyProofs!SetLimit(k, limit)
  BY DEF Daily!SetLimit, Daily!Configured, DailyProofs!SetLimit, DailyProofs!Configured
<1> QED
  BY <1>1, <1>2, <1>3, DailyProofs!SetFacts

\* What moved since the open window began is within its total, and nothing
\* moved a day after its beginning or later, or the window would have rolled.
SettledOK(w) ==
    IF Daily!Configured(w)
    THEN LET start == dailyLimit[w].window_start_slot
         IN  /\ settled[w][start] <= dailyLimit[w].spent_today
             /\ \A s \in 0..MaxSlot : s >= start + SlotsPerDay => settled[w][s] = 0
    ELSE \A s \in 0..MaxSlot : settled[w][s] = 0

\* SettledWithinSpent is not inductive: a window that rolls starts with what
\* moved in its first slot, which has to be nothing before the transfer.
SettledInv ==
    /\ slot \in 0..MaxSlot
    /\ settled \in [Wallets -> [0..MaxSlot -> Nat]]
    /\ \A w \in Wallets : SettledOK(w)

\* What is said of one wallet depends on its account and its record alone.
LEMMA SameSettled ==
    ASSUME NEW w \in Wallets, SettledOK(w),
           dailyLimit'[w] = dailyLimit[w], settled'[w] = settled[w]
    PROVE  SettledOK(w)'
BY DEF SettledOK, Daily!Configured

\* A new setting keeps it: the first one finds no record.
LEMMA SetKeepsSettled ==
    ASSUME SettledInv, Daily!TypeOK, NEW k \in Wallets, NEW limit \in Limits,
           Daily!SetLimit(k, limit), UNCHANGED <<slot, settled>>
    PROVE  SettledInv'
<1> USE RulesAssumption DEF Daily!DailyLimitAssumption
<1>1. /\ dailyLimit' = [dailyLimit EXCEPT ![k] = dailyLimit'[k]]
      /\ dailyLimit'[k] \in Daily!Accounts
      /\ IF Daily!Configured(k)
         THEN /\ dailyLimit'[k].window_start_slot = dailyLimit[k].window_start_slot
              /\ dailyLimit'[k].spent_today = dailyLimit[k].spent_today
         ELSE dailyLimit'[k].spent_today = 0
  BY DailySet
<1>2. dailyLimit'[k] # NoAccount
  BY <1>1 DEF Daily!Accounts
<1>3. ~Daily!Configured(k) => dailyLimit'[k].window_start_slot \in 0..MaxSlot
  <2> SUFFICES ASSUME ~Daily!Configured(k)
               PROVE  dailyLimit'[k].window_start_slot = slot
    BY DEF SettledInv
  <2>1. dailyLimit' = [dailyLimit EXCEPT ![k] =
          [limit |-> limit, spent_today |-> 0, window_start_slot |-> slot]]
    BY DEF Daily!SetLimit
  <2> QED
    BY <2>1 DEF Daily!TypeOK
<1>4. SettledOK(k)'
  <2>1. CASE Daily!Configured(k)
    BY <1>1, <1>2, <2>1 DEF SettledInv, SettledOK, Daily!Configured
  <2>2. CASE ~Daily!Configured(k)
    <3>1. \A s \in 0..MaxSlot : settled[k][s] = 0
      BY <2>2 DEF SettledInv, SettledOK
    <3> QED
      BY <1>1, <1>2, <1>3, <2>2, <3>1 DEF SettledOK, Daily!Configured
  <2> QED
    BY <2>1, <2>2
<1>5. ASSUME NEW w \in Wallets, w # k PROVE SettledOK(w)'
  <2>1. dailyLimit'[w] = dailyLimit[w]
    BY <1>1, <1>5 DEF Daily!TypeOK
  <2> QED
    BY <2>1, SameSettled DEF SettledInv
<1> QED
  BY <1>4, <1>5 DEF SettledInv

\* Sums of smaller numbers are smaller.
LEMMA SumsInOrder ==
    ASSUME NEW x \in Nat, NEW y \in Nat, NEW z \in Nat, NEW u \in Nat, x <= z, y <= u
    PROVE  x + y <= z + u
OBVIOUS

\* An approved check keeps it, whether the amount really moves or not.
LEMMA CheckKeepsSettled ==
    ASSUME SettledInv, Daily!TypeOK, NEW k \in Wallets, NEW amount \in Amounts,
           Daily!CheckTransfer(k, amount), Daily!Configured(k), UNCHANGED slot,
           NEW moved \in {0, amount},
           settled' = [settled EXCEPT ![k] = [s \in 0..MaxSlot |->
                          IF s <= slot THEN settled[k][s] + moved ELSE settled[k][s]]]
    PROVE  SettledInv'
<1> USE RulesAssumption DEF Daily!DailyLimitAssumption
<1> DEFINE pda    == dailyLimit[k]
           start  == pda.window_start_slot
           booked == dailyLimit'[k]
           begun  == booked.window_start_slot
<1>1. /\ amount \in Nat /\ moved \in Nat /\ moved <= amount
      /\ slot \in 0..MaxSlot /\ MaxSlot \in Nat /\ SlotsPerDay \in Nat \ {0}
      /\ settled \in [Wallets -> [0..MaxSlot -> Nat]]
  BY DEF SettledInv
<1>2. /\ pda \in Daily!Accounts /\ start \in Nat /\ start <= slot /\ pda.spent_today \in Nat
  BY DEF Daily!TypeOK, Daily!Accounts, Daily!Configured
<1>3. /\ settled[k][start] <= pda.spent_today
      /\ \A s \in 0..MaxSlot : s >= start + SlotsPerDay => settled[k][s] = 0
  BY DEF SettledInv, SettledOK
<1>4. /\ settled' \in [Wallets -> [0..MaxSlot -> Nat]]
      /\ \A w \in Wallets : w # k => settled'[w] = settled[w]
      /\ \A s \in 0..MaxSlot : settled'[k][s] =
            IF s <= slot THEN settled[k][s] + moved ELSE settled[k][s]
  <2> DEFINE now_settled == [s \in 0..MaxSlot |->
                          IF s <= slot THEN settled[k][s] + moved ELSE settled[k][s]]
  <2>1. now_settled \in [0..MaxSlot -> Nat]
    BY <1>1
  <2>2. settled' = [settled EXCEPT ![k] = now_settled]
    OBVIOUS
  <2>3. \A s \in 0..MaxSlot : now_settled[s] =
            IF s <= slot THEN settled[k][s] + moved ELSE settled[k][s]
    OBVIOUS
  <2> HIDE DEF now_settled
  <2> QED
    BY <1>1, <2>1, <2>2, <2>3
<1>5. /\ dailyLimit' = [dailyLimit EXCEPT ![k] = booked]
      /\ booked \in Daily!Accounts
      /\ \/ /\ begun = start /\ slot < start + SlotsPerDay
            /\ booked.spent_today = pda.spent_today + amount
         \/ /\ begun = slot /\ slot >= start + SlotsPerDay
            /\ booked.spent_today = amount
  BY DailyBooked
<1>6. booked # NoAccount
  BY <1>5 DEF Daily!Accounts
<1>7. /\ settled'[k][begun] <= booked.spent_today
      /\ \A s \in 0..MaxSlot : s >= begun + SlotsPerDay => settled'[k][s] = 0
  <2> HIDE DEF pda, start, booked, begun
  <2>1. CASE /\ begun = start /\ slot < start + SlotsPerDay
             /\ booked.spent_today = pda.spent_today + amount
    <3>1. start \in 0..MaxSlot /\ settled[k][start] \in Nat
      BY <1>1, <1>2
    <3>2. settled'[k][begun] = settled[k][start] + moved
      BY <1>2, <1>4, <2>1, <3>1
    <3>3. \A s \in 0..MaxSlot : s >= begun + SlotsPerDay => settled'[k][s] = 0
      BY <1>1, <1>2, <1>3, <1>4, <2>1
    <3>4. settled[k][start] + moved <= pda.spent_today + amount
      BY <1>1, <1>2, <1>3, <3>1, SumsInOrder
    <3> QED
      BY <2>1, <3>2, <3>3, <3>4
  <2>2. CASE /\ begun = slot /\ slot >= start + SlotsPerDay
             /\ booked.spent_today = amount
    <3>1. settled[k][slot] = 0
      BY <1>1, <1>3, <2>2
    <3>2. settled'[k][begun] = moved
      BY <1>1, <1>4, <2>2, <3>1
    <3>3. \A s \in 0..MaxSlot : s >= begun + SlotsPerDay => settled'[k][s] = 0
      BY <1>1, <1>2, <1>3, <1>4, <2>2
    <3> QED
      BY <1>1, <2>2, <3>2, <3>3
  <2> QED
    BY <1>5, <2>1, <2>2
<1>8. SettledOK(k)'
  BY <1>6, <1>7 DEF SettledOK, Daily!Configured
<1>9. ASSUME NEW w \in Wallets, w # k PROVE SettledOK(w)'
  <2>1. dailyLimit'[w] = dailyLimit[w]
    BY <1>5, <1>9 DEF Daily!TypeOK
  <2> QED
    BY <1>4, <1>9, <2>1, SameSettled DEF SettledInv
<1> QED
  BY <1>1, <1>4, <1>8, <1>9 DEF SettledInv

\* Every step keeps it: only a transfer of the authority's own adds to the
\* record, and it adds what the check has counted.
LEMMA SettledStep ==
    ASSUME SettledInv, Daily!TypeOK, [AuditNext]_auditVars
    PROVE  SettledInv'
<1> USE StedeHookAssumption
<1>1. /\ slot \in 0..MaxSlot /\ MaxSlot \in Nat
      /\ settled \in [Wallets -> [0..MaxSlot -> Nat]]
  BY RulesAssumption DEF SettledInv, Daily!DailyLimitAssumption
<1>2. ASSUME UNCHANGED <<dailyLimit, settled>>, slot' \in 0..MaxSlot PROVE SettledInv'
  BY <1>1, <1>2, SameSettled DEF SettledInv
<1>3. ASSUME NEW k \in Wallets, NEW amount \in Amounts, Daily!CheckTransfer(k, amount),
             UNCHANGED <<slot, settled>>
      PROVE  SettledInv'
  <2>1. CASE ~Daily!Configured(k)
    BY <1>1, <1>2, <1>3, <2>1 DEF Daily!CheckTransfer
  <2>2. CASE Daily!Configured(k)
    <3>1. \A s \in 0..MaxSlot : settled[k][s] + 0 = settled[k][s]
      BY <1>1
    <3>2. settled[k] = [s \in 0..MaxSlot |->
                          IF s <= slot THEN settled[k][s] + 0 ELSE settled[k][s]]
      BY <1>1, <3>1
    <3>3. settled' = [settled EXCEPT ![k] = [s \in 0..MaxSlot |->
                          IF s <= slot THEN settled[k][s] + 0 ELSE settled[k][s]]]
      BY <1>1, <1>3, <3>2
    <3> QED
      BY <1>3, <2>2, <3>3, CheckKeepsSettled
  <2> QED
    BY <2>1, <2>2
<1>4. ASSUME [Next]_vars, UNCHANGED settled PROVE SettledInv'
  <2>1. [Daily!Next]_<<dailyLimit, slot>>
    BY <1>4, DailyStep
  <2>2. CASE UNCHANGED <<dailyLimit, slot>>
    BY <1>1, <1>2, <1>4, <2>2
  <2>3. CASE Daily!Tick
    <3>1. slot' \in 0..MaxSlot /\ dailyLimit' = dailyLimit
      BY <1>1, <2>3, RulesAssumption DEF Daily!Tick, Daily!DailyLimitAssumption
    <3> QED
      BY <1>2, <1>4, <3>1
  <2>4. ASSUME NEW k \in Wallets, NEW limit \in Limits, Daily!SetLimit(k, limit), UNCHANGED slot
        PROVE  SettledInv'
    BY <1>4, <2>4, SetKeepsSettled
  <2>5. ASSUME NEW k \in Wallets, NEW amount \in Amounts, Daily!CheckTransfer(k, amount),
               UNCHANGED slot
        PROVE  SettledInv'
    BY <1>3, <1>4, <2>5
  <2> QED
    BY <2>1, <2>2, <2>3, <2>4, <2>5 DEF Daily!Next
<1>5. ASSUME NEW tx \in Transactions, NEW amount \in Amounts, NEW recipient \in Payees,
             NEW i \in 1..Len(tx.names), NEW source \in Wallets, NEW authority \in Wallets,
             AuditedTransfer(authority, source, recipient, amount, tx, i)
      PROVE  SettledInv'
  <2>1. Daily!CheckTransfer(authority, amount) /\ slot' = slot
    BY <1>5 DEF AuditedTransfer, Transfer, Execute, clock
  <2>2. CASE Daily!Configured(authority)
    <3>1. settled' = [settled EXCEPT ![authority] = [s \in 0..MaxSlot |->
                          IF s <= slot THEN settled[authority][s] + amount
                          ELSE settled[authority][s]]]
      BY <1>5, <2>2 DEF AuditedTransfer
    <3> QED
      BY <2>1, <2>2, <3>1, CheckKeepsSettled
  <2>3. CASE ~Daily!Configured(authority)
    BY <1>3, <1>5, <2>1, <2>3 DEF AuditedTransfer
  <2> QED
    BY <2>2, <2>3
<1>6. CASE UNCHANGED auditVars
  BY <1>4, <1>6 DEF auditVars
<1>7. ASSUME AuditNext, UNCHANGED settled,
             ~\E tx \in Transactions, amount \in Amounts, recipient \in Payees :
                \E i \in 1..Len(tx.names), source \in Wallets, authority \in Wallets :
                  AuditedTransfer(authority, source, recipient, amount, tx, i)
      PROVE  Next
  BY <1>7 DEF AuditNext, Next
<1> QED
  BY <1>4, <1>5, <1>6, <1>7 DEF AuditNext

\* A step of the audited hook is one of the hook.
LEMMA AuditStep == [AuditNext]_auditVars => [Next]_vars
BY DEF AuditNext, auditVars, AuditedTransfer, Next

\* However the hook and the rules are called, the money that really moved in
\* the open window never exceeds the total in the daily limit's account.
THEOREM SettledStaysWithinSpent == AuditSpec => []SettledWithinSpent
<1>1. AuditInit => SettledInv
  BY RulesAssumption DEF AuditInit, Init, SettledInv, SettledOK, Daily!Init,
     Daily!Configured, Daily!DailyLimitAssumption
<1>2. AuditSpec => Spec
  <2>1. AuditInit => Init
    BY DEF AuditInit
  <2> QED
    BY <2>1, AuditStep, PTL DEF AuditSpec, Spec
<1>3. AuditSpec => []Daily!TypeOK
  <2>1. TypeOK => Daily!TypeOK
    BY DEF TypeOK
  <2> QED
    BY <1>2, <2>1, TypeCorrect, PTL
<1>4. AuditSpec => []SettledInv
  BY <1>1, <1>3, SettledStep, PTL DEF AuditSpec
<1>5. SettledInv => SettledWithinSpent
  BY DEF SettledInv, SettledOK, SettledWithinSpent
<1> QED
  BY <1>4, <1>5, PTL

-----------------------------------------------------------------------------
(* The rules open together. *)

\* The longest wait is at least each of the three, and a day follows it.
LEMMA LongestWaitFacts ==
    \E longest \in Nat :
        /\ longest >= SlotsPerDay /\ longest >= MaxDuration /\ longest >= MaxDelay
        /\ LongestWait = longest + Window!SecondsPerDay
<1> DEFINE waits == {SlotsPerDay, MaxDuration, MaxDelay}
<1>1. SlotsPerDay \in Nat /\ MaxDuration \in Nat /\ MaxDelay \in Nat
  BY RulesAssumption DEF Daily!DailyLimitAssumption, Cool!CooloffAssumption,
                         Slow!SlowSendAssumption
<1>2. \E x \in waits : \A y \in waits : x >= y
  BY <1>1
<1>3. Max(waits) \in waits /\ \A y \in waits : Max(waits) >= y
  BY <1>2 DEF Max
<1>4. /\ Max(waits) \in Nat /\ LongestWait = Max(waits) + Window!SecondsPerDay
      /\ Max(waits) >= SlotsPerDay /\ Max(waits) >= MaxDuration /\ Max(waits) >= MaxDelay
  BY <1>1, <1>3 DEF LongestWait
<1> QED
  BY <1>4

\* A day from now the cap's window has rolled, and the whole cap is there.
LEMMA DailyOpens ==
    ASSUME Daily!TypeOK, NEW w \in Wallets, NEW amount \in Amounts,
           ~(Daily!Configured(w) /\ amount > dailyLimit[w].limit),
           NEW wait \in Nat, wait >= SlotsPerDay
    PROVE  Later(wait)!Daily!Approves(w, amount)
<1> USE RulesAssumption DEF Daily!DailyLimitAssumption
<1> SUFFICES ASSUME Daily!Configured(w) PROVE Later(wait)!Daily!Approves(w, amount)
  BY DEF Later!Daily!Approves, Later!Daily!Configured, Daily!Configured
<1> DEFINE pda    == dailyLimit[w]
           rolled == [limit |-> pda.limit, spent_today |-> 0, window_start_slot |-> slot + wait]
<1>1. /\ pda \in Daily!Accounts /\ pda.window_start_slot <= slot /\ slot \in Nat
      /\ amount \in Nat /\ amount <= pda.limit /\ pda.limit <= MaxU64 /\ MaxU64 \in Nat
  BY DEF Daily!TypeOK, Daily!Configured, Daily!Accounts
<1>2. (slot + wait) - pda.window_start_slot >= SlotsPerDay
  BY <1>1 DEF Daily!Accounts
<1>3. Later(wait)!Daily!RollWindow(pda) = rolled
  BY ONLY <1>2, Zenon DEF Later!Daily!RollWindow, rolled
<1>4. Later(wait)!Daily!WithTransfer(pda, amount).spent_today = amount
  <2>1. Later(wait)!Daily!WithTransfer(pda, amount)
          = [rolled EXCEPT !.spent_today = rolled.spent_today + amount]
    BY <1>3 DEF Later!Daily!WithTransfer
  <2> QED
    BY <1>1, <2>1
<1>5. amount <= MaxU64
  BY <1>1
<1> QED
  BY <1>1, <1>4, <1>5 DEF Later!Daily!Approves

\* The longest cool-off from now no transfer is too early.
LEMMA CooloffOpens ==
    ASSUME Cool!TypeOK, NEW w \in Wallets, NEW amount \in Amounts,
           NEW wait \in Nat, wait >= MaxDuration
    PROVE  Later(wait)!Cool!Approves(w, amount)
<1>1. CASE ~Cool!Configured(w)
  BY <1>1 DEF Later!Cool!Approves, Later!Cool!IsLarge, Later!Cool!Configured, Cool!Configured
<1>2. CASE Cool!Configured(w)
  <2>1. /\ cooloff[w] \in Cool!Accounts /\ now \in Nat
        /\ cooloff[w].last_large_transfer_at <= now
    BY <1>2 DEF Cool!TypeOK, Cool!Configured
  <2>2. (now + wait) - cooloff[w].last_large_transfer_at >= cooloff[w].duration_seconds
    BY <2>1, RulesAssumption DEF Cool!Accounts, Cool!CooloffAssumption
  <2> QED
    BY <2>2, Zenon DEF Later!Cool!Approves
<1> QED
  BY <1>1, <1>2

\* The longest delay from now every contact of today is ripe.
LEMMA SlowOpens ==
    ASSUME Slow!TypeOK, NEW w \in Wallets, NEW v \in Wallets,
           ~(Slow!Enabled(w) /\ ~Slow!Registered(w, v)),
           NEW wait \in Nat, wait >= MaxDelay
    PROVE  Later(wait)!Slow!Approves(w, v)
<1>1. CASE ~Slow!Enabled(w)
  BY <1>1 DEF Later!Slow!Approves, Later!Slow!Enabled, Slow!Enabled
<1>2. CASE Slow!Enabled(w)
  <2>1. /\ slowSend[w] \in 1..MaxDelay /\ now \in Nat /\ Slow!Registered(w, v)
        /\ contact[w][v] \in Nat /\ contact[w][v] <= now
    BY <1>2 DEF Slow!TypeOK, Slow!Enabled, Slow!Registered
  <2>2. (now + wait) - contact[w][v] >= slowSend[w]
    BY <2>1, RulesAssumption DEF Slow!SlowSendAssumption
  <2>3. Later(wait)!Slow!Registered(w, v)
    BY <2>1 DEF Later!Slow!Registered, Slow!Registered
  <2> QED
    BY <2>2, <2>3, Zenon DEF Later!Slow!Approves, Later!Slow!Ripe
<1> QED
  BY <1>1, <1>2

\* A full number of hours is that many hours.
LEMMA FullHours ==
    ASSUME NEW h \in Nat, NEW s \in Nat \ {0}
    PROVE  (h * s) \div s = h
  BY SMTT(30)

\* A full number of hours short of a day is a time of the day.
LEMMA HourInDay ==
    ASSUME NEW h \in Nat, NEW n \in Nat, NEW s \in Nat \ {0}, h < n
    PROVE  h * s \in 0..(n * s - 1)
<1>1. h * s \in Nat /\ n * s \in Nat /\ h * s < n * s
  BY SMTT(30)
<1> QED
  BY <1>1

\* Whatever time it is, each full hour comes once more within a day.
LEMMA HourComes ==
    ASSUME NEW h \in 0..(HoursPerDay - 1), NEW t \in Nat
    PROVE  /\ Window!SecondsPerDay \in Nat
           /\ \E wait \in 0..Window!SecondsPerDay : Window!HourOf(t + wait) = h
<1>2. HoursPerDay \in Nat \ {0} /\ SecondsPerHour \in Nat \ {0}
  BY RulesAssumption DEF Window!TimeWindowAssumption
<1> DEFINE day    == Window!SecondsPerDay
           target == h * SecondsPerHour
           gap    == target - t
           wait   == gap % day
<1>4. day \in Nat \ {0}
  BY DayIsPositive DEF day
<1>5. target \in 0..(day - 1) /\ gap \in Int
  <2>1. day = HoursPerDay * SecondsPerHour /\ h < HoursPerDay /\ h \in Nat
    BY <1>2 DEF Window!SecondsPerDay
  <2>2. target \in 0..(day - 1)
    BY <1>2, <2>1, HourInDay
  <2> QED
    BY <1>4, <2>2
<1> HIDE DEF day, target
<1>6. wait \in 0..(day - 1) /\ gap \div day \in Int /\ gap = day * (gap \div day) + wait
  BY <1>4, <1>5, ModRange, QuotientAndRemainder
<1>7. (t + wait) % day = target
  <2> DEFINE q == gap \div day
  <2>1. t + wait = day * (-q) + target /\ -q \in Int /\ t + wait \in Int
    <3>1. day * (-q) = -(day * q) /\ day * q \in Int
      BY <1>4, <1>6, SMTT(30)
    <3> HIDE DEF q
    <3>2. t + wait = t + (gap - day * q)
      BY <1>4, <1>5, <1>6, <3>1 DEF q
    <3> QED
      BY <1>4, <1>5, <1>6, <3>1, <3>2 DEF q
  <2> HIDE DEF q, wait
  <2> QED
    BY <1>4, <1>5, <2>1, RemainderIsUnique
<1>8. t + wait \in Int
  BY <1>4, <1>6
<1>9. Window!HourOf(t + wait) = h
  <2>1. Window!HourOf(t + wait) = ((t + wait) % day) \div SecondsPerHour
    BY <1>8, HourOfAnyTime DEF day
  <2> QED
    BY <1>2, <1>7, <2>1, FullHours DEF target
<1>10. wait \in 0..day
  BY <1>4, <1>6
<1> QED
  BY <1>4, <1>9, <1>10 DEF day

\* Whatever the window, its end comes within a day, and then it is open.
LEMMA WindowOpens ==
    ASSUME Window!TypeOK, NEW w \in Wallets, NEW from \in Nat
    PROVE  \E wait \in from..(from + Window!SecondsPerDay) : Later(wait)!Window!Approves(w)
<1> USE RulesAssumption DEF Window!TimeWindowAssumption
<1>1. \A wait \in Nat : Later(wait)!Window!Approves(w) <=>
         (Window!Configured(w) => ~Window!Blocked(timeWindow[w], Window!HourOf(now + wait)))
  BY DEF Later!Window!Approves, Later!Window!Configured, Later!Window!Blocked,
         Later!Window!HourOf, Later!Window!Rem, Later!Window!SecondsPerDay,
         Window!Configured, Window!Blocked, Window!HourOf, Window!Rem, Window!SecondsPerDay
<1>2. Window!SecondsPerDay \in Nat /\ now \in Nat
  <2>1. 0 \in 0..(HoursPerDay - 1) /\ now \in Nat
    BY DEF Window!TypeOK
  <2> QED
    BY <2>1, HourComes
<1>3. CASE ~Window!Configured(w)
  BY <1>1, <1>2, <1>3
<1>4. CASE Window!Configured(w)
  <2> DEFINE end == timeWindow[w].end_hour
  <2>1. timeWindow[w] \in Window!Windows
    BY <1>4 DEF Window!TypeOK, Window!Configured
  <2>2. end \in 0..(HoursPerDay - 1) /\ timeWindow[w].start_hour \in 0..(HoursPerDay - 1)
    BY <2>1 DEF Window!Windows
  <2>3. PICK rest \in 0..Window!SecondsPerDay : Window!HourOf((now + from) + rest) = end
    <3>1. now + from \in Nat
      BY <1>2
    <3> QED
      BY <2>2, <3>1, HourComes
  <2>4. ~Window!Blocked(timeWindow[w], end)
    BY <2>2 DEF Window!Blocked
  <2>5. /\ from + rest \in from..(from + Window!SecondsPerDay) /\ from + rest \in Nat
        /\ now + (from + rest) = (now + from) + rest
    BY <1>2, <2>3
  <2>6. Later(from + rest)!Window!Approves(w)
    BY <1>1, <2>3, <2>4, <2>5
  <2> QED
    BY <2>5, <2>6
<1> QED
  BY <1>3, <1>4

\* A friend on record is nobody the model lets be paid, hence can sign.
FriendsKnown ==
    \A w \in Wallets : Gate!Configured(w) => friendGate[w].friend_wallet \in Friends

\* A step changes the friend gate only by the sender's own settings.
LEMMA FriendsStep ==
    ASSUME FriendsKnown, Gate!TypeOK, [Next]_vars
    PROVE  FriendsKnown'
<1> USE StedeHookAssumption
<1>1. CASE UNCHANGED friendGate
  BY <1>1 DEF FriendsKnown, Gate!Configured
<1>2. ASSUME NEW w \in RuleUsers, ChangeFriendGate(w) PROVE FriendsKnown'
  <2>1. ASSUME NEW t \in GateThresholds, NEW v \in Friends, Gate!SetFriendGate(w, t, v)
        PROVE  FriendsKnown'
    <3> DEFINE pda == [threshold |-> t, friend_wallet |-> v]
    <3>1. friendGate' = [friendGate EXCEPT ![w] = pda] /\ pda.friend_wallet = v
      BY <2>1 DEF Gate!SetFriendGate
    <3> HIDE DEF pda
    <3> QED
      BY <3>1 DEF FriendsKnown, Gate!TypeOK, Gate!Configured
  <2>2. ASSUME Gate!DisableFriendGate(w) PROVE FriendsKnown'
    BY <2>2 DEF Gate!DisableFriendGate, FriendsKnown, Gate!TypeOK, Gate!Configured
  <2> QED
    BY <1>2, <2>1, <2>2 DEF ChangeFriendGate
<1>3. ASSUME NEW w \in RuleUsers, ChangeRules(w), ~ChangeFriendGate(w) PROVE UNCHANGED friendGate
  BY <1>3 DEF ChangeRules, ChangeDailyLimit, ChangeBlockList, ChangeCooloff, ChangeSlowSend,
              ChangeTimeWindow
<1>4. ASSUME NEW w \in RuleUsers, NEW amount \in Amounts, DirectCheck(w, amount)
      PROVE  UNCHANGED friendGate
  BY <1>4 DEF DirectCheck
<1>5. ASSUME NEW authority \in Wallets, NEW recipient \in Wallets, NEW amount \in Amounts,
             NEW tx \in Transactions, NEW i \in 1..Len(tx.names),
             Execute(authority, recipient, amount, tx, i)
      PROVE  UNCHANGED friendGate
  BY <1>5 DEF Execute, Gate!CheckTransfer
<1>6. Tick \/ UNCHANGED <<rules, clock>> => UNCHANGED friendGate
  BY DEF Tick, rules
<1> QED
  BY <1>1, <1>2, <1>3, <1>4, <1>5, <1>6, StepCases

\* There is a transaction that satisfies the friend gate, now and later.
LEMMA GateOpens ==
    ASSUME FriendsKnown, NEW w \in Wallets, NEW amount, NEW wait
    PROVE  \E tx \in Transactions :
              Later(wait)!Gate!Approves(w, amount, tx, Len(tx.names))
<1>1. \A tx : Later(wait)!Gate!Approves(w, amount, tx, Len(tx.names)) <=>
                 Gate!Approves(w, amount, tx, Len(tx.names))
  BY DEF Later!Gate!Approves, Later!Gate!Configured, Later!Gate!SignersSeen,
         Gate!Approves, Gate!Configured, Gate!SignersSeen
<1>2. CASE ~Gate!Configured(w)
  BY <1>1, <1>2, FriendsCanSign DEF Gate!Approves
<1>3. CASE Gate!Configured(w)
  <2>1. PICK tx \in Transactions :
            friendGate[w].friend_wallet \in Gate!SignersSeen(tx, Len(tx.names))
    BY <1>3, FriendsCanSign DEF FriendsKnown
  <2> QED
    BY <1>1, <2>1 DEF Gate!Approves
<1> QED
  BY <1>2, <1>3

\* The rules do not lock each other out: after the longest of the three
\* waits every later moment is good for the cap, the cool-off and slow send,
\* and the time window has one of those within a day.
THEOREM RulesOpenTogether == Spec => []OpensTogether
<1>1. TypeOK /\ FriendsKnown => OpensTogether
  <2> SUFFICES ASSUME TypeOK, FriendsKnown,
                      NEW w \in RuleUsers, NEW v \in Payees, NEW amount \in Amounts,
                      ~RefusedForGood(w, v, amount)
               PROVE  \E wait \in 0..LongestWait, tx \in Transactions :
                         Later(wait)!Approves(w, v, amount, tx, Len(tx.names))
    BY DEF OpensTogether
  <2>1. w \in Wallets /\ v \in Wallets
    BY StedeHookAssumption
  <2>2. PICK longest \in Nat :
            /\ longest >= SlotsPerDay /\ longest >= MaxDuration /\ longest >= MaxDelay
            /\ LongestWait = longest + Window!SecondsPerDay
    BY LongestWaitFacts
  <2>3. PICK wait \in longest..(longest + Window!SecondsPerDay) : Later(wait)!Window!Approves(w)
    BY <2>1, WindowOpens DEF TypeOK
  <2>4. /\ wait \in Nat /\ wait >= longest /\ wait <= LongestWait
        /\ wait >= SlotsPerDay /\ wait >= MaxDuration /\ wait >= MaxDelay
    <3>1. wait \in Int /\ wait >= longest /\ wait <= LongestWait
      BY <2>2, <2>3
    <3>2. SlotsPerDay \in Int /\ MaxDuration \in Int /\ MaxDelay \in Int
      BY RulesAssumption DEF Daily!DailyLimitAssumption, Cool!CooloffAssumption,
                             Slow!SlowSendAssumption
    <3> QED
      BY <2>2, <3>1, <3>2
  <2>5. Later(wait)!Daily!Approves(w, amount)
    BY <2>1, <2>4, DailyOpens DEF RefusedForGood, TypeOK
  <2>6. Later(wait)!Block!Approves(w, v)
    BY DEF RefusedForGood, Block!Approves, Block!Configured, Block!Find, Block!Slots,
           Later!Block!Approves, Later!Block!Configured, Later!Block!Find, Later!Block!Slots
  <2>7. Later(wait)!Cool!Approves(w, amount)
    BY <2>1, <2>4, CooloffOpens DEF TypeOK
  <2>8. Later(wait)!Slow!Approves(w, v)
    BY <2>1, <2>4, SlowOpens DEF RefusedForGood, TypeOK
  <2>9. PICK tx \in Transactions : Later(wait)!Gate!Approves(w, amount, tx, Len(tx.names))
    BY <2>1, GateOpens
  <2>10. Later(wait)!Approves(w, v, amount, tx, Len(tx.names))
    BY <2>3, <2>5, <2>6, <2>7, <2>8, <2>9 DEF Later!Approves
  <2>11. wait \in 0..LongestWait
    <3>1. LongestWait \in Int
      <4>1. 0 \in Nat /\ Window!SecondsPerDay \in Int
        BY RulesAssumption, SMTT(30) DEF Window!TimeWindowAssumption, Window!SecondsPerDay
      <4> QED
        BY <2>2, <4>1
    <3> QED
      BY <2>4, <3>1
  <2> QED
    BY <2>10, <2>11
<1>2. Init => FriendsKnown
  BY DEF Init, Gate!Init, FriendsKnown, Gate!Configured
<1>3. TypeOK => Gate!TypeOK
  BY DEF TypeOK
<1>4. Spec => [](TypeOK /\ FriendsKnown)
  BY <1>2, <1>3, FriendsStep, TypeCorrect, PTL DEF Spec
<1> QED
  BY <1>1, <1>4, PTL
=============================================================================
