----------------------------- MODULE TimeWindow -----------------------------
(***************************************************************************)
(* stede_rule_time_window: no transfer during the hours a sender blocks,   *)
(* start_hour included, end_hour not, UTC.  The window wraps past midnight *)
(* when it starts after it ends.  One config PDA per (sender, Stede mint)  *)
(* key.  A call that returns an error changes nothing.                     *)
(***************************************************************************)
EXTENDS Integers

CONSTANTS
    Keys,           \* (sender, mint) pairs
    NoAccount,      \* a PDA that does not exist
    HoursPerDay,    \* 24
    SecondsPerHour, \* 3600
    Hours,          \* hours a sender may ask for, also out of range
    ClockSteps,     \* by how much the clock may advance between transactions
    Epoch,          \* time at which the model starts
    MaxTime         \* bound of the model: the last time explored

\* What is assumed of them, where this module is instantiated.
TimeWindowAssumption ==
    /\ HoursPerDay \in Nat \ {0}
    /\ SecondsPerHour \in Nat \ {0}
    /\ Hours \subseteq Nat
    /\ ClockSteps \subseteq Nat
    /\ Epoch \in Nat
    /\ MaxTime \in Nat
    /\ NoAccount \notin [start_hour : Int, end_hour : Int]

VARIABLES
    timeWindow,     \* the config PDA of each key
    now             \* Clock.unix_timestamp

vars == <<timeWindow, now>>

Configured(k) == timeWindow[k] # NoAccount

Init ==
    /\ timeWindow = [k \in Keys |-> NoAccount]
    /\ now = Epoch

SetTimeWindow(k, start_hour, end_hour) ==
    /\ start_hour < HoursPerDay /\ end_hour < HoursPerDay
    /\ timeWindow' = [timeWindow EXCEPT ![k] =
          [start_hour |-> start_hour, end_hour |-> end_hour]]

DisableTimeWindow(k) ==
    /\ Configured(k)
    /\ timeWindow' = [timeWindow EXCEPT ![k] = NoAccount]

SecondsPerDay == HoursPerDay * SecondsPerHour

\* Rust's %, whose result has the sign of the dividend.
Rem(a, b) == IF a >= 0 THEN a % b ELSE -((-a) % b)

HourOf(t) ==
    Rem(Rem(t, SecondsPerDay) + SecondsPerDay, SecondsPerDay) \div SecondsPerHour

\* Faulty variants: the wrap past midnight forgotten; the end included.
BlockedWithoutWrap(window, hour) ==
    hour >= window.start_hour /\ hour < window.end_hour

BlockedToTheEnd(window, hour) ==
    IF window.start_hour <= window.end_hour
    THEN hour >= window.start_hour /\ hour <= window.end_hour
    ELSE hour >= window.start_hour \/ hour <= window.end_hour

Blocked(window, hour) ==
    IF window.start_hour <= window.end_hour
    THEN hour >= window.start_hour /\ hour < window.end_hour
    ELSE hour >= window.start_hour \/ hour < window.end_hour

\* What check_transfer answers now, whatever the amount; it changes nothing.
Approves(k) == Configured(k) => ~Blocked(timeWindow[k], HourOf(now))

CheckTransfer(k) == Approves(k) /\ UNCHANGED timeWindow

Tick ==
    /\ \E d \in ClockSteps : now' = now + d
    /\ now' <= MaxTime
    /\ UNCHANGED timeWindow

Next ==
    \/ Tick
    \/ \E k \in Keys :
        \/ /\ \/ \E start_hour, end_hour \in Hours : SetTimeWindow(k, start_hour, end_hour)
              \/ DisableTimeWindow(k)
              \/ CheckTransfer(k)
           /\ UNCHANGED now

Spec == Init /\ [][Next]_vars

-----------------------------------------------------------------------------
(* Properties. *)

Windows == [start_hour : 0..(HoursPerDay - 1), end_hour : 0..(HoursPerDay - 1)]

\* Every PDA holds a value of its type.
TypeOK ==
    /\ now \in Nat
    /\ timeWindow \in [Keys -> Windows \cup {NoAccount}]

\* Hours counted clockwise round the dial from a to b.
Clockwise(a, b) == (b - a) % HoursPerDay

\* The two comparisons of the code are one interval on the dial: a transfer
\* is refused exactly while the hand has passed start_hour and not yet
\* end_hour, through midnight too, and never when the two are equal.
RefusedExactlyWithin ==
    \A k \in Keys : Configured(k) =>
        LET w == timeWindow[k]
            hour == (now % SecondsPerDay) \div SecondsPerHour
        IN  ~Approves(k) <=> Clockwise(w.start_hour, hour) < Clockwise(w.start_hour, w.end_hour)

\* No setting closes the account round the clock: within a day the window
\* that is in force opens, unless the sender changes it first.
OpensEveryDay ==
    \A k \in Keys, w \in Windows :
        (timeWindow[k] = w /\ now + SecondsPerDay <= MaxTime)
            ~> (Approves(k) \/ timeWindow[k] # w)
=============================================================================
