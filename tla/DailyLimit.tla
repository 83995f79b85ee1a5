---------------------------- MODULE DailyLimit ----------------------------
(***************************************************************************)
(* stede_rule_daily_limit: one DailyLimit PDA per (sender, Stede mint)     *)
(* key, with a cap, a running total and the slot the window started in.    *)
(* The hook calls check_transfer once per transfer; so may any transaction *)
(* directly.  A call that returns an error changes nothing, so only the    *)
(* calls that succeed are steps.                                           *)
(***************************************************************************)
EXTENDS Integers

CONSTANTS
    Keys,           \* (sender, mint) pairs
    NoAccount,      \* a PDA that does not exist
    SlotsPerDay,    \* SLOTS_PER_DAY
    MaxU64,         \* largest u64
    Limits,         \* caps a sender may ask for, zero included
    Amounts,        \* amounts a transfer may carry
    SlotSteps,      \* by how much the slot may advance between transactions
    MaxSlot         \* bound of the model: the last slot explored

ASSUME DailyLimitAssumption ==
    /\ SlotsPerDay \in Nat \ {0}
    /\ MaxU64 \in Nat
    /\ Limits \subseteq 0..MaxU64
    /\ Amounts \subseteq 0..MaxU64
    /\ SlotSteps \subseteq Nat \ {0}
    /\ MaxSlot \in Nat
    /\ NoAccount \notin [limit : Int, spent_today : Int, window_start_slot : Int]

VARIABLES
    dailyLimit,     \* the PDA of each key
    slot            \* Clock.slot

vars == <<dailyLimit, slot>>

Configured(k) == dailyLimit[k] # NoAccount

Init ==
    /\ dailyLimit = [k \in Keys |-> NoAccount]
    /\ slot = 0

\* A faulty variant: every call restarts the window.
SetLimitRestarting(k, limit) ==
    /\ limit > 0
    /\ dailyLimit' = [dailyLimit EXCEPT ![k] =
          [limit |-> limit, spent_today |-> 0, window_start_slot |-> slot]]

\* init_if_needed: the first call creates the PDA, later ones change the cap
\* only, whatever has been spent.
SetLimit(k, limit) ==
    /\ limit > 0
    /\ dailyLimit' = [dailyLimit EXCEPT ![k] =
          IF Configured(k) THEN [@ EXCEPT !.limit = limit]
          ELSE [limit |-> limit, spent_today |-> 0, window_start_slot |-> slot]]

\* Faulty variants: the total is cleared but the window not moved; a day
\* that is just over does not count yet.
RollWithoutMoving(pda) ==
    IF slot - pda.window_start_slot >= SlotsPerDay
    THEN [pda EXCEPT !.spent_today = 0] ELSE pda

RollLate(pda) ==
    IF slot - pda.window_start_slot > SlotsPerDay
    THEN [limit |-> pda.limit, spent_today |-> 0, window_start_slot |-> slot]
    ELSE pda

\* The window is a tumbling one and restarts lazily: at the first transfer
\* checked a day or more after it started, at the slot of that transfer.
RollWindow(pda) ==
    IF slot - pda.window_start_slot >= SlotsPerDay
    THEN [limit |-> pda.limit, spent_today |-> 0, window_start_slot |-> slot]
    ELSE pda

\* A faulty variant: the sum wraps at the width of the field.
WithTransferWrapping(pda, amount) ==
    LET rolled == RollWindow(pda)
    IN  [rolled EXCEPT !.spent_today = (@ + amount) % (MaxU64 + 1)]

\* The PDA a transfer is checked against and, if it passes, written back.
WithTransfer(pda, amount) ==
    LET rolled == RollWindow(pda) IN [rolled EXCEPT !.spent_today = @ + amount]

\* What check_transfer answers for a transfer of this amount now.
Approves(k, amount) ==
    Configured(k) =>
        LET new_total == WithTransfer(dailyLimit[k], amount).spent_today
        IN  new_total <= MaxU64 /\ new_total <= dailyLimit[k].limit

\* A faulty variant: the total is compared before the amount is added.
CheckBeforeAdding(k, amount) ==
    /\ Configured(k) => RollWindow(dailyLimit[k]).spent_today < dailyLimit[k].limit
    /\ dailyLimit' = IF Configured(k)
                     THEN [dailyLimit EXCEPT ![k] = WithTransfer(@, amount)]
                     ELSE dailyLimit

\* A sender without the PDA passes and nothing is recorded; otherwise the
\* rolled window and the new total are written back.
CheckTransfer(k, amount) ==
    /\ Approves(k, amount)
    /\ dailyLimit' = IF Configured(k)
                     THEN [dailyLimit EXCEPT ![k] = WithTransfer(@, amount)]
                     ELSE dailyLimit

Tick ==
    /\ \E d \in SlotSteps : slot' = slot + d
    /\ slot' <= MaxSlot
    /\ UNCHANGED dailyLimit

Next ==
    \/ Tick
    \/ \E k \in Keys :
        \/ \E limit \in Limits : SetLimit(k, limit) /\ UNCHANGED slot
        \/ \E amount \in Amounts : CheckTransfer(k, amount) /\ UNCHANGED slot

Spec == Init /\ [][Next]_vars

-----------------------------------------------------------------------------
(* Properties. *)

Accounts == [limit : 1..MaxU64, spent_today : 0..MaxU64, window_start_slot : Nat]

\* Every PDA holds a value of its type; no window starts in the future, so
\* the saturating subtraction of the code never saturates.
TypeOK ==
    /\ slot \in Nat
    /\ dailyLimit \in [Keys -> Accounts \cup {NoAccount}]
    /\ \A k \in Keys : Configured(k) => dailyLimit[k].window_start_slot <= slot

\* Once a cap is set the PDA is never closed, its total goes down only by a
\* roll a full day after the window started, and a window start only ever
\* moves forward by at least a day: changing the cap is no way to get a
\* fresh allowance early.
NoEarlyReset ==
    [][\A k \in Keys : Configured(k) =>
         /\ dailyLimit'[k] # NoAccount
         /\ \/ /\ dailyLimit'[k].window_start_slot = dailyLimit[k].window_start_slot
               /\ dailyLimit'[k].spent_today >= dailyLimit[k].spent_today
            \/ dailyLimit'[k].window_start_slot >= dailyLimit[k].window_start_slot + SlotsPerDay
      ]_vars

\* A cap lowered below what was already spent stops every further transfer
\* that moves money until the window rolls: no step raises the total to more
\* than the cap in force.
NoSpendAboveCap ==
    [][\A k \in Keys : Configured(k) /\ dailyLimit'[k] # dailyLimit[k] =>
         \/ dailyLimit'[k].spent_today <= dailyLimit'[k].limit
         \/ dailyLimit'[k].spent_today = dailyLimit[k].spent_today
            /\ dailyLimit'[k].window_start_slot = dailyLimit[k].window_start_slot]_vars

\* The cap delays, it does not lock out: an amount within the cap is
\* admissible at some time in the next day unless the sender changes the
\* cap, however much of it other transfers use up meanwhile.
WithinCapIsAdmissible ==
    \A k \in Keys, amount \in Amounts \ {0}, limit \in Limits \ {0} :
        ( /\ Configured(k) /\ amount <= limit /\ dailyLimit[k].limit = limit
          /\ slot + SlotsPerDay <= MaxSlot )
        ~> (Approves(k, amount) \/ dailyLimit[k].limit # limit)
=============================================================================
