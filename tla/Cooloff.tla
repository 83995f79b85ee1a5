------------------------------ MODULE Cooloff ------------------------------
(***************************************************************************)
(* stede_rule_cooloff: after a transfer at or above the threshold, no      *)
(* other such transfer for duration_seconds.  One Cooloff PDA per (sender, *)
(* Stede mint) key; disable_cooloff closes it.  A call that returns an     *)
(* error changes nothing.                                                  *)
(***************************************************************************)
EXTENDS Integers

CONSTANTS
    Keys,           \* (sender, mint) pairs
    NoAccount,      \* a PDA that does not exist
    MaxDuration,    \* MAX_DURATION_SECONDS
    Thresholds,     \* thresholds a sender may ask for, zero included
    Durations,      \* durations a sender may ask for, also out of range
    Amounts,        \* amounts a transfer may carry
    ClockSteps,     \* by how much the clock may advance between transactions
    Epoch,          \* time at which the model starts
    MaxTime         \* bound of the model: the last time explored

\* The program runs at Unix times far above its longest duration, so that the
\* 0 of a PDA without a large transfer never looks like a recent one.
ASSUME CooloffAssumption ==
    /\ MaxDuration \in Nat \ {0}
    /\ Thresholds \subseteq Nat
    /\ Durations \subseteq Int
    /\ Amounts \subseteq Nat
    /\ ClockSteps \subseteq Nat
    /\ Epoch \in Nat /\ Epoch >= MaxDuration
    /\ MaxTime \in Nat
    /\ NoAccount \notin [threshold : Int, duration_seconds : Int,
                         last_large_transfer_at : Int]

VARIABLES
    cooloff,        \* the PDA of each key
    now             \* Clock.unix_timestamp

vars == <<cooloff, now>>

Configured(k) == cooloff[k] # NoAccount

Init ==
    /\ cooloff = [k \in Keys |-> NoAccount]
    /\ now = Epoch

\* A faulty variant: every call starts over, as the comment in set_cooloff.rs
\* warns against.
SetCooloffForgetting(k, threshold, duration) ==
    /\ threshold > 0
    /\ 1 <= duration /\ duration <= MaxDuration
    /\ cooloff' = [cooloff EXCEPT ![k] =
          [threshold |-> threshold, duration_seconds |-> duration,
           last_large_transfer_at |-> 0]]

\* A faulty variant: the bounds of the duration are not checked.
SetCooloffUnbounded(k, threshold, duration) ==
    /\ threshold > 0
    /\ cooloff' = [cooloff EXCEPT ![k] =
          [threshold |-> threshold, duration_seconds |-> duration,
           last_large_transfer_at |->
             IF Configured(k) THEN cooloff[k].last_large_transfer_at ELSE 0]]

SetCooloff(k, threshold, duration) ==
    /\ threshold > 0
    /\ 1 <= duration /\ duration <= MaxDuration
    /\ cooloff' = [cooloff EXCEPT ![k] =
          [threshold |-> threshold, duration_seconds |-> duration,
           last_large_transfer_at |->
             IF Configured(k) THEN cooloff[k].last_large_transfer_at ELSE 0]]

DisableCooloff(k) ==
    /\ Configured(k)
    /\ cooloff' = [cooloff EXCEPT ![k] = NoAccount]

IsLarge(k, amount) == Configured(k) /\ amount >= cooloff[k].threshold

\* What check_transfer answers for a transfer of this amount now.
Approves(k, amount) ==
    IsLarge(k, amount) =>
        now - cooloff[k].last_large_transfer_at >= cooloff[k].duration_seconds

\* A faulty variant: small transfers restart the timer as well.
CheckStampingEvery(k, amount) ==
    /\ Approves(k, amount)
    /\ cooloff' = IF Configured(k)
                  THEN [cooloff EXCEPT ![k].last_large_transfer_at = now]
                  ELSE cooloff

\* A small transfer passes without a trace; a large one that passes restarts
\* the timer.
CheckTransfer(k, amount) ==
    /\ Approves(k, amount)
    /\ cooloff' = IF IsLarge(k, amount)
                  THEN [cooloff EXCEPT ![k].last_large_transfer_at = now]
                  ELSE cooloff

\* Transactions of one block see one time, and blocks may share a second.
Tick ==
    /\ \E d \in ClockSteps : now' = now + d
    /\ now' <= MaxTime
    /\ UNCHANGED cooloff

Next ==
    \/ Tick
    \/ \E k \in Keys :
        \/ /\ \/ \E t \in Thresholds, d \in Durations : SetCooloff(k, t, d)
              \/ DisableCooloff(k)
              \/ \E amount \in Amounts : CheckTransfer(k, amount)
           /\ UNCHANGED now

Spec == Init /\ [][Next]_vars

-----------------------------------------------------------------------------
(* Properties. *)

Accounts == [threshold : Nat \ {0}, duration_seconds : 1..MaxDuration,
             last_large_transfer_at : Nat]

\* Every PDA holds a value of its type, and the timer is never in the future.
TypeOK ==
    /\ now \in Nat /\ now >= Epoch
    /\ cooloff \in [Keys -> Accounts \cup {NoAccount}]
    /\ \A k \in Keys : Configured(k) => cooloff[k].last_large_transfer_at <= now

\* As long as the rule stays enabled its timer only moves forward: no
\* reconfiguration and no transfer, passed or refused, takes it back.
TimerNeverMovesBack ==
    [][\A k \in Keys : Configured(k) /\ cooloff'[k] # NoAccount =>
         cooloff'[k].last_large_transfer_at >= cooloff[k].last_large_transfer_at]_vars

\* A cool-off ends: whatever the sender reconfigures, a transfer of any size
\* becomes admissible within MaxDuration.  Nothing but an approved large
\* transfer, which needed the same, starts the wait again.
CooloffEnds ==
    \A k \in Keys, amount \in Amounts :
        now + MaxDuration <= MaxTime ~> Approves(k, amount)
=============================================================================
