------------------------------ MODULE SlowSend ------------------------------
(***************************************************************************)
(* stede_rule_new_recipient_delay: a sender who enables slow send pays     *)
(* only recipients registered at least delay_seconds ago.  The config PDA  *)
(* is per (sender, Stede mint) key; the contact PDA, per key and           *)
(* recipient, is created by register_recipient, with or without a config,  *)
(* and never closed.  A call that returns an error changes nothing.        *)
(***************************************************************************)
EXTENDS Integers

CONSTANTS
    Keys,           \* (sender, mint) pairs
    Recipients,     \* wallets that can be paid
    NoAccount,      \* a PDA that does not exist
    MaxDelay,       \* MAX_DELAY_SECONDS
    Delays,         \* delays a sender may ask for, also out of range
    ClockSteps,     \* by how much the clock may advance between transactions
    Epoch,          \* time at which the model starts
    MaxTime         \* bound of the model: the last time explored

ASSUME SlowSendAssumption ==
    /\ MaxDelay \in Nat \ {0}
    /\ Delays \subseteq Int
    /\ ClockSteps \subseteq Nat
    /\ Epoch \in Nat
    /\ MaxTime \in Nat
    /\ NoAccount \notin Int

VARIABLES
    slowSend,       \* delay_seconds of each key's config PDA
    contact,        \* first_contact_at of each key and recipient
    now             \* Clock.unix_timestamp

vars == <<slowSend, contact, now>>

Enabled(k) == slowSend[k] # NoAccount
Registered(k, r) == contact[k][r] # NoAccount

Init ==
    /\ slowSend = [k \in Keys |-> NoAccount]
    /\ contact = [k \in Keys |-> [r \in Recipients |-> NoAccount]]
    /\ now = Epoch

\* A faulty variant: the bounds of the delay are not checked.
SetSlowSendUnbounded(k, delay) ==
    /\ slowSend' = [slowSend EXCEPT ![k] = delay]
    /\ UNCHANGED contact

SetSlowSend(k, delay) ==
    /\ 1 <= delay /\ delay <= MaxDelay
    /\ slowSend' = [slowSend EXCEPT ![k] = delay]
    /\ UNCHANGED contact

\* A faulty variant: disabling the rule forgets its contacts.
DisableSlowSendForgetting(k) ==
    /\ Enabled(k)
    /\ slowSend' = [slowSend EXCEPT ![k] = NoAccount]
    /\ contact' = [contact EXCEPT ![k] = [r \in Recipients |-> NoAccount]]

DisableSlowSend(k) ==
    /\ Enabled(k)
    /\ slowSend' = [slowSend EXCEPT ![k] = NoAccount]
    /\ UNCHANGED contact

\* A faulty variant: init_if_needed in the place of init.
RegisterAgain(k, r) ==
    /\ contact' = [contact EXCEPT ![k][r] = now]
    /\ UNCHANGED slowSend

RegisterRecipient(k, r) ==
    /\ ~Registered(k, r)
    /\ contact' = [contact EXCEPT ![k][r] = now]
    /\ UNCHANGED slowSend

Ripe(k, r, delay) == Registered(k, r) /\ now - contact[k][r] >= delay

\* What check_transfer answers for a recipient now; it changes nothing.
Approves(k, r) == Enabled(k) => Ripe(k, r, slowSend[k])

CheckTransfer(k, r) == Approves(k, r) /\ UNCHANGED <<slowSend, contact>>

Tick ==
    /\ \E d \in ClockSteps : now' = now + d
    /\ now' <= MaxTime
    /\ UNCHANGED <<slowSend, contact>>

Next ==
    \/ Tick
    \/ \E k \in Keys :
        \/ /\ \/ \E delay \in Delays : SetSlowSend(k, delay)
              \/ DisableSlowSend(k)
              \/ \E r \in Recipients : RegisterRecipient(k, r) \/ CheckTransfer(k, r)
           /\ UNCHANGED now

Spec == Init /\ [][Next]_vars

-----------------------------------------------------------------------------
(* Properties. *)

\* Every PDA holds a value of its type; no contact is registered in the
\* future.
TypeOK ==
    /\ now \in Nat
    /\ slowSend \in [Keys -> 1..MaxDelay \cup {NoAccount}]
    /\ contact \in [Keys -> [Recipients -> Nat \cup {NoAccount}]]
    /\ \A k \in Keys, r \in Recipients : Registered(k, r) => contact[k][r] <= now

\* A waiting period once over stays over, for any delay: registering again,
\* disabling the rule and enabling it again, and changing the delay do not
\* restart it.  A recipient who may be paid can be refused later only because
\* the sender enables the rule or asks for a longer delay.
RipeStaysRipe ==
    [][\A k \in Keys, r \in Recipients, delay \in 1..MaxDelay :
         Ripe(k, r, delay) => Ripe(k, r, delay)']_vars

\* A registered recipient can be paid within MaxDelay, whatever the sender
\* does to the settings meanwhile.
EveryContactRipens ==
    \A k \in Keys, r \in Recipients :
        (Registered(k, r) /\ now + MaxDelay <= MaxTime) ~> Approves(k, r)
=============================================================================
