----------------------------- MODULE StedeHook -----------------------------
(***************************************************************************)
(* stede_hook over its six rules, for one Stede mint.  Token-2022 runs     *)
(* execute on every transfer; it calls check_transfer of each rule, and    *)
(* the first that refuses fails the whole transaction.  A transaction is   *)
(* atomic, so a transfer is one step here and a failed one none;           *)
(* HookPipeline takes that step apart.                                     *)
(*                                                                         *)
(* The PDAs a transfer is checked against are those of the wallet that     *)
(* authorises it, account 3 of the instruction: the owner of the source    *)
(* account, or a delegate the owner approved at Token-2022.                *)
(***************************************************************************)
EXTENDS Integers, Sequences

CONSTANTS
    Wallets,            \* wallets, each with a Stede token account
    NoAccount,          \* a PDA that does not exist
    Default,            \* Pubkey::default()
    Delegates,          \* external: the delegate of each wallet, or itself
    Endowment,          \* Stede tokens each wallet starts with
    Amounts,            \* amounts a transfer may carry
    Transactions,       \* [signers, names]: see FriendGate
    SlotsPerDay, MaxU64, MaxBlocked, MaxDuration, MaxDelay,
    HoursPerDay, SecondsPerHour,
    Limits, CooloffThresholds, Durations, Delays, Hours, GateThresholds,
    SlotSteps, ClockSteps, Epoch,
    RuleUsers,          \* bound of the model: wallets that set rules
    Payees,             \* bound of the model: wallets that are paid
    Friends,            \* bound of the model: wallets named as friends
    MaxSlot, MaxTime    \* bounds of the model: the last slot and time explored

ASSUME StedeHookAssumption ==
    /\ Delegates \in [Wallets -> Wallets]
    /\ Endowment \in [Wallets -> Nat]
    /\ GateThresholds \subseteq Nat
    /\ RuleUsers \subseteq Wallets /\ Payees \subseteq Wallets /\ Friends \subseteq Wallets

VARIABLES
    dailyLimit, blockList, cooloff, slowSend, contact, timeWindow, friendGate,
    slot, now,          \* Clock.slot, Clock.unix_timestamp
    meta_list,          \* whether the mint's ExtraAccountMetaList exists
    balance             \* Stede tokens of each wallet

Daily  == INSTANCE DailyLimit WITH Keys <- Wallets
Block  == INSTANCE BlockList WITH Keys <- Wallets
Cool   == INSTANCE Cooloff WITH Keys <- Wallets, Thresholds <- CooloffThresholds
Slow   == INSTANCE SlowSend WITH Keys <- Wallets, Recipients <- Wallets
Window == INSTANCE TimeWindow WITH Keys <- Wallets
Gate   == INSTANCE FriendGate WITH Keys <- Wallets, Thresholds <- GateThresholds,
                                   SenderOf <- [w \in Wallets |-> w]

\* What each rule assumes of its constants.
ASSUME RulesAssumption ==
    /\ Daily!DailyLimitAssumption /\ Block!BlockListAssumption
    /\ Cool!CooloffAssumption /\ Slow!SlowSendAssumption
    /\ Window!TimeWindowAssumption

rules == <<dailyLimit, blockList, cooloff, slowSend, contact, timeWindow, friendGate>>
clock == <<slot, now>>
vars == <<rules, clock, meta_list, balance>>

Init ==
    /\ Daily!Init /\ Block!Init /\ Cool!Init /\ Slow!Init /\ Window!Init /\ Gate!Init
    /\ meta_list = FALSE
    /\ balance = Endowment

-----------------------------------------------------------------------------
(* The hook. *)

\* Creating the account fails when it exists.
InitializeExtraAccountMetaList ==
    /\ ~meta_list
    /\ meta_list' = TRUE
    /\ UNCHANGED <<rules, clock, balance>>

\* Whether all six rules would pass a transfer now.
Approves(authority, recipient, amount, tx, i) ==
    /\ Daily!Approves(authority, amount)
    /\ Block!Approves(authority, recipient)
    /\ Cool!Approves(authority, amount)
    /\ Slow!Approves(authority, recipient)
    /\ Window!Approves(authority)
    /\ Gate!Approves(authority, amount, tx, i)

\* A faulty variant: the daily limit is not asked.
ExecuteSkippingDailyLimit(authority, recipient, amount, tx, i) ==
    /\ Block!CheckTransfer(authority, recipient)
    /\ Cool!CheckTransfer(authority, amount)
    /\ Slow!CheckTransfer(authority, recipient)
    /\ Window!CheckTransfer(authority)
    /\ Gate!CheckTransfer(authority, amount, tx, i)
    /\ UNCHANGED <<clock, meta_list, dailyLimit>>

\* Each rule is asked in turn and all of them must agree.  The daily limit
\* and the cool-off write back.
Execute(authority, recipient, amount, tx, i) ==
    /\ Daily!CheckTransfer(authority, amount)
    /\ Block!CheckTransfer(authority, recipient)
    /\ Cool!CheckTransfer(authority, amount)
    /\ Slow!CheckTransfer(authority, recipient)
    /\ Window!CheckTransfer(authority)
    /\ Gate!CheckTransfer(authority, amount, tx, i)
    /\ UNCHANGED <<clock, meta_list>>

\* Whether instruction i of the transaction can be a transfer that this
\* wallet authorises.
Authorises(w, tx, i) == w \in tx.signers \cap tx.names[i]

Moved(source, recipient, amount) ==
    [balance EXCEPT ![source] = @ - amount, ![recipient] = @ + amount]

\* Token-2022 moves the tokens and calls the hook, whose extra accounts it
\* resolves through the list.
Transfer(authority, source, recipient, amount, tx, i) ==
    /\ authority \in {source, Delegates[source]}
    /\ Authorises(authority, tx, i)
    /\ source # recipient
    /\ amount <= balance[source]
    /\ meta_list
    /\ Execute(authority, recipient, amount, tx, i)
    /\ balance' = Moved(source, recipient, amount)

\* The hook and the rules are programs anyone can call: execute with no
\* transfer behind it, which reads no list, or the check of one of the rules
\* that write.
DirectExecute(authority, recipient, amount, tx, i) ==
    /\ Execute(authority, recipient, amount, tx, i)
    /\ UNCHANGED balance

DirectCheck(w, amount) ==
    /\ \/ /\ Daily!CheckTransfer(w, amount)
          /\ UNCHANGED <<blockList, cooloff, slowSend, contact, timeWindow, friendGate>>
       \/ /\ Cool!CheckTransfer(w, amount)
          /\ UNCHANGED <<dailyLimit, blockList, slowSend, contact, timeWindow, friendGate>>
    /\ UNCHANGED <<clock, meta_list, balance>>

-----------------------------------------------------------------------------
(* The settings of each rule. *)

ChangeDailyLimit(w) ==
    /\ \E limit \in Limits : Daily!SetLimit(w, limit)
    /\ UNCHANGED <<blockList, cooloff, slowSend, contact, timeWindow, friendGate>>

ChangeBlockList(w) ==
    /\ \E v \in Payees : Block!AddBlocked(w, v) \/ Block!RemoveBlocked(w, v)
    /\ UNCHANGED <<dailyLimit, cooloff, slowSend, contact, timeWindow, friendGate>>

ChangeCooloff(w) ==
    /\ \/ \E t \in CooloffThresholds, d \in Durations : Cool!SetCooloff(w, t, d)
       \/ Cool!DisableCooloff(w)
    /\ UNCHANGED <<dailyLimit, blockList, slowSend, contact, timeWindow, friendGate>>

ChangeSlowSend(w) ==
    /\ \/ \E d \in Delays : Slow!SetSlowSend(w, d)
       \/ Slow!DisableSlowSend(w)
       \/ \E v \in Payees : Slow!RegisterRecipient(w, v)
    /\ UNCHANGED <<dailyLimit, blockList, cooloff, timeWindow, friendGate>>

ChangeTimeWindow(w) ==
    /\ \/ \E h, g \in Hours : Window!SetTimeWindow(w, h, g)
       \/ Window!DisableTimeWindow(w)
    /\ UNCHANGED <<dailyLimit, blockList, cooloff, slowSend, contact, friendGate>>

ChangeFriendGate(w) ==
    /\ \/ \E t \in GateThresholds, v \in Friends : Gate!SetFriendGate(w, t, v)
       \/ Gate!DisableFriendGate(w)
    /\ UNCHANGED <<dailyLimit, blockList, cooloff, slowSend, contact, timeWindow>>

ChangeRules(w) ==
    /\ \/ ChangeDailyLimit(w) \/ ChangeBlockList(w) \/ ChangeCooloff(w)
       \/ ChangeSlowSend(w) \/ ChangeTimeWindow(w) \/ ChangeFriendGate(w)
    /\ UNCHANGED <<clock, meta_list, balance>>

\* A block later: the slot has advanced, and the clock may have.
Tick ==
    /\ \E d \in SlotSteps : slot' = slot + d
    /\ \E d \in ClockSteps : now' = now + d
    /\ slot' <= MaxSlot /\ now' <= MaxTime
    /\ UNCHANGED <<rules, meta_list, balance>>

Next ==
    \/ Tick
    \/ InitializeExtraAccountMetaList
    \/ \E w \in RuleUsers : ChangeRules(w) \/ \E amount \in Amounts : DirectCheck(w, amount)
    \/ \E tx \in Transactions, amount \in Amounts, recipient \in Payees :
        \E i \in 1..Len(tx.names) :
            \/ \E source \in Wallets, authority \in Wallets :
                  Transfer(authority, source, recipient, amount, tx, i)
            \/ \E authority \in RuleUsers :
                  DirectExecute(authority, recipient, amount, tx, i)

Spec == Init /\ [][Next]_vars
FairSpec == Spec /\ WF_vars(Tick)

-----------------------------------------------------------------------------
(* Properties. *)

\* Every account holds a value of its type.
TypeOK ==
    /\ Daily!TypeOK /\ Block!TypeOK /\ Cool!TypeOK /\ Slow!TypeOK /\ Window!TypeOK
    /\ Gate!TypeOK
    /\ meta_list \in BOOLEAN
    /\ balance \in [Wallets -> Nat]

\* Under the hook the time window refuses a wallet's transfers exactly while
\* the hand has passed start_hour and not yet end_hour.
RefusedExactlyWithin == Window!RefusedExactlyWithin

\* No setting of the time window closes an account round the clock.
OpensEveryDay == Window!OpensEveryDay
=============================================================================
