---------------------------- MODULE HookPipeline ----------------------------
(***************************************************************************)
(* A transfer as the runtime executes it: Token-2022 moves the tokens, then*)
(* calls execute, which calls the rules one after the other.  The first    *)
(* two writing rules have written by the time a later one refuses; the     *)
(* runtime then restores every account the transaction touched.  Accounts  *)
(* being written are locked, so no other transaction interleaves.          *)
(*                                                                         *)
(* The variables of StedeHook hold what the programs see while a           *)
(* transaction runs; committed is what everybody else sees, and that is a  *)
(* behaviour of StedeHook.                                                 *)
(***************************************************************************)
EXTENDS StedeHook

CONSTANT None       \* no transaction is running

VARIABLES
    call,           \* the transfer being executed, or None
    committed       \* the accounts a transfer writes, as of the last commit

pipeVars == <<vars, call, committed>>

Idle == call = None

Stages == {"daily", "block", "cooloff", "slow", "window", "gate", "passed"}

Calls ==
    [stage : Stages, authority : Wallets, source : Wallets, recipient : Wallets,
     amount : Amounts, tx : Transactions, index : Nat]

ASSUME HookPipelineAssumption == None \notin Calls

Accounts == [dailyLimit |-> dailyLimit, cooloff |-> cooloff, balance |-> balance]

PipeInit == Init /\ call = None /\ committed = Accounts

\* Token-2022 validates the transfer and moves the tokens before it calls.
Begin(authority, source, recipient, amount, tx, i) ==
    /\ Idle
    /\ authority \in {source, Delegates[source]}
    /\ Authorises(authority, tx, i)
    /\ source # recipient
    /\ amount <= balance[source]
    /\ balance' = Moved(source, recipient, amount)
    /\ call' = [stage |-> "daily", authority |-> authority, source |-> source,
                recipient |-> recipient, amount |-> amount, tx |-> tx, index |-> i]
    /\ UNCHANGED <<rules, clock, meta_list, committed>>

At(stage, next) ==
    /\ ~Idle /\ call.stage = stage
    /\ call' = [call EXCEPT !.stage = next]
    /\ UNCHANGED <<clock, meta_list, balance, committed>>

\* The calls of execute, in its order; each goes on only if the rule passes.
\* The accounts of the first, and so of all, resolve through the list.
AskDailyLimit ==
    /\ At("daily", "block")
    /\ meta_list
    /\ Daily!CheckTransfer(call.authority, call.amount)
    /\ UNCHANGED <<blockList, cooloff, slowSend, contact, timeWindow, friendGate>>

AskBlockList ==
    /\ At("block", "cooloff")
    /\ Block!CheckTransfer(call.authority, call.recipient)
    /\ UNCHANGED <<dailyLimit, cooloff, slowSend, contact, timeWindow, friendGate>>

\* A faulty variant: the call to the cool-off is left out.
AskCooloffSkipped ==
    /\ At("cooloff", "slow")
    /\ UNCHANGED rules

AskCooloff ==
    /\ At("cooloff", "slow")
    /\ Cool!CheckTransfer(call.authority, call.amount)
    /\ UNCHANGED <<dailyLimit, blockList, slowSend, contact, timeWindow, friendGate>>

AskSlowSend ==
    /\ At("slow", "window")
    /\ Slow!CheckTransfer(call.authority, call.recipient)
    /\ UNCHANGED <<dailyLimit, blockList, cooloff, timeWindow, friendGate>>

AskTimeWindow ==
    /\ At("window", "gate")
    /\ Window!CheckTransfer(call.authority)
    /\ UNCHANGED <<dailyLimit, blockList, cooloff, slowSend, contact, friendGate>>

AskFriendGate ==
    /\ At("gate", "passed")
    /\ Gate!CheckTransfer(call.authority, call.amount, call.tx, call.index)
    /\ UNCHANGED <<dailyLimit, blockList, cooloff, slowSend, contact, timeWindow>>

Commit ==
    /\ ~Idle /\ call.stage = "passed"
    /\ call' = None
    /\ committed' = Accounts
    /\ UNCHANGED vars

\* A rule refuses, or the transaction fails for a reason of its own (a later
\* instruction, the compute budget): every account is as it was.
Abort ==
    /\ ~Idle
    /\ call' = None
    /\ dailyLimit' = committed.dailyLimit
    /\ cooloff' = committed.cooloff
    /\ balance' = committed.balance
    /\ UNCHANGED <<blockList, slowSend, contact, timeWindow, friendGate>>
    /\ UNCHANGED <<clock, meta_list, committed>>

\* Transactions of one step, which are committed at once.
OtherTransaction ==
    /\ Idle /\ call' = call
    /\ \/ Tick
       \/ InitializeExtraAccountMetaList
       \/ \E w \in RuleUsers :
            ChangeRules(w) \/ \E amount \in Amounts : DirectCheck(w, amount)
    /\ committed' = Accounts'

PipeNext ==
    \/ OtherTransaction
    \/ \E tx \in Transactions, amount \in Amounts, recipient \in Payees :
        \E i \in 1..Len(tx.names), source \in Wallets, authority \in Wallets :
            Begin(authority, source, recipient, amount, tx, i)
    \/ AskDailyLimit \/ AskBlockList \/ AskCooloff
    \/ AskSlowSend \/ AskTimeWindow \/ AskFriendGate
    \/ Commit \/ Abort

PipeSpec == PipeInit /\ [][PipeNext]_pipeVars

-----------------------------------------------------------------------------
(* Properties. *)

\* Every account holds a value of its type, also halfway.
PipeTypeOK == TypeOK /\ call \in Calls \cup {None}

Atomic == INSTANCE StedeHook WITH dailyLimit <- committed.dailyLimit,
                                  cooloff <- committed.cooloff,
                                  balance <- committed.balance

\* All or nothing: what is committed changes as if a transfer were one step
\* that all six rules pass together.  A refusal at any stage leaves no mark,
\* neither on the balances nor on the allowance or the timer that earlier
\* rules had already written.
ImplementsHook == Atomic!Spec
=============================================================================
