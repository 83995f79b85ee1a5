----------------------------- MODULE SdkClient -----------------------------
(***************************************************************************)
(* The calls of the SDK's StedeClient that take several steps: transfer,   *)
(* previewTransfer and buildFriendGateTransfer.  Each resolves a handle,   *)
(* looks at the recipient's account, builds and submits; between any two   *)
(* of its awaits the chain moves on.  The client keeps nothing from one    *)
(* call to the next, so one call in progress and everybody else's          *)
(* transactions are enough.                                                *)
(*                                                                         *)
(* The rules the client knows about are here themselves: slow send, which  *)
(* this module extends, and the friend gate.  What the token program and   *)
(* the other rules answer is any answer.  A transaction is its top-level   *)
(* instructions, each the set of wallets it names, and its signers.        *)
(***************************************************************************)
EXTENDS SlowSend, Sequences

CONSTANTS
    Sender,         \* the key whose rules apply: the provider's wallet, the mint
    Payer,          \* the provider's wallet
    Friends,        \* wallets that may co-sign
    Default,        \* Pubkey::default()
    Amounts,        \* amounts a transfer may carry
    GateThresholds, \* thresholds of the friend gate
    Obstacles,      \* what else may stop a transfer, see Asked
    None            \* no call in progress; no refusal

ASSUME SdkClientAssumption ==
    /\ Sender \in Keys
    /\ Payer \notin Friends /\ Default \notin Friends \cup {Payer}
    /\ GateThresholds \subseteq Nat
    /\ Obstacles \subseteq {"funds", "overflow", "daily_limit", "block_list",
                            "cooloff", "night_mode"}
    /\ None \notin {"daily_limit", "block_list", "cooloff", "slow_send", "night_mode",
                     "friend_gate"}

VARIABLES
    friendGate,     \* the config PDA of each key
    ata,            \* recipients whose Stede token account exists
    call            \* the call in progress, or None

clientVars == <<vars, friendGate, ata, call>>

Gate == INSTANCE FriendGate
    WITH Wallets <- Friends \cup {Payer}, Thresholds <- GateThresholds,
         SenderOf <- [k \in Keys |-> Payer]

ClientInit ==
    /\ Init
    /\ Gate!Init
    /\ ata = {}
    /\ call = None

-----------------------------------------------------------------------------
(* What the chain answers a transaction now. *)

\* A faulty variant: the friend gate is asked before the other rules.
AskedGateFirst == <<"funds", "friend_gate", "overflow", "daily_limit", "block_list",
                    "cooloff", "slow_send", "night_mode">>

\* In the order of a transfer: the token program, then the rules as execute
\* calls them.  The daily limit fails in two ways.
Asked == <<"funds", "overflow", "daily_limit", "block_list",
           "cooloff", "slow_send", "night_mode", "friend_gate">>

Refusing(to, amount, tx, others) ==
    others \cup (IF Approves(Sender, to) THEN {} ELSE {"slow_send"})
           \cup (IF Gate!Approves(Sender, amount, tx, tx.transfer) THEN {}
                 ELSE {"friend_gate"})

\* The logs of a failed transaction, as the names they hold: every rule asked
\* logs its instruction, and the first that refuses ends the transaction with
\* the name of its error.  Overflow is the name of an error of several rules.
Logs(to, refusing) ==
    LET first == CHOOSE i \in 1..Len(Asked) :
                    Asked[i] \in refusing /\ \A j \in 1..(i - 1) : Asked[j] \notin refusing
        name  == [funds       |-> "insufficient",
                  overflow    |-> "Overflow",
                  daily_limit |-> "DailyLimitExceeded",
                  block_list  |-> "RecipientBlocked",
                  cooloff     |-> "CooloffActive",
                  slow_send   |-> IF Registered(Sender, to) THEN "WaitingPeriodActive"
                                  ELSE "RecipientNotRegistered",
                  night_mode  |-> "WithinBlockedWindow",
                  friend_gate |-> "FriendSignatureRequired"]
    IN  {"CheckTransfer", name[Asked[first]]}

\* Creating an account that exists fails, paying into one that does not too.
Lands(to, amount, create, tx, others) ==
    /\ create <=> to \notin ata
    /\ Refusing(to, amount, tx, others) = {}

-----------------------------------------------------------------------------
(* What the client makes of it. *)

\* The account's creation, paid for by the sender, comes first.
Creation(to, create) == IF create THEN <<{Payer, to}>> ELSE <<>>

\* A transaction, with the place of the transfer in it.
TransferTx(to, create) ==
    LET before == Creation(to, create)
    IN  [names |-> before \o <<{Payer}>>, signers |-> {Payer}, transfer |-> Len(before) + 1]

\* A faulty variant: the carrier follows the transfer.
CarrierLast(to, create, friend) ==
    LET before == Creation(to, create)
    IN  [names |-> before \o <<{Payer}, {friend}>>, signers |-> {Payer, friend},
         transfer |-> Len(before) + 1]

\* The carrier, an empty transfer of the friend to themselves, is there to
\* be signed.
CosignedTx(to, create, friend) ==
    LET before == Append(Creation(to, create), {friend})
    IN  [names |-> before \o <<{Payer}>>, signers |-> {Payer, friend},
         transfer |-> Len(before) + 1]

\* The names classifyRefusal knows, in the order in which it looks for them.
Scanned == <<"daily_limit", "block_list", "cooloff", "slow_send", "night_mode", "friend_gate">>
ErrorsOf ==
    [daily_limit |-> {"DailyLimitExceeded"},
     block_list  |-> {"RecipientBlocked"},
     cooloff     |-> {"CooloffActive"},
     slow_send   |-> {"RecipientNotRegistered", "WaitingPeriodActive"},
     night_mode  |-> {"WithinBlockedWindow"},
     friend_gate |-> {"FriendSignatureRequired"}]

\* The first rule of which the logs hold a name, wherever in the logs it is.
classifyRefusal(logs) ==
    LET found(i) == ErrorsOf[Scanned[i]] \cap logs # {}
    IN  IF \E i \in 1..6 : found(i)
        THEN Scanned[CHOOSE i \in 1..6 : found(i) /\ \A j \in 1..(i - 1) : ~found(j)]
        ELSE None

Approved  == [approved |-> TRUE, refusedBy |-> None, error |-> FALSE]
Unclaimed == [approved |-> FALSE, refusedBy |-> None, error |-> FALSE]
Failed    == [approved |-> FALSE, refusedBy |-> None, error |-> TRUE]

\* The answer to a failure, simulated or thrown.
Explained(logs) ==
    LET rule == classifyRefusal(logs)
    IN  IF rule = None THEN Failed
        ELSE [approved |-> FALSE, refusedBy |-> rule, error |-> FALSE]

\* What previewTransfer returns if its simulation runs now.
Preview(to, amount, others) ==
    LET refusing == Refusing(to, amount, TransferTx(to, FALSE), others)
    IN  IF to \notin ata THEN Explained({"InvalidAccountData"})
        ELSE IF refusing = {} THEN Approved
        ELSE Explained(Logs(to, refusing))

\* resolveHandle answers whoever owns the handle, any wallet: see
\* HandleDirectory.
Resolve(kind, to, amount, friend) ==
    /\ call = None
    /\ kind = "cosign" <=> friend # None
    /\ call' = [kind |-> kind, stage |-> "resolved", to |-> to, amount |-> amount,
                friend |-> friend]
    /\ UNCHANGED <<vars, friendGate, ata>>

\* Of an unclaimed handle a preview says so; the other calls throw, and end
\* as they began.
ResolveUnclaimed(amount) ==
    /\ call = None
    /\ call' = [kind |-> "preview", stage |-> "answered", to |-> None, amount |-> amount,
                friend |-> None, answer |-> Unclaimed]
    /\ UNCHANGED <<vars, friendGate, ata>>

\* The call with one more field.
Filled(c, field, value) ==
    [f \in DOMAIN c \cup {field} |-> IF f = field THEN value ELSE c[f]]

In(stage, kinds) == call # None /\ call.stage = stage /\ call.kind \in kinds

\* getAccountInfo, of the recipient's account; a preview does not ask.
LookUp ==
    /\ In("resolved", {"transfer", "cosign"})
    /\ call' = Filled([call EXCEPT !.stage = "looked"], "create", call.to \notin ata)
    /\ UNCHANGED <<vars, friendGate, ata>>

\* A preview returns.
Answer(answer) == call' = Filled([call EXCEPT !.stage = "answered"], "answer", answer)

\* The address of the slow-send contact is derived from the owner written in
\* the recipient's account: without that account the transfer cannot be
\* built, and the call throws.  A preview catches the exception and explains
\* its message.
Build ==
    /\ In("looked", {"transfer", "cosign"}) \/ In("resolved", {"preview"})
    /\ \/ call.to \in ata /\ call' = [call EXCEPT !.stage = "built"]
       \/ call.to \notin ata /\ call.kind # "preview" /\ call' = [call EXCEPT !.stage = "threw"]
       \/ call.to \notin ata /\ call.kind = "preview" /\ Answer(Explained({"AccountDataNotFound"}))
    /\ UNCHANGED <<vars, friendGate, ata>>

\* A request that fails is caught too.
Simulate(others) ==
    /\ In("built", {"preview"})
    /\ Answer(Preview(call.to, call.amount, others)) \/ Answer(Explained({"request failed"}))
    /\ UNCHANGED <<vars, friendGate, ata>>

\* External: the friend and the sender sign what the caller shows them.
Cosign ==
    /\ In("built", {"cosign"})
    /\ call' = [call EXCEPT !.stage = "signed"]
    /\ UNCHANGED <<vars, friendGate, ata>>

Tx == IF call.kind = "cosign" THEN CosignedTx(call.to, call.create, call.friend)
      ELSE TransferTx(call.to, call.create)

\* sendAndConfirm, or the caller's own submission.
Submit(others) ==
    /\ In("built", {"transfer"}) \/ In("signed", {"cosign"})
    /\ Lands(call.to, call.amount, call.create, Tx, others)
    /\ ata' = ata \cup {call.to}
    /\ call' = None
    /\ UNCHANGED <<vars, friendGate>>

\* The call returns, throws or is given up: an RPC request fails, the
\* transaction is refused, expires or is never signed.
Return ==
    /\ call # None
    /\ call' = None
    /\ UNCHANGED <<vars, friendGate, ata>>

\* setFriendGate and disableFriendGate, of this client or another.
ChangeFriendGate ==
    /\ \/ \E t \in GateThresholds, w \in Friends \cup {Payer, Default} :
            Gate!SetFriendGate(Sender, t, w)
       \/ Gate!DisableFriendGate(Sender)
    /\ UNCHANGED <<vars, ata, call>>

\* External: a wallet opens its token account, or empties and closes it.
OpenOrClose(r) ==
    /\ \/ r \notin ata /\ ata' = ata \cup {r}
       \/ r \in ata /\ ata' = ata \ {r}
    /\ UNCHANGED <<vars, friendGate, call>>

\* Transactions of slow send, registerRecipient of this client among them.
ChangeSlowSend == Next /\ UNCHANGED <<friendGate, ata, call>>

ClientNext ==
    \/ \E to \in Recipients, amount \in Amounts :
        \/ \E kind \in {"transfer", "preview"} : Resolve(kind, to, amount, None)
        \/ \E friend \in Friends : Resolve("cosign", to, amount, friend)
    \/ \E amount \in Amounts : ResolveUnclaimed(amount)
    \/ LookUp \/ Build \/ Cosign \/ Return
    \/ \E others \in SUBSET Obstacles : Simulate(others) \/ Submit(others)
    \/ ChangeFriendGate \/ ChangeSlowSend
    \/ \E r \in Recipients : OpenOrClose(r)

ClientSpec == ClientInit /\ [][ClientNext]_clientVars
FairClientSpec ==
    ClientSpec /\ WF_clientVars(Tick /\ UNCHANGED <<friendGate, ata, call>>)

-----------------------------------------------------------------------------
(* Properties. *)

Answers ==
    [approved : {FALSE}, refusedBy : {Scanned[i] : i \in 1..6}, error : {FALSE}]
    \cup {Approved, Unclaimed, Failed}

\* Every account holds a value of its type, a call on its way to the chain has
\* a recipient, and the answer of a preview is one of four: approved, refused
\* by a rule, failed, or, which src/sdk/README.md does not list, neither
\* because nobody owns the handle.
ClientTypeOK ==
    /\ TypeOK
    /\ Gate!TypeOK
    /\ ata \subseteq Recipients
    /\ call # None =>
        /\ call.amount \in Amounts
        /\ call.friend \in Friends \cup {None}
        /\ call.stage # "answered" => call.to \in Recipients
        /\ call.stage = "answered" => call.answer \in Answers

\* The transfer that a preview has approved passes slow send and the friend
\* gate for as long as the answer is held: whatever time passes and whoever
\* calls what meanwhile, it comes to be refused by one of them only because
\* the sender sets that rule anew.
Held(to, amount) ==
    /\ In("answered", {"preview"}) /\ call.answer = Approved
    /\ call.to = to /\ call.amount = amount
OwnRulesPass(to, amount) == Refusing(to, amount, TransferTx(to, FALSE), {}) = {}
SenderSetsARule ==
    \/ \E delay \in Delays : SetSlowSend(Sender, delay)
    \/ \E t \in GateThresholds, w \in Friends \cup {Payer, Default} :
           Gate!SetFriendGate(Sender, t, w)
ApprovalsLast ==
    [][ \A to \in Recipients, amount \in Amounts :
          Held(to, amount) /\ OwnRulesPass(to, amount) =>
            OwnRulesPass(to, amount)' \/ SenderSetsARule ]_clientVars

\* When a preview says that a friend must co-sign, that is all that is
\* missing: the transaction built with the friend on record lands.  It rests
\* on the friend gate being the last rule asked and on the order of the
\* instructions.
FriendIsAllThatIsMissing ==
    \A to \in ata, amount \in Amounts, others \in SUBSET Obstacles :
        Preview(to, amount, others).refusedBy = "friend_gate" =>
            Lands(to, amount, FALSE,
                  CosignedTx(to, FALSE, friendGate[Sender].friend_wallet), others)

\* A transaction that the friend has signed is never refused for want of a
\* friend, with or without an instruction that creates the account, unless
\* the sender has meanwhile chosen another friend.
CosignedPassesTheGate ==
    In("signed", {"cosign"}) /\ Gate!Configured(Sender)
      /\ friendGate[Sender].friend_wallet = call.friend =>
        Gate!Approves(Sender, call.amount, Tx, Tx.transfer)

\* At or above the threshold money moves on two signatures: no transaction
\* of the client that lands is signed by the sender alone.
TwoSignatures ==
    [][ Gate!Configured(Sender) /\ (\E others \in SUBSET Obstacles : Submit(others))
          /\ call.amount >= friendGate[Sender].threshold => Tx.signers # {Payer} ]_clientVars

\* A call that has seen that the recipient has no account does not throw for
\* want of it: src/sdk/README.md says that the account is created in a
\* transaction of its own, confirmed before the transfer is built.
CreatesTheAccountFirst == In("threw", {"transfer", "cosign"}) => ~call.create
=============================================================================
