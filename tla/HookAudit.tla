----------------------------- MODULE HookAudit -----------------------------
(***************************************************************************)
(* The hook with a record of the transfers that went through while the     *)
(* authority had a daily limit.  The record is history only.               *)
(***************************************************************************)
EXTENDS StedeHook, FiniteSetsExt

\* For OpensTogether: whoever may be named as a friend can sign a transaction.
ASSUME FriendsCanSign ==
    /\ Transactions # {}
    /\ \A v \in Friends : \E tx \in Transactions :
          v \in Gate!SignersSeen(tx, Len(tx.names))

VARIABLE settled    \* per authority and slot, the total moved in it or later

auditVars == <<vars, settled>>

AuditInit == Init /\ settled = [w \in Wallets |-> [s \in 0..MaxSlot |-> 0]]

AuditedTransfer(authority, source, recipient, amount, tx, i) ==
    /\ Transfer(authority, source, recipient, amount, tx, i)
    /\ settled' = IF Daily!Configured(authority)
                  THEN [settled EXCEPT ![authority] = [s \in 0..MaxSlot |->
                            IF s <= slot THEN settled[authority][s] + amount
                            ELSE settled[authority][s]]]
                  ELSE settled

AuditNext ==
    \/ Tick /\ UNCHANGED settled
    \/ InitializeExtraAccountMetaList /\ UNCHANGED settled
    \/ \E w \in RuleUsers :
        /\ ChangeRules(w) \/ \E amount \in Amounts : DirectCheck(w, amount)
        /\ UNCHANGED settled
    \/ \E tx \in Transactions, amount \in Amounts, recipient \in Payees :
        \E i \in 1..Len(tx.names) :
            \/ \E source \in Wallets, authority \in Wallets :
                  AuditedTransfer(authority, source, recipient, amount, tx, i)
            \/ \E authority \in RuleUsers :
                  DirectExecute(authority, recipient, amount, tx, i) /\ UNCHANGED settled

AuditSpec == AuditInit /\ [][AuditNext]_auditVars

\* The total in the daily limit's account never falls short of the money
\* that really moved in its window, whatever calls are made around the hook:
\* a direct call can use up the allowance, none can give it back.
SettledWithinSpent ==
    \A w \in Wallets : Daily!Configured(w) =>
        settled[w][dailyLimit[w].window_start_slot] <= dailyLimit[w].spent_today

Later(d) == INSTANCE StedeHook WITH slot <- slot + d, now <- now + d

\* What no waiting helps against: a blocked payee, more than the cap, a payee
\* not registered, a friend who does not sign.
RefusedForGood(w, v, amount) ==
    \/ ~Block!Approves(w, v)
    \/ Daily!Configured(w) /\ amount > dailyLimit[w].limit
    \/ Slow!Enabled(w) /\ ~Slow!Registered(w, v)

LongestWait == Max({SlotsPerDay, MaxDuration, MaxDelay}) + Window!SecondsPerDay

\* The rules do not lock each other out: whatever their settings and their
\* history, a transfer that is not refused for good and that the friend
\* signs has a moment in the next days at which all six rules let it pass.
\* The waits of the cap, the cool-off and slow send run in parallel and the
\* time window opens once more within a day after them.
OpensTogether ==
    \A w \in RuleUsers, v \in Payees, amount \in Amounts :
        ~RefusedForGood(w, v, amount) =>
            \E d \in 0..LongestWait, tx \in Transactions :
                Later(d)!Approves(w, v, amount, tx, Len(tx.names))
=============================================================================
