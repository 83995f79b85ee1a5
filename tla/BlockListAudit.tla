--------------------------- MODULE BlockListAudit ---------------------------
(***************************************************************************)
(* The block list with a record of what each sender asked for.  History    *)
(* only: no action of the list reads it.                                   *)
(***************************************************************************)
EXTENDS BlockList

VARIABLE
    asked           \* per key, the wallets that an addition blocked and no
                    \* later removal unblocked

auditVars == <<blockList, asked>>

AuditInit == Init /\ asked = [k \in Keys |-> {}]

AuditedAdd(k, w) == AddBlocked(k, w) /\ asked' = [asked EXCEPT ![k] = @ \cup {w}]

AuditedRemove(k, w) == RemoveBlocked(k, w) /\ asked' = [asked EXCEPT ![k] = @ \ {w}]

AuditedCheck(k, w) == CheckTransfer(k, w) /\ UNCHANGED asked

AuditNext ==
    \E k \in Keys, w \in Wallets \cup {Default} :
        AuditedAdd(k, w) \/ AuditedRemove(k, w) \/ AuditedCheck(k, w)

AuditSpec == AuditInit /\ [][AuditNext]_auditVars

\* After any calls, of any senders, the check refuses a sender exactly the
\* wallets it asked to block and has not unblocked since, wherever in the
\* array holes, reused slots and other wallets' removals have left them; it
\* never refuses a sender who has no list.
RefusesExactlyTheBlocked ==
    \A k \in Keys, w \in Wallets \cup {Default} : Approves(k, w) <=> w \notin asked[k]
=============================================================================
