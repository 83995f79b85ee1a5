-------------------------- MODULE DailyLimitAudit --------------------------
(***************************************************************************)
(* The daily cap with a record of what it let through: the amounts approved*)
(* while a cap was set, as running totals by slot, and the highest cap ever*)
(* set.  The record is history only; no action reads it.                   *)
(***************************************************************************)
EXTENDS DailyLimit

VARIABLES
    approved,       \* per key and slot, the total approved in it or later
    peak            \* per key, the highest cap ever in force

auditVars == <<vars, approved, peak>>

\* The slots of the record, with one after the last.
History == 0..(MaxSlot + 1)

AuditInit ==
    /\ Init
    /\ approved = [k \in Keys |-> [s \in History |-> 0]]
    /\ peak = [k \in Keys |-> 0]

AuditedSetLimit(k, limit) ==
    /\ SetLimit(k, limit)
    /\ peak' = [peak EXCEPT ![k] = IF limit > @ THEN limit ELSE @]
    /\ UNCHANGED <<slot, approved>>

AuditedCheck(k, amount) ==
    /\ CheckTransfer(k, amount)
    /\ approved' = IF Configured(k)
                   THEN [approved EXCEPT ![k] = [s \in History |->
                            IF s <= slot THEN approved[k][s] + amount ELSE approved[k][s]]]
                   ELSE approved
    /\ UNCHANGED <<slot, peak>>

AuditNext ==
    \/ Tick /\ UNCHANGED <<approved, peak>>
    \/ \E k \in Keys :
        \/ \E limit \in Limits : AuditedSetLimit(k, limit)
        \/ \E amount \in Amounts : AuditedCheck(k, amount)

AuditSpec == AuditInit /\ [][AuditNext]_auditVars /\ WF_auditVars(Tick /\ UNCHANGED <<approved, peak>>)

ApprovedFrom(k, first, last) == approved[k][first] - approved[k][last + 1]

\* spent_today is exactly what was approved since the window started: no
\* approval is missed, none is counted twice and none outlives its window.
SpentIsWindowTotal ==
    \A k \in Keys : Configured(k) =>
        dailyLimit[k].spent_today = ApprovedFrom(k, dailyLimit[k].window_start_slot, slot)

\* Because the window tumbles, a day that straddles two windows can see two
\* allowances, but never more: whatever the order of transfers and changes of
\* the cap, any day's approvals stay within twice the highest cap.
AtMostTwiceTheCapInADay ==
    \A k \in Keys, first \in 0..slot :
        LET last == IF first + SlotsPerDay - 1 < slot THEN first + SlotsPerDay - 1 ELSE slot
        IN  ApprovedFrom(k, first, last) <= 2 * peak[k]

\* What sdk/README.md says of the cap: the limit holds over a rolling day.
RollingDayWithinCap ==
    \A k \in Keys, first \in 0..slot :
        LET last == IF first + SlotsPerDay - 1 < slot THEN first + SlotsPerDay - 1 ELSE slot
        IN  ApprovedFrom(k, first, last) <= peak[k]
=============================================================================
