---------------------------- MODULE CooloffAudit ----------------------------
(***************************************************************************)
(* The cool-off with a record of what it let through since the rule was    *)
(* last enabled, and of the settings in force since then.  History only.   *)
(***************************************************************************)
EXTENDS Cooloff, Sequences

CONSTANT
    MaxApprovals    \* bound of the model: transfers recorded per key

VARIABLES
    passed,         \* per key, [at, amount] of each approval since enabling
    highest,        \* per key, the highest threshold since enabling
    shortest        \* per key, the shortest duration since enabling

audit == <<passed, highest, shortest>>
auditVars == <<vars, audit>>

AuditInit ==
    /\ Init
    /\ passed = [k \in Keys |-> <<>>]
    /\ highest = [k \in Keys |-> 0]
    /\ shortest = [k \in Keys |-> MaxDuration]

AuditedSet(k, threshold, duration) ==
    /\ SetCooloff(k, threshold, duration)
    /\ highest' = [highest EXCEPT ![k] = IF threshold > @ THEN threshold ELSE @]
    /\ shortest' = [shortest EXCEPT ![k] = IF duration < @ THEN duration ELSE @]
    /\ UNCHANGED <<now, passed>>

AuditedDisable(k) ==
    /\ DisableCooloff(k)
    /\ passed' = [passed EXCEPT ![k] = <<>>]
    /\ highest' = [highest EXCEPT ![k] = 0]
    /\ shortest' = [shortest EXCEPT ![k] = MaxDuration]
    /\ UNCHANGED now

AuditedCheck(k, amount) ==
    /\ CheckTransfer(k, amount)
    /\ Len(passed[k]) < MaxApprovals
    /\ passed' = IF Configured(k)
                 THEN [passed EXCEPT ![k] = Append(@, [at |-> now, amount |-> amount])]
                 ELSE passed
    /\ UNCHANGED <<now, highest, shortest>>

AuditNext ==
    \/ Tick /\ UNCHANGED audit
    \/ \E k \in Keys :
        \/ \E t \in Thresholds, d \in Durations : AuditedSet(k, t, d)
        \/ AuditedDisable(k)
        \/ \E amount \in Amounts : AuditedCheck(k, amount)

AuditSpec == AuditInit /\ [][AuditNext]_auditVars /\ WF_auditVars(Tick /\ UNCHANGED audit)

\* Two transfers that were large under every threshold in force since the
\* rule was enabled are at least the shortest such duration apart, whatever
\* small transfers, refusals and reconfigurations come between them.
LargeTransfersSpaced ==
    \A k \in Keys : \A i, j \in 1..Len(passed[k]) :
        i < j /\ passed[k][i].amount >= highest[k] /\ passed[k][j].amount >= highest[k]
            => passed[k][j].at - passed[k][i].at >= shortest[k]
=============================================================================
