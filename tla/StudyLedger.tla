----------------------------- MODULE StudyLedger -----------------------------
(***************************************************************************)
(* What the study store promises its callers, every operation in one step. *)
(* A study is known by its natural identity.  Once registered its content  *)
(* is fixed for good; it can be deleted and revived; executions are        *)
(* planned for it, each under an id no other execution has, and an         *)
(* execution is completed once.                                            *)
(***************************************************************************)
EXTENDS Naturals

CONSTANTS Identities,  \* natural identities, (name, revision)
          Contents     \* what a study deterministically is

VARIABLES ledger,      \* identity |-> its entry
          planned      \* executions planned so far; the last id given out

Absent == [state |-> "absent"]

Present(i) == ledger[i].state # "absent"

Register(i) ==
    /\ ~Present(i)
    /\ \E content \in Contents :
        ledger' = [ledger EXCEPT ![i] = [state |-> "active", content |-> content,
                                         executions |-> [p \in {} |-> "planned"]]]
    /\ UNCHANGED planned

Delete(i) ==
    /\ Present(i)
    /\ ledger' = [ledger EXCEPT ![i].state = "deleted"]
    /\ UNCHANGED planned

Revive(i) ==
    /\ Present(i)
    /\ ledger' = [ledger EXCEPT ![i].state = "active"]
    /\ UNCHANGED planned

Plan(i) ==
    /\ Present(i)
    /\ planned' = planned + 1
    /\ ledger' = [ledger EXCEPT ![i].executions =
                    [p \in DOMAIN @ \cup {planned + 1} |->
                        IF p = planned + 1 THEN "planned" ELSE @[p]]]

Complete(i) ==
    /\ Present(i)
    /\ \E p \in DOMAIN ledger[i].executions :
        /\ ledger[i].executions[p] = "planned"
        /\ ledger' = [ledger EXCEPT ![i].executions[p] = "completed"]
    /\ UNCHANGED planned

Init ==
    /\ ledger = [i \in Identities |-> Absent]
    /\ planned = 0

Next ==
    \E i \in Identities :
        Register(i) \/ Delete(i) \/ Revive(i) \/ Plan(i) \/ Complete(i)

Spec == Init /\ [][Next]_<<ledger, planned>>
=============================================================================
