------------------------------ MODULE Conditions ------------------------------
(***************************************************************************)
(* The status conditions of a Gpu CR and the Ready summary                 *)
(* (internal/controller/conditions.go).  Messages and transition times are *)
(* left out: no decision of the operator reads them.                       *)
(***************************************************************************)
EXTENDS Integers

\* The four inputs of the Ready summary, in dependency order.
Managed == <<"Preflight", "HelmInstalled", "DriverReady", "ValidatorPassed">>

Inputs == {Managed[i] : i \in 1..4}

CondTypes == Inputs \union {"WorkloadProtection", "Ready"}

CondStatus == {"True", "False", "Unknown"}

Reasons == {"Waiting", "Progressing", "Ready", "Passed", "Failed", "Installed",
            "Uninstalling", "ReadError", "ForbiddenCRName", "ActiveGPUWorkloads"}

Cond(s, r, g) == [status |-> s, reason |-> r, gen |-> g]

\* A condition type that is not in the list.
NoCond == Cond("absent", "Waiting", 0)

Condition == [status : CondStatus, reason : Reasons, gen : Nat] \union {NoCond}

NoConds == [t \in CondTypes |-> NoCond]

\* apimeta.SetStatusCondition for every type in upd, which maps it to a status
\* and a reason: a list with at most one condition of each type is a function.
SetConditions(conds, upd, generation) ==
  [t \in CondTypes |->
     IF t \in DOMAIN upd THEN Cond(upd[t][1], upd[t][2], generation) ELSE conds[t]]

\* The inputs that are False, and those that are Unknown or not there.
Falses(conds) == {i \in 1..4 : conds[Managed[i]].status = "False"}
Opens(conds) == {i \in 1..4 : conds[Managed[i]].status \in {"Unknown", "absent"}}

\* The reason of the first condition in S.
FirstReason(conds, S) == conds[Managed[CHOOSE i \in S : \A j \in S : i <= j]].reason

\* Any False beats any Unknown beats all True; the reason is that of the first
\* condition that decides.
ComputeReadySummary(conds, generation) ==
  IF Falses(conds) # {} THEN Cond("False", FirstReason(conds, Falses(conds)), generation)
  ELSE IF Opens(conds) # {} THEN Cond("Unknown", FirstReason(conds, Opens(conds)), generation)
  ELSE Cond("True", "Ready", generation)

=============================================================================
