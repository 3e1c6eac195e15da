--------------------------- MODULE ConditionsProofs ---------------------------
(***************************************************************************)
(* The Ready summary for every list of conditions.                         *)
(***************************************************************************)
EXTENDS Conditions, TLAPS

CondList == [CondTypes -> Condition]

\* A condition's place in the list of managed ones.
LEMMA ManagedInputs ==
  /\ \A i \in 1..4 : Managed[i] \in Inputs
  /\ \A t \in Inputs : \E i \in 1..4 : Managed[i] = t
BY DEF Inputs

\* A nonempty set of places has a first one.
LEMMA FirstExists ==
  ASSUME NEW S \in SUBSET (1..4), S # {}
  PROVE  \E i \in S : \A j \in S : i <= j
<1>1. CASE 1 \in S
  BY <1>1
<1>2. CASE 1 \notin S /\ 2 \in S
  BY <1>2
<1>3. CASE 1 \notin S /\ 2 \notin S /\ 3 \in S
  BY <1>3
<1>4. CASE 1 \notin S /\ 2 \notin S /\ 3 \notin S
  <2>1. \A j \in S : j = 4
    BY <1>4
  <2>2. PICK i \in S : TRUE
    OBVIOUS
  <2>3. \A j \in S : i <= j
    BY <2>1, <2>2
  <2> QED
    BY <2>3
<1> QED
  BY <1>1, <1>2, <1>3, <1>4

\* computeReadySummary says what the user documentation says of Ready: True iff
\* all four inputs are True, False iff some input is False, Unknown otherwise.
\* WorkloadProtection and the old Ready have no say in it.
THEOREM ReadyStatus ==
  ASSUME NEW conds \in CondList, NEW generation \in Nat
  PROVE  LET ready == ComputeReadySummary(conds, generation).status IN
         /\ ready \in CondStatus
         /\ ready = "True" <=> \A t \in Inputs : conds[t].status = "True"
         /\ ready = "False" <=> \E t \in Inputs : conds[t].status = "False"
<1>1. \A t \in Inputs : conds[t].status \in CondStatus \union {"absent"}
  BY DEF CondList, CondTypes, Condition, NoCond, Cond
<1>2. Falses(conds) = {} <=> \A t \in Inputs : conds[t].status # "False"
  BY ManagedInputs DEF Falses
<1>3. Opens(conds) = {} <=> \A t \in Inputs : conds[t].status \notin {"Unknown", "absent"}
  BY ManagedInputs DEF Opens
<1>4. \E t \in Inputs : TRUE
  BY ManagedInputs
<1> QED
  BY <1>1, <1>2, <1>3, <1>4 DEF ComputeReadySummary, Cond, CondStatus

\* The summary is a condition with one of the reasons its inputs can have, so that
\* it can be stored with them (conditions.go).
THEOREM ReadyIsCondition ==
  ASSUME NEW conds \in CondList, NEW generation \in Nat
  PROVE  ComputeReadySummary(conds, generation) \in Condition
<1>1. ASSUME NEW S \in SUBSET (1..4), S # {}
      PROVE  FirstReason(conds, S) \in Reasons
  <2> DEFINE first == CHOOSE i \in S : \A j \in S : i <= j
  <2>1. first \in 1..4
    BY <1>1, FirstExists
  <2>2. Managed[first] \in CondTypes
    BY <2>1, ManagedInputs DEF CondTypes
  <2>3. conds[Managed[first]] \in Condition
    BY <2>2 DEF CondList
  <2> HIDE DEF first
  <2>4. conds[Managed[first]].reason \in Reasons
    BY <2>3 DEF Condition, NoCond, Cond, Reasons
  <2> QED
    BY <2>4 DEF FirstReason, first
<1>2. Falses(conds) \in SUBSET (1..4) /\ Opens(conds) \in SUBSET (1..4)
  BY DEF Falses, Opens
<1> QED
  BY <1>1, <1>2 DEF ComputeReadySummary, Condition, Cond, CondStatus, Reasons

\* The reason is that of the first input, in dependency order, that is not True,
\* if no later one is False while it is only Unknown.
THEOREM ReadyReason ==
  ASSUME NEW conds \in CondList, NEW generation \in Nat,
         NEW i \in 1..4, conds[Managed[i]].status # "True",
         \A j \in 1..4 : j < i => conds[Managed[j]].status = "True",
         \/ conds[Managed[i]].status = "False"
         \/ \A j \in 1..4 : conds[Managed[j]].status # "False"
  PROVE  ComputeReadySummary(conds, generation).reason = conds[Managed[i]].reason
<1> DEFINE first(S) == CHOOSE k \in S : \A j \in S : k <= j
<1>1. conds[Managed[i]].status \in {"False", "Unknown", "absent"}
  BY ManagedInputs DEF CondList, CondTypes, Condition, NoCond, Cond, CondStatus
<1>2. ASSUME NEW S \in SUBSET (1..4), i \in S, \A j \in S : i <= j
      PROVE  first(S) = i
  <2>1. first(S) \in S /\ \A j \in S : first(S) <= j
    BY <1>2, FirstExists
  <2>2. first(S) \in 1..4 /\ first(S) <= i /\ i <= first(S)
    BY <1>2, <2>1
  <2> HIDE DEF first
  <2> QED
    BY <2>2
<1>3. CASE conds[Managed[i]].status = "False"
  <2>1. i \in Falses(conds) /\ Falses(conds) \in SUBSET (1..4)
    BY <1>3 DEF Falses
  <2>2. \A j \in Falses(conds) : i <= j
    BY DEF Falses
  <2> QED
    BY <1>2, <2>1, <2>2 DEF ComputeReadySummary, FirstReason, Cond
<1>4. CASE conds[Managed[i]].status # "False"
  <2>1. Falses(conds) = {}
    BY <1>4 DEF Falses
  <2>2. i \in Opens(conds) /\ Opens(conds) \in SUBSET (1..4)
    BY <1>1, <1>4 DEF Opens
  <2>3. \A j \in Opens(conds) : i <= j
    BY DEF Opens
  <2> QED
    BY <1>2, <2>1, <2>2, <2>3 DEF ComputeReadySummary, FirstReason, Cond
<1> QED
  BY <1>3, <1>4

=============================================================================
