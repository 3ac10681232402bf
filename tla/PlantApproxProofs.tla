-------------------------- MODULE PlantApproxProofs --------------------------
(***************************************************************************)
(* Proofs about PlantApprox: the type invariant, and that ode_rates never  *)
(* takes the exact path with Plant quantities computed for another height *)
(* or environment (ExactRatesFresh), for every range of heights, every    *)
(* height_max and every set of environments.                              *)
(***************************************************************************)
EXTENDS PlantApprox, TLAPS

\* Once compute_vars_phys has run for the current values, a plant that is
\* large holds Plant quantities computed for exactly its height and
\* environment.  ode_values_set can change both only by sending the plant
\* back to phase "set".
ExactVarsCurrent ==
    phase = "computed" /\ large_plant_do_exact =>
        vars_phys = [h |-> height, e |-> env]

\* The inductive invariant.
Inv == TypeOK /\ ExactVarsCurrent

LEMMA InitInv == Init => Inv
BY PlantApproxAssumption DEF Init, Inv, TypeOK, ExactVarsCurrent, NoVars, Heights

\* compute_vars_phys of a large plant yields the quantities of its
\* present height and the environment it is given.
LEMMA ComputeVarsPhys ==
    ASSUME NEW e, large_plant_do_exact
    PROVE  compute_vars_phys(e) = [h |-> height, e |-> e]
BY DEF compute_vars_phys

\* Every step keeps the invariant.
LEMMA NextInv == Inv /\ [Next]_vars => Inv'
<1> SUFFICES ASSUME Inv, [Next]_vars PROVE Inv'
  OBVIOUS
<1> USE PlantApproxAssumption
<1>1. CASE ode_values_set
  <2>1. TypeOK'
    BY <1>1 DEF ode_values_set, Inv, TypeOK
  <2>2. ExactVarsCurrent'
    BY <1>1 DEF ode_values_set, ExactVarsCurrent
  <2> QED
    BY <2>1, <2>2 DEF Inv
<1>2. CASE compute
  <2>1. vars_phys' = compute_vars_phys(env)
    BY <1>2 DEF compute
  <2>2. TypeOK'
    <3>1. CASE large_plant_do_exact
      BY <1>2, <2>1, <3>1, ComputeVarsPhys DEF compute, Inv, TypeOK
    <3>2. CASE ~large_plant_do_exact
      BY <1>2, <2>1, <3>2 DEF compute, compute_vars_phys, Inv, TypeOK
    <3> QED
      BY <3>1, <3>2
  <2>3. ExactVarsCurrent'
    <3>1. UNCHANGED <<height, env>>
      BY <1>2 DEF compute
    <3>2. large_plant_do_exact' = large_plant_do_exact
      BY <3>1 DEF large_plant_do_exact
    <3> QED
      BY <2>1, <3>1, <3>2, ComputeVarsPhys DEF ExactVarsCurrent
  <2> QED
    BY <2>2, <2>3 DEF Inv
<1>3. CASE ode_rates
  <2>1. TypeOK'
    BY <1>3 DEF ode_rates, Inv, TypeOK, NoVars
  <2>2. ExactVarsCurrent'
    BY <1>3 DEF ode_rates, Inv, ExactVarsCurrent, large_plant_do_exact
  <2> QED
    BY <2>1, <2>2 DEF Inv
<1>4. CASE r_compute_vars_phys_spline
  BY <1>4 DEF r_compute_vars_phys_spline, Inv, TypeOK, ExactVarsCurrent,
              large_plant_do_exact
<1>5. CASE UNCHANGED vars
  BY <1>5 DEF vars, Inv, TypeOK, ExactVarsCurrent, large_plant_do_exact
<1> QED
  BY <1>1, <1>2, <1>3, <1>4, <1>5 DEF Next

\* An ode_rates step that takes the exact path reads what the invariant
\* guarantees.
LEMMA RatesStep ==
    ASSUME Inv, ode_rates, used'.path = "exact"
    PROVE  used'.h = height /\ used'.e = env
<1>1. large_plant_do_exact
  BY DEF ode_rates
<1>2. used' = [path |-> "exact", h |-> vars_phys.h, e |-> vars_phys.e]
  BY <1>1 DEF ode_rates
<1>3. phase = "computed"
  BY DEF ode_rates
<1> QED
  BY <1>1, <1>2, <1>3 DEF Inv, ExactVarsCurrent

\* The type invariant of PlantApprox.
THEOREM TypeCorrect == Spec => []TypeOK
<1>1. Spec => []Inv
  BY InitInv, NextInv, PTL DEF Spec
<1> QED
  BY <1>1, PTL DEF Inv

\* ExactRatesFresh: whenever ode_rates takes Plant::ode_rates (the plant
\* is above height_max), the Plant quantities it reads were computed for
\* the plant's present height and environment.
THEOREM ExactRatesAreFresh == Spec => ExactRatesFresh
<1>1. Spec => []Inv
  BY InitInv, NextInv, PTL DEF Spec
<1>2. Inv /\ [Next]_vars =>
        [ode_rates /\ used'.path = "exact" => used'.h = height /\ used'.e = env]_vars
  BY RatesStep
<1> QED
  BY <1>1, <1>2, PTL DEF Spec, ExactRatesFresh
=============================================================================
