----------------------------- MODULE PlantApprox -----------------------------
(***************************************************************************)
(* PlantApprox (src/src/plant_approx.cpp): a plant that integrates with    *)
(* the exact Plant model once it is taller than its spline reaches, and   *)
(* with the spline's rates below.  It is driven the way a patch drives    *)
(* its individuals in derivs (spec.md 4.1, 4.3; patch.h is not among the  *)
(* sources): ode_values_set writes the height and the light environment   *)
(* changes with it, compute_vars_phys(environment) recomputes the derived *)
(* quantities, then ode_rates reads them, possibly several times.          *)
(***************************************************************************)
EXTENDS Naturals

CONSTANTS
    MaxHeight,   \* heights are levels 0..MaxHeight
    HeightMax,   \* plant_spline->height_max()
    Envs         \* light environments

ASSUME PlantApproxAssumption ==
    /\ MaxHeight \in Nat
    /\ HeightMax \in 0..MaxHeight
    /\ Envs # {}

Heights == 0..MaxHeight

\* No derived quantities computed yet.
NoVars == [h |-> MaxHeight + 1, e |-> MaxHeight + 1]

VARIABLES
    height,      \* height()
    env,         \* the environment the patch computed for the heights
    vars_phys,   \* Plant::vars_phys: height and environment computed for
    splineEnv,   \* the environment the spline's vars_phys were computed for
    phase,       \* "set": values written; "computed": vars_phys recomputed
    used         \* what the last ode_rates read: path, height, environment

vars == <<height, env, vars_phys, splineEnv, phase, used>>

-----------------------------------------------------------------------------

\* large_plant_do_exact(): height() > plant_spline->height_max().
large_plant_do_exact == height > HeightMax

\* PlantApprox(Strategy s, PlantSpline ps): Plant(s), with a copy of the
\* spline whose vars_phys were computed for some environment.
Init ==
    /\ height \in Heights
    /\ env \in Envs
    /\ vars_phys = NoVars
    /\ splineEnv \in Envs
    /\ phase = "set"
    /\ used = [path |-> "none", h |-> height, e |-> env]

\* The patch's ode_values_set: the plant's height is written, and the
\* environment is recomputed for the new heights of the patch.
ode_values_set ==
    /\ \E h \in Heights, e \in Envs :
          /\ height' = h
          /\ env' = e
    /\ phase' = "set"
    /\ UNCHANGED <<vars_phys, splineEnv, used>>

\* A bug: the test of compute_vars_phys inverted.
compute_vars_phys_inverted(e) ==
    IF ~large_plant_do_exact THEN [h |-> height, e |-> e] ELSE vars_phys

\* compute_vars_phys(environment): only a large plant computes the exact
\* Plant::compute_vars_phys; a small one leaves them as they are.
compute_vars_phys(e) ==
    IF large_plant_do_exact THEN [h |-> height, e |-> e] ELSE vars_phys

\* The patch recomputes every individual's derived quantities.
compute ==
    /\ phase = "set"
    /\ vars_phys' = compute_vars_phys(env)
    /\ phase' = "computed"
    /\ UNCHANGED <<height, env, splineEnv, used>>

\* ode_rates(it): Plant::ode_rates from vars_phys if large, else
\* plant_spline->ode_rates(height(), it) from the spline's vars_phys.
ode_rates ==
    /\ phase = "computed"
    /\ used' = IF large_plant_do_exact
                 THEN [path |-> "exact", h |-> vars_phys.h, e |-> vars_phys.e]
                 ELSE [path |-> "spline", h |-> height, e |-> splineEnv]
    /\ UNCHANGED <<height, env, vars_phys, splineEnv, phase>>

\* r_compute_vars_phys_spline(environment): the host recomputes the
\* spline's quantities for an environment.
r_compute_vars_phys_spline ==
    /\ \E e \in Envs : splineEnv' = e
    /\ UNCHANGED <<height, env, vars_phys, phase, used>>

Next ==
    \/ ode_values_set
    \/ compute
    \/ ode_rates
    \/ r_compute_vars_phys_spline

Spec == Init /\ [][Next]_vars

-----------------------------------------------------------------------------

TypeOK ==
    /\ height \in Heights
    /\ env \in Envs
    /\ vars_phys \in [h : Heights, e : Envs] \cup {NoVars}
    /\ splineEnv \in Envs
    /\ phase \in {"set", "computed"}
    /\ used \in [path : {"none", "exact", "spline"},
                 h : Heights \cup {MaxHeight + 1},
                 e : Envs \cup {MaxHeight + 1}]

\* Whenever ode_rates takes the exact path, the Plant quantities it reads
\* were computed for the plant's present height and environment: the test
\* of compute_vars_phys and that of ode_rates agree, also for a plant that
\* has just grown past height_max or been set back below it.
ExactRatesFresh ==
    [][ode_rates /\ used'.path = "exact" =>
          used'.h = height /\ used'.e = env]_vars
=============================================================================
