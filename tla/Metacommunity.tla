---------------------------- MODULE Metacommunity ----------------------------
(***************************************************************************)
(* Metacommunity<Individual> of src/src/metacommunity.h: NPatches patches  *)
(* of NSpecies cohorts each, stepped by one shared adaptive ODE solver     *)
(* (step_deterministic) and by a stochastic demographic update            *)
(* (step_stochastic = deaths(); add_seeds(births())).                      *)
(*                                                                         *)
(* An individual is abstracted to its one integrated variable, a height   *)
(* level in 0..MaxHeight; a cohort is the sequence of its individuals in  *)
(* insertion order.  Random draws (death rolls, fecundity, binomial seed  *)
(* allocation) are nondeterministic choices over the values they can      *)
(* take.  The loops of step_stochastic over patches (and, inside a patch, *)
(* over species) are taken one iteration per step, with pc saying which  *)
(* loop runs: the program is single threaded, so from any pc other than   *)
(* "idle" exactly the next iteration is enabled.                          *)
(***************************************************************************)
EXTENDS Integers, Sequences, SequencesExt, Functions

CONSTANTS
    NPatches,       \* parameters->n_patches
    NSpecies,       \* parameters->size()
    MaxHeight,      \* heights saturate at this level (bound of the model)
    MaxCohort,      \* births and seedlings never push a cohort past this
    MaxSeeds,       \* bound on a seed or seedling count of one call
    SeedsPerPlant,  \* most seeds one individual yields in one births()
    MaxAge,         \* bound on the metacommunity age
    StepSizes       \* step sizes the adaptive solver may accept

\* The range of a 32-bit int, written so that no evaluation leaves it.
IntMax == 65535 * 32768 + 32767
IntMin == -IntMax - 1

ASSUME PatchesAssumption == NPatches \in Nat \ {0}
\* add_seeds and births index their per-species vectors by size(), the
\* number of patches (metacommunity.h:127,147,149): the code is only defined
\* when the two counts agree.
ASSUME SpeciesAssumption == NSpecies = NPatches
ASSUME BoundsAssumption ==
    /\ MaxHeight \in Nat \ {0}
    /\ MaxCohort \in 0..IntMax
    /\ MaxSeeds \in 0..IntMax
    /\ SeedsPerPlant \in Nat
    /\ MaxAge \in Nat
    /\ StepSizes \subseteq Nat \ {0}

Patches == 1..NPatches
Species == 1..NSpecies
Heights == 0..MaxHeight

VARIABLES
    cohorts,   \* patches[p].species[s]: heights in insertion order
    age,       \* Metacommunity::age
    dtLast,    \* the solver's step-size history (0: none, after reset())
    resized,   \* population changed since dtLast was computed (history)
    pc,        \* "idle" or the loop of step_stochastic being run
    cur,       \* loop index: the patch being visited
    sp,        \* loop index: the species being visited inside patch cur
    n,         \* births(): the running per-species total
    seeds,     \* add_seeds(seeds): the vector of seeds not yet allocated
    j,         \* add_seeds: size_t j, p = 1.0/(double)j
    seedsIn,   \* history: the vector add_seeds was called with
    sown       \* history: seedlings add_seeds has given to patches so far

vars == <<cohorts, age, dtLast, resized, pc, cur, sp, n, seeds, j,
          seedsIn, sown>>
loopVars == <<cur, sp, n, seeds, j, seedsIn, sown>>

-----------------------------------------------------------------------------
(***************************************************************************)
(* Individuals and patches (patch.h and the growth model are not in this  *)
(* repository's sources: these operators follow spec.md 4.3).             *)
(***************************************************************************)

\* Height of a germinated seed (Strategy::height_0).
Germination == 0

\* Growth rate of an individual of the given height; growth stops at the
\* model's height bound.
Rate(h) == IF h < MaxHeight THEN 1 ELSE 0

\* A state variable after integration, saturated at the height bound.
Cap(x) == IF x \in Heights THEN x ELSE MaxHeight

\* Element i of a flat state vector.  Reading past the end of a
\* std::vector is undefined; no reachable state does so, because every
\* buffer is sized by ode_size().
Slot(y, i) == IF i \in DOMAIN y THEN y[i] ELSE MaxHeight

Patch_ode_size(cp) == SumFunction([s \in Species |-> Len(cp[s])])

Patch_ode_values(cp) == FlattenSeq(cp)

Patch_ode_rates(cp) ==
    FlattenSeq([s \in Species |-> [k \in DOMAIN cp[s] |-> Rate(cp[s][k])]])

\* Patch::ode_values_set(it) with the cursor at position at: species in
\* index order, individuals in insertion order.
Patch_ode_values_set(cp, y, at) ==
    LET before(s) == SumFunction([t \in 1..(s - 1) |-> Len(cp[t])])
    IN  [s \in Species |->
            [k \in 1..Len(cp[s]) |-> Slot(y, at + before(s) + k)]]

\* Index maps picking m of len positions, in order.
Increasing(m, len) ==
    {f \in [1..m -> 1..len] : \A i \in 1..(m - 1) : f[i] < f[i + 1]}

\* The cohorts a death roll can leave: any subset of the individuals,
\* survivors keeping their relative order.
Survivors(seq) ==
    UNION {{[i \in 1..m |-> seq[f[i]]] : f \in Increasing(m, Len(seq))} :
           m \in 0..Len(seq)}

\* Patch::add_seeds and Patch::add_seedlings: count[s] new individuals at
\* germination height appended to species s; a negative count adds none.
Seedlings(k) == [i \in 1..(IF k > 0 THEN k ELSE 0) |-> Germination]

Patch_add_seeds(cp, count) == [s \in Species |-> cp[s] \o Seedlings(count[s])]

-----------------------------------------------------------------------------
(***************************************************************************)
(* The ODE interface of Metacommunity (metacommunity.h:158-197): patches  *)
(* in index order, each advancing the cursor by its own ode_size().       *)
(***************************************************************************)

ode_size(c) == SumFunction([p \in Patches |-> Patch_ode_size(c[p])])

ode_values(c) == FlattenSeq([p \in Patches |-> Patch_ode_values(c[p])])

ode_rates(c) == FlattenSeq([p \in Patches |-> Patch_ode_rates(c[p])])

\* A traversal bug: ode_values_set unpacking the patches last to first.
ode_values_set_reversed(c, y) ==
    LET at(p) == SumFunction([q \in (p + 1)..NPatches |-> Patch_ode_size(c[q])])
    IN  [p \in Patches |-> Patch_ode_values_set(c[p], y, at(p))]

ode_values_set(c, y) ==
    LET at(p) == SumFunction([q \in 1..(p - 1) |-> Patch_ode_size(c[q])])
    IN  [p \in Patches |-> Patch_ode_values_set(c[p], y, at(p))]

\* derivs(time, y, dydt): unpack y into the patches, then emit their rates.
derivs(c, y) ==
    LET c1 == ode_values_set(c, y) IN <<c1, ode_rates(c1)>>

\* ode::Solver::step() (not in this repository; spec.md 4.2), after
\* set_state(y, age): one accepted step of size dt.  Its last derivs call,
\* at the accepted point, leaves the system holding the new state.
Solver_step(c, y, dt) ==
    LET d  == derivs(c, y)
        y1 == [i \in DOMAIN y |-> Cap(y[i] + dt * Slot(d[2], i))]
    IN  derivs(d[1], y1)[1]

\* step_deterministic's effect on the patches: pack the state into a
\* zero-initialised vector of ode_size() entries and step the solver.
Integrated(c, dt) ==
    LET vals == ode_values(c)
        y    == [i \in 1..ode_size(c) |-> IF i \in DOMAIN vals THEN vals[i]
                                                                ELSE 0]
    IN  Solver_step(c, y, dt)

-----------------------------------------------------------------------------
(***************************************************************************)
(* The binomial allocation of add_seeds (metacommunity.h:142-156).        *)
(***************************************************************************)

\* (int)R::rbinom(NaN): R returns NaN for a non-finite p or a negative n,
\* and converting NaN to int is undefined: x86-64 yields INT_MIN, AArch64 0.
NaNCast == {IntMin, 0}

\* The values k = (int)R::rbinom(n, 1.0/(double)j) can take.  A negative j
\* stands for the wrapped size_t 2^64 + j, whose reciprocal is in (0, 1).
Draws(cnt, jj) ==
    IF jj = 0 \/ cnt < 0 THEN NaNCast
    ELSE IF jj = 1 THEN {cnt}
    ELSE 0..cnt

DrawValues == {IntMin} \cup 0..(MaxSeeds + MaxCohort)

\* A bug: the drawn seeds are not taken off the remaining count.
RemainingNotDecremented(cnt, k) == cnt

\* seeds[i] -= k in 32-bit two's complement.  Only k = INT_MIN with
\* seeds[i] >= 0 leaves the int range, and wraps.
Remaining(cnt, k) == IF k = IntMin /\ cnt >= 0 THEN cnt + IntMin ELSE cnt - k

\* An off-by-one bug: the loop bound is taken as i <= size().
LastPatchOffByOne(p) == p = NPatches + 1

\* The loop over patches ends after the last one.
LastPatch(p) == p = NPatches

\* A bug: the patch iterator is not advanced.
NextPatchStalled(p) == p

\* patch++: the loops visit the patches in index order.
NextPatch(p) == p + 1

\* total more seeds of species s fit in any one patch within the bound.
Fits(c, s, total) == \A p \in Patches : Len(c[p][s]) + total <= MaxCohort

-----------------------------------------------------------------------------

\* initialise(): n_patches empty patches; age 0; a fresh solver.
Init ==
    /\ cohorts = [p \in Patches |-> [s \in Species |-> <<>>]]
    /\ age = 0
    /\ dtLast = 0
    /\ resized = FALSE
    /\ pc = "idle"
    /\ cur = 1
    /\ sp = 1
    /\ n = [s \in Species |-> 0]
    /\ seeds = [s \in Species |-> 0]
    /\ j = NPatches
    /\ seedsIn = [s \in Species |-> 0]
    /\ sown = [s \in Species |-> 0]

\* The effect of step_deterministic(): the solver steps by dt from
\* set_state(y, age) and age becomes the solver's time.
Deterministic(dt) ==
    /\ age + dt <= MaxAge
    /\ cohorts' = Integrated(cohorts, dt)
    /\ age' = age + dt
    /\ dtLast' = dt
    /\ resized' = FALSE

\* A host call of step_deterministic().
step_deterministic ==
    /\ pc = "idle"
    /\ \E dt \in StepSizes : Deterministic(dt)
    /\ UNCHANGED <<pc, loopVars>>

\* r_step(): step_deterministic(), then step_stochastic() starts with the
\* death roll of patch 1, species 1.
r_step ==
    /\ pc = "idle"
    /\ \E dt \in StepSizes : Deterministic(dt)
    /\ pc' = "deaths"
    /\ cur' = 1
    /\ sp' = 1
    /\ UNCHANGED <<n, seeds, j, seedsIn, sown>>

\* r_step_stochastic(): step_stochastic() starts with deaths().
r_step_stochastic ==
    /\ pc = "idle"
    /\ pc' = "deaths"
    /\ cur' = 1
    /\ sp' = 1
    /\ UNCHANGED <<cohorts, age, dtLast, resized, n, seeds, j, seedsIn, sown>>

\* One iteration of deaths(): patch cur rolls deaths for species sp.  After
\* the last patch, births() starts with n = 0.
deaths ==
    /\ pc = "deaths"
    /\ \E d \in Survivors(cohorts[cur][sp]) :
          /\ cohorts' = [cohorts EXCEPT ![cur][sp] = d]
          /\ resized' = (resized \/ d # cohorts[cur][sp])
    /\ IF sp < NSpecies
         THEN /\ sp' = sp + 1
              /\ UNCHANGED <<pc, cur, n>>
       ELSE IF ~LastPatch(cur)
         THEN /\ cur' = NextPatch(cur)
              /\ sp' = 1
              /\ UNCHANGED <<pc, n>>
       ELSE /\ pc' = "births"
            /\ cur' = 1
            /\ sp' = 1
            /\ n' = [s \in Species |-> 0]
    /\ UNCHANGED <<age, dtLast, seeds, j, seedsIn, sown>>

\* A bug: j starts at the number of patches left after the first.
StartAddSeedsJLeft(v) ==
    /\ pc' = "add_seeds"
    /\ seeds' = v
    /\ seedsIn' = v
    /\ sown' = [s \in Species |-> 0]
    /\ j' = NPatches - 1
    /\ cur' = 1

\* add_seeds(v) is entered: j = size(), the first patch.
StartAddSeeds(v) ==
    /\ pc' = "add_seeds"
    /\ seeds' = v
    /\ seedsIn' = v
    /\ sown' = [s \in Species |-> 0]
    /\ j' = NPatches
    /\ cur' = 1

\* One iteration of births(): n = util::sum(n, patch->births()).  After the
\* last patch, step_stochastic passes n to add_seeds.
births ==
    /\ pc = "births"
    /\ \E b \in [Species -> 0..MaxSeeds] :
          /\ \A s \in Species :
                /\ b[s] <= SeedsPerPlant * Len(cohorts[cur][s])
                /\ Fits(cohorts, s, n[s] + b[s]) \/ b[s] = 0
          /\ n' = [s \in Species |-> n[s] + b[s]]
    /\ IF ~LastPatch(cur)
         THEN /\ cur' = NextPatch(cur)
              /\ UNCHANGED <<pc, seeds, j, seedsIn, sown>>
         ELSE StartAddSeeds(n')
    /\ UNCHANGED <<cohorts, age, dtLast, resized, sp>>

\* A host call of add_seeds(v).
add_seeds ==
    /\ pc = "idle"
    /\ \E v \in [Species -> 0..MaxSeeds] :
          /\ \A s \in Species : Fits(cohorts, s, v[s])
          /\ StartAddSeeds(v)
    /\ UNCHANGED <<cohorts, age, dtLast, resized, sp, n>>

\* One iteration of the patch loop of add_seeds: p = 1.0/(double)j is taken
\* once, the inner loop draws k for each i < size() and decrements j each
\* time, and patch->add_seeds(seeds_i) appends the seedlings.
add_seeds_patch ==
    /\ pc = "add_seeds"
    /\ \E k \in [Species -> DrawValues] :
          /\ \A s \in Species : k[s] \in Draws(seeds[s], j)
          /\ cohorts' = [cohorts EXCEPT ![cur] = Patch_add_seeds(@, k)]
          /\ seeds' = [s \in Species |-> Remaining(seeds[s], k[s])]
          /\ sown' = [s \in Species |-> sown[s] + Len(Seedlings(k[s]))]
          /\ resized' = (resized \/ \E s \in Species : k[s] > 0)
    /\ j' = j - NPatches
    /\ IF ~LastPatch(cur)
         THEN /\ cur' = NextPatch(cur)
              /\ UNCHANGED pc
         ELSE /\ pc' = "idle"
              /\ cur' = 1
    /\ UNCHANGED <<age, dtLast, sp, n, seedsIn>>

\* An R IntegerMatrix of NSpecies rows and NPatches columns, stored
\* column-major: entry (s, p) is element (p - 1) * NSpecies + s.  Matrices
\* of another shape fail check_length before any change.
RMatrices == [1..(NSpecies * NPatches) -> 0..MaxSeeds]

\* seeds(Rcpp::_, i): column i of an R matrix, copied into a vector.
Column(m, p) == [s \in Species |-> m[(p - 1) * NSpecies + s]]

\* r_add_seedlings(m): column p of m is given to patches[p].add_seedlings.
AddSeedlings(m) ==
    /\ \A p \in Patches, s \in Species :
          Len(cohorts[p][s]) + Column(m, p)[s] <= MaxCohort
    /\ cohorts' = [p \in Patches |-> Patch_add_seeds(cohorts[p], Column(m, p))]
    /\ resized' = (resized \/ \E i \in DOMAIN m : m[i] > 0)
    /\ UNCHANGED <<age, dtLast, pc, loopVars>>

r_add_seedlings ==
    /\ pc = "idle"
    /\ \E m \in RMatrices : AddSeedlings(m)

\* A bug: the counts laid out by species, patch after patch along a row.
r_n_individuals_by_row(c) ==
    FlattenSeq([s \in Species |-> [p \in Patches |-> Len(c[p][s])]])

\* r_n_individuals(): an n_species x size() matrix filled by copying each
\* patch's per-species counts after the previous patch's.
r_n_individuals(c) ==
    FlattenSeq([p \in Patches |-> [s \in Species |-> Len(c[p][s])]])

\* r_clear(): age 0, every patch cleared, ode_solver.reset().
r_clear ==
    /\ pc = "idle"
    /\ cohorts' = [p \in Patches |-> [s \in Species |-> <<>>]]
    /\ age' = 0
    /\ dtLast' = 0
    /\ resized' = FALSE
    /\ UNCHANGED <<pc, loopVars>>

Next ==
    \/ step_deterministic
    \/ r_step
    \/ r_step_stochastic
    \/ deaths
    \/ births
    \/ add_seeds
    \/ add_seeds_patch
    \/ r_add_seedlings
    \/ r_clear

Spec == Init /\ [][Next]_vars

\* The loops of step_stochastic run to their end without waiting on
\* anything (the program is single threaded and nothing in them blocks),
\* so each iteration is weakly fair; the host's calls are not.
FairSpec ==
    /\ Spec
    /\ WF_vars(deaths)
    /\ WF_vars(births)
    /\ WF_vars(add_seeds_patch)

-----------------------------------------------------------------------------
(***************************************************************************)
(* Properties                                                              *)
(***************************************************************************)

TypeOK ==
    /\ cohorts \in [Patches -> [Species -> Seq(Heights)]]
    /\ age \in 0..MaxAge
    /\ dtLast \in {0} \cup StepSizes
    /\ resized \in BOOLEAN
    /\ pc \in {"idle", "deaths", "births", "add_seeds"}
    /\ cur \in Patches
    /\ sp \in Species
    /\ n \in [Species -> 0..MaxCohort]
    /\ seeds \in [Species -> IntMin..IntMax]
    /\ j \in Int
    /\ seedsIn \in [Species -> Nat]
    /\ sown \in [Species -> Nat]

\* The height of every individual after an integration step is its own
\* height advanced by its own rate: ode_values, ode_values_set and
\* ode_rates (metacommunity.h:175-197, and the patches' versions) visit the
\* state in the same order, so no individual is given another's state.
Grown(c, dt) ==
    [p \in Patches |-> [s \in Species |->
        [k \in DOMAIN c[p][s] |-> Cap(c[p][s][k] + dt * Rate(c[p][s][k]))]]]

GrowthFollowsIndividual ==
    [][age' > age => cohorts' = Grown(cohorts, age' - age)]_vars

\* add_seeds never hands patches more seedlings of a species than it was
\* given seeds, whatever (int)rbinom returns for p = 1/0 and however the
\* remaining count wraps (metacommunity.h:148-152).
SeedsNeverCreated == \A s \in Species : sown[s] <= seedsIn[s]

\* step_stochastic() returns: once r_step or r_step_stochastic has
\* started the death rolls (or the host has called add_seeds), the loops
\* over patches and species of deaths(), births() and add_seeds() reach
\* their end and the metacommunity is idle again.
StochasticStepCompletes == pc # "idle" ~> pc = "idle"

\* The host reads back its seedlings where it asked for them: after
\* r_add_seedlings(m), r_n_individuals() is what it was plus m, entry by
\* entry.  The matrix is square (NSpecies = NPatches), so a transposition
\* in either call (metacommunity.h:219-222, 228-235) would pass the shape
\* checks and put the seedlings of species s into patch s.
SeedlingsWhereRequested ==
    [][\A m \in RMatrices :
          pc = "idle" /\ AddSeedlings(m) =>
             r_n_individuals(cohorts') =
                [i \in DOMAIN m |-> r_n_individuals(cohorts)[i] + m[i]]]_vars

\* The j from which patch cur of add_seeds takes p = 1.0/(double)j is
\* NPatches * (2 - cur): j-- runs once per species inside the patch loop
\* (metacommunity.h:149), so the first patch draws with p = 1/NPatches,
\* the second with p = 1/0, and every later one with the reciprocal of a
\* wrapped size_t.
SeedProbabilityCursor == pc = "add_seeds" => j = NPatches * (2 - cur)

\* spec.md 4.4 and 8: when add_seeds returns, the patches together have
\* received exactly the seeds it was given, for every species.
SeedsConserved ==
    [][pc = "add_seeds" /\ pc' = "idle" => sown' = seedsIn']_vars

\* spec.md 4.2: the solver's step-size history is reset whenever the
\* population is changed by a demographic event, so no step of
\* step_deterministic starts from a history computed for another state.
SolverHistoryFresh ==
    [][age' > age => dtLast = 0 \/ ~resized]_vars

=============================================================================
