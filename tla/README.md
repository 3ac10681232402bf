# Formal models of `plant`'s metacommunity simulation

This directory holds TLA+ models of the C++ core of `plant`
(TheoreticalEcology/plant). It also holds the TLC configurations that
model-check the models on small instances, and TLAPS proofs of the main
invariants for every value of the constants.

## The system

The sources under `src/` are:

| File | What it is |
|---|---|
| `src/src/metacommunity.h:1-276` | `Metacommunity<Individual>`: N patches sharing one ODE solver and one seed pool |
| `src/src/metacommunity.h:461-582` | `Strategy`, the per-species parameter container (strategy.h, appended to the same file) |
| `src/src/plant_approx.cpp` | `PlantApprox`: a plant that switches between the exact model and a spline by height |
| `src/src/lookup.h` | declaration of the string-keyed parameter table of `Strategy` |
| `src/src/functor.h` | adaptor from member functions to `double -> double` callbacks |
| `src/unnamed/part_000` | generated Rcpp bindings for the Lorenz test system and its solver |

`Patch`, the individuals and `ode::Solver` are not in this repository.
`spec.md` describes them:
- §4.1 describes the State Vector Protocol;
- §4.2 describes the solver;
- §4.3 describes the patch.

### How the parts interact

A host (R) drives a `Metacommunity`.

`step()` has two parts, in this order:
1. `step_deterministic()` packs every individual's state into one vector
   (`ode_values`), hands it to the solver (`set_state`), and takes one
   adaptive step. Each time the solver evaluates the right-hand side, it
   calls back `derivs`. `derivs` unpacks the vector into the patches
   (`ode_values_set`), then writes their rates (`ode_rates`).
2. `step_stochastic()` runs `deaths()` in every patch. It then sums every
   patch's `births()`, and gives that total to `add_seeds`.

`add_seeds` allocates the seeds of each species to the patches by
sequential binomial sampling. The k-th of the j patches not yet processed
should receive `Binomial(remaining, 1/j)`.

The host can also inject seedlings (`r_add_seedlings`) and clear everything
(`r_clear`, the only caller of `ode_solver.reset()`).

Everything is single-threaded. The hard behaviours are:
- **The order of traversal.** Three independent loops must agree on how
  state maps to vector positions.
- **The arithmetic of `add_seeds`.** It mixes `size_t`, `double` and
  `int`, with an undefined NaN-to-int cast.
- **The solver's history.** It persists across discontinuous changes of the
  population.

## Modules

| Module | Models |
|---|---|
| `Metacommunity.tla` | `Metacommunity<Individual>`, with Patch and the solver step abstracted from spec.md |
| `MCMetacommunity.tla` | the model-checking instance: unit step sizes, and the population bound of the three-patch run |
| `MetacommunityProofs.tla` | TLAPS proofs: the type invariant, that `add_seeds` never creates seedlings, where its `j` stands at each patch, and conservation with one patch |
| `LookupParams.tla` | the abstract contract of `util::Lookup` (`lookup.h:9-51`): each object owns its parameters |
| `Lookup.tla` | `util::Lookup` as `Strategy` uses it: the pointer table, `addr`, copies and the lazy rebuild |
| `MCLookup.tla` | the model-checking instance of `Lookup`: three addresses, two parameters, one unknown name |
| `LookupProofs.tla` | TLAPS proofs: the table/addr invariant and the refinement of `LookupParams` |
| `PlantApprox.tla` | `PlantApprox` (`plant_approx.cpp`): exact model or spline, chosen by height |
| `PlantApproxProofs.tla` | TLAPS proofs: the type invariant and `ExactRatesFresh` |

### `Metacommunity.tla`

**State.**
- `cohorts[p][s]` is the sequence of individuals of species `s` in patch
  `p`, in insertion order.
- An individual is abstracted to its one integrated variable, a height level
  in `0..MaxHeight`.
- `age` is `Metacommunity::age`.
- `dtLast` is the solver's step-size history: 0 after `reset()`, otherwise
  the last accepted step.
- `resized` records whether the population changed since that history was
  computed.

**Loops.** The loops of `step_stochastic` run one iteration per TLA+ step:
- `pc` says which loop runs;
- `cur` and `sp` are the patch and species cursors;
- `n` is the running births total;
- `seeds` and `j` are `add_seeds`' local variables.

The program is sequential. So from any `pc` other than `"idle"`, only the
next iteration is enabled, and the interleaving is exactly the code's.
`seedsIn` and `sown` are history variables: what `add_seeds` was given, and
what it has handed out so far.

**Actions and the code they model:**

| Action | Code |
|---|---|
| `Init` | constructor and `initialise()`, `metacommunity.h:78-92, 263-272` |
| `step_deterministic` | host call of `step_deterministic()`, `:110-117` |
| `r_step` | `step()`: one `Deterministic` step, then `step_stochastic` starts, `:104-108` |
| `r_step_stochastic` | `:255-259` |
| `deaths` | one iteration of `deaths()` for patch `cur`, species `sp`, `:134-140` |
| `births` | one iteration of `births()`, `:125-133`; after the last patch it enters `add_seeds` |
| `add_seeds` | a host call of `add_seeds(v)`, `:142-144` |
| `add_seeds_patch` | one iteration of the patch loop of `add_seeds`, with its inner loop over species, `:145-155` |
| `r_add_seedlings` | `:213-224`; `AddSeedlings(m)` for one matrix `m` |
| `r_clear` | `:240-247` |

**Modelling decisions:**
- **Random draws.** The death roll, fecundity and `rbinom` are
  nondeterministic choices over every value they can return.
- **`Draws(cnt, j)`** is the set of values `(int)R::rbinom(cnt, 1.0/j)` can
  take:
  - `{INT_MIN, 0}` when `p` is infinite (`j = 0`) or `cnt < 0`. R returns
    NaN, and the cast is undefined: x86-64 gives `INT_MIN`, AArch64 gives 0.
  - `{cnt}` when `j = 1`.
  - `0..cnt` otherwise. A negative `j` stands for the wrapped `size_t`,
    whose reciprocal is a valid probability.
- **`Remaining`** is the 32-bit subtraction `seeds[i] -= k`, including its
  wrap.
- **`Integrated`** is one accepted solver step. It packs the state, calls
  `derivs` at the start point, moves each slot by `dt * rate`, and calls
  `derivs` at the accepted point. That last call leaves the patches holding
  the new state.
- **Bounds.** `MaxCohort`, `MaxSeeds`, `SeedsPerPlant` and `MaxAge` bound
  the data in the guards. Zero births and zero seedlings stay enabled, so a
  bound never blocks the loops.

- **Matrices.** The `IntegerMatrix` of `r_add_seedlings` and
  `r_n_individuals` is a function from `1..NSpecies*NPatches`, stored
  column-major as R stores it: `Column(m, p)` is the column of patch `p`,
  and `r_n_individuals` flattens the patches in order, each patch's species
  counts in order (`FlattenSeq`).
- **Loop cursors.** Every `patch++` is `NextPatch`.

### `Lookup.tla` and `LookupParams.tla`

`Strategy` (`metacommunity.h:477`) derives from `util::Lookup`. Its
`lookup_table` maps each parameter name to the address of a `double`
member. The state is indexed by the address `o` a `Strategy` lives at:
- `val[o][k]` is member `k` of that object;
- `table[o][k]` is the object a pointer of its table points into (the key
  is implicit in the entry), or `NULL`;
- `addr[o]` is its `addr`, and `live` the objects that exist.

`Construct` sets `addr = NULL`. The implicit copy constructor (`r_copy`,
pass by value) and `Assign` copy `table` and `addr` with the values, so a
copy points into its source. `Destroy` frees the object and leaves those
pointers dangling. `get_parameters` and `set_parameters` first rebuild the
table when `addr != this` (`NeedsBuild`, `Build`); `set_parameters` runs
`check_keys` over all names before writing any.

`lookup.cpp` is not in the repository, so the bodies follow the behaviour
`lookup.h:24-44` documents. `has_key` and the post hook are not modelled.

`LookupParams` is the contract without pointers: every object has its own
`params`, `Get` returns them, `Set` replaces the named ones or none at all.
`Lookup` maps to it by `params <- val` (`LP` in `Lookup.tla`).

### `PlantApprox.tla`

`Plant` and `PlantSpline` are not in the repository. Their derived
quantities (`vars_phys`) are abstracted to the height and environment they
were computed for. The patch drives a plant as spec.md §4.1 and §4.3 say:
`ode_values_set` writes the height (and the environment changes with it),
`compute` calls `compute_vars_phys(environment)`, then `ode_rates` may be
called. `ode_rates` records in `used` which path it took and what it read.
The host may recompute the spline's quantities at any time
(`r_compute_vars_phys_spline`).

### Restriction: `NSpecies = NPatches`

`add_seeds` and `births` size and index their per-species vectors by
`size()`, which is the number of patches (`metacommunity.h:127,147,149`).
With any other number of species, the code reads past the end of a vector
or ignores species. The model therefore assumes the two counts are equal
(`SpeciesAssumption`).

## Runs

| Run | cfg | Expect | Checks |
|---|---|---|---|
| main | `MCMetacommunity.cfg` | pass | `TypeOK`, `GrowthFollowsIndividual` |
| seeds | `MCSeeds.cfg` | pass | `SeedsNeverCreated` |
| seeds_single_patch | `MCSeedsSinglePatch.cfg` | pass | `SeedsConserved` |
| seeds_conserved | `MCSeedsConserved.cfg` | violation | `SeedsConserved` |
| solver_history | `MCSolverHistoryFresh.cfg` | violation | `SolverHistoryFresh` |
| stochastic_completes | `MCStochastic.cfg` | pass | `StochasticStepCompletes` (under `FairSpec`) |
| lookup | `MCLookup.cfg` | pass | `TableMatchesAddr`, `ParametersRefined` |
| plant_approx | `MCPlantApprox.cfg` (module `PlantApprox`) | pass | `ExactRatesFresh` |

The main run also checks `SeedProbabilityCursor` and `SeedlingsWhereRequested`.

### The properties

- **`GrowthFollowsIndividual`** (action property). Whenever age advances,
  every individual's new height is its old height advanced by its own rate.
  It fails if `ode_values`, `ode_values_set` and `ode_rates` visit patches,
  species or individuals in different orders. The mutant
  `ode_values_set_reversed` unpacks the patches last to first, and TLC finds
  the violation.
- **`SeedProbabilityCursor`.** While `add_seeds` runs, the `j` from which
  patch `cur` takes `p = 1/j` is `NPatches * (2 - cur)`: `j--` runs once
  per species inside the patch loop. The first patch draws with
  `1/NPatches`, the second with `1/0`, later ones with a wrapped `size_t`.
  This is the cause of the `seeds_conserved` violation, stated as what the
  code does; the mutant `StartAddSeedsJLeft` (`j` starting one lower) is
  caught.
- **`SeedsConserved` on one patch** (run `seeds_single_patch`). With one
  patch and one species, `j = 1` and every seed is handed out. The same
  mutant breaks it.
- **`SeedsNeverCreated`.** For every species, `add_seeds` hands out no more
  seedlings than it was given seeds. It must hold whichever NaN cast the
  build produces and however the remaining count wraps.
- **`SeedsConserved`** (violation expected). When `add_seeds` returns, every
  seed has been allocated (spec.md §4.4 and §8).
  - *What TLC finds:* `j` is decremented once per species, inside the
    species loop. So after patch 1, `j = 0`, and patch 2 draws with
    `p = 1/0`.
  - *Why seeds are lost:* `rbinom` returns NaN, the cast gives 0 or
    `INT_MIN`, and the seeds the first patch did not take are never
    allocated.
- **`SolverHistoryFresh`** (violation expected). No integration step starts
  from a step-size history computed before the population last changed.
  spec.md §4.2 says the solver is reset after demographic events; in the
  code only `r_clear` calls `reset()`.

- **`SeedlingsWhereRequested`** (action property). Every `r_add_seedlings`
  adds, to each cell of the `r_n_individuals` matrix, exactly the count the
  same cell of the injected matrix asked for. With `NSpecies = NPatches` a
  transposed layout passes the code's length checks; the mutant
  `r_n_individuals_by_row` (species-major) is caught.
- **`StochasticStepCompletes`** (liveness). Whenever `step_stochastic` has
  started, it returns to idle. The mutant `NextPatchStalled` (a cursor that
  does not advance) is caught. In the code the loops are iterator loops
  over a vector nothing resizes, so their termination is not in doubt.
  What the run shows is that the model's bounds (`Fits`, `MaxCohort`) never
  block an iteration, so that the safety runs explore whole stochastic
  steps.
- **`TableMatchesAddr`.** Every table points into exactly the object its
  `addr` names, or is empty when `addr = NULL`. This is what makes the
  `addr != this` test sufficient. The mutant `BuiltTableKeepsEntries`
  (a rebuild that keeps the copied pointers) is caught.
- **`ParametersRefined`** (refinement). `Lookup` implements
  `LookupParams`: through copies, assignments and the destruction of
  sources, an object's `get_parameters` and `set_parameters` only read and
  write its own parameters, and a list with an unknown name changes
  nothing. The mutant `NeedsBuildOnce` (rebuild only when `addr = NULL`,
  never after a copy) makes a copy write into its source and is caught.
- **`ExactRatesFresh`** (action property). When `ode_rates` takes the
  exact path, the `Plant` quantities it reads were computed for the current
  height and environment, also just after the plant crossed `height_max`.
  The mutant `compute_vars_phys_inverted` is caught.

### Bounds

**main.** 2 patches, 2 species, heights `0..1`, cohorts of at most 1,
seeds 1, age 2: 52,150 states, in a few seconds.
- With `MaxCohort = 1`, `Fits` forces every birth to 0 (also in the seeds
  and stochastic_completes runs). Seeds reach `add_seeds` through the
  host call `add_seeds(v)`, which runs the same loop.
- Age 2 allows two growth steps between clears. That creates individuals of
  different heights in different patches, which a traversal-order bug needs
  in order to show.
- Every action and every branch of each loop fires.

**seeds.** 3 patches, with a constraint of at most 2 individuals in total:
601,353 states in under 2 minutes.
- Three patches are the least number at which `j` wraps (to `-3`) and `p`
  becomes a valid probability again, after the NaN draw of patch 2.
- A bug in the remaining count then shows as a second allocation of the same
  seed.
- The population constraint only limits what `Fits` allows. The counts
  themselves stay unrestricted.
- `r_add_seedlings` draws from `MCRMatrices`, the matrices of total at most
  2. Any other matrix leads to a state the constraint excludes, so the
  explored state space is the same; the substitution only saves TLC from
  testing 512 matrices in every idle state.

**lookup.** Three addresses (so a copy of a copy, and a destroyed source
with two copies, both happen), two parameters and one unknown name, two
values: 56,992 states in about half a minute. Every list over the known
and unknown names is enumerated.

**plant_approx.** Heights `0..2` with `height_max = 1`, so a plant can be
small, just large, and cross the boundary both ways; two environments, so
a stale environment is distinguishable: 728 states.

**seeds_single_patch.** 1 patch, 1 species, cohorts and seeds up to 2:
367 states.
- A host call `add_seeds` of two seeds into an empty patch must be
  allocated in full.
- `births` yields at most one seed here, because `Fits` leaves room for
  one more individual next to a parent. So allocations of one seed come
  from both `births` and the host.

**Violation runs.** These use the main instance; the solver-history run uses
age 2.

Deadlock is checked in every run: `r_clear` and the host calls are always
enabled from `"idle"`, and every loop iteration is always enabled.

### Fairness

`FairSpec` adds weak fairness of `deaths`, `births` and `add_seeds_patch`,
the three loop iterations, and of nothing else. The code justifies it:
`step_stochastic` is a sequential function, so once it has started its
next iteration is the only thing the program can do, and it stays enabled
until it is taken. The host calls (`r_step`, `r_clear`, ...) get no
fairness: R is under no obligation to call anything. `Spec`, without
fairness, is what every safety run uses.

## What is proved (TLAPS, `MetacommunityProofs.tla`)

### `TypeCorrect: Spec => []TypeOK`

This holds for all constants satisfying the assumptions:
- `NPatches >= 1`;
- `NSpecies = NPatches`;
- `MaxCohort` and `MaxSeeds` in `0..INT_MAX`.

TypeOK includes that `seeds` stays in `INT_MIN..INT_MAX`: the one
subtraction that overflows wraps back into the range (lemma
`RemainingRange`).

The proof never reasons about what `FlattenSeq` or `SumFunction` compute.
Those are recursive definitions, which the provers cannot unfold. Instead:
- Every height a solver step produces comes out of `Cap`.
- The shape of every cohort comes from `Len` (lemmas `ValuesSetType`,
  `SolverStepType`).
- TypeOK is split into five groups, and each action is proved to keep each
  group it can change (`TypeStep`).

### `SeedsNotCreated: Spec => []SeedsNeverCreated`

SeedsNeverCreated is not inductive on its own, because it says nothing about
the seeds still to be allocated. The inductive invariant `IInv` adds
`SeedsAccounted`: inside `add_seeds`, the seedlings handed out plus the
seeds that remain equal what was given.

"The seeds that remain" is `TrueRem(seeds[s])`. A wrapped negative count
stands for itself plus 2^31.

Lemma `RemainingAccount` shows that one draw moves exactly the seedlings it
hands out, for every value of the draw. That covers both NaN casts, a
binomial draw, and `j = 1`. Since `TrueRem` of an int is non-negative, the
account gives SeedsNeverCreated.

TLC checked `IInv` as an invariant of the seeds run before it was proved.

### `ProbabilityCursor: Spec => []SeedProbabilityCursor`

The inductive invariant is `JInv == TypeAll /\ SeedProbabilityCursor`: the
arithmetic `NPatches * (2 - cur) - NPatches = NPatches * (2 - (cur + 1))`
needs `cur` to be a patch and `j` an integer. Every entry into `add_seeds`
(the host call, or the last `births` iteration) goes through
`StartAddSeeds` (lemma `StartCursor`). Two corollaries hold for every
number of patches:
- **`SecondPatchDrawsNaN`.** At patch 2, `j = 0`, so every draw there is
  the undefined cast of NaN.
- **`NoLaterPatchTakesRest`.** After patch 1, `j <= 0`, never 1. So the
  last patch never takes the seeds that remain, and conservation cannot
  hold with two patches or more.

### `SinglePatchConserves: NPatches = 1 => (Spec => SeedsConserved)`

The converse: with one patch, every seed is handed out. The inductive
invariant `FInv` adds `FirstPatchUndrawn` to `JInv`: at the first patch,
nothing has been drawn yet (`seeds = seedsIn`, `sown = 0`). With one patch,
the step leaving `add_seeds` is that patch's. There `j = 1`, and
`Draws(cnt, 1) = {cnt}` for the non-negative count. TLC checked the
property on the `seeds_single_patch` run before it was proved. Together
with the corollaries above, this says the seed loss is exactly the cursor's
doing.

## What is proved (TLAPS, `PlantApproxProofs.tla`)

For every height range, `height_max` and set of environments, from
`PlantApproxAssumption`:
- **`TypeCorrect: Spec => []TypeOK`.**
- **`ExactRatesAreFresh: Spec => ExactRatesFresh`.** The action property
  follows from the invariant `ExactVarsCurrent`: in phase `"computed"`, a
  large plant's `vars_phys` are those of its height and environment.
  `ode_values_set` can change height and environment only by going back
  to phase `"set"`. `compute` then recomputes them exactly when the plant
  is large (lemma `ComputeVarsPhys`), and `ode_rates` tests the same
  condition. TLC checked `TypeOK /\ ExactVarsCurrent` as an invariant on the
  `plant_approx` instance first.

## What is proved (TLAPS, `LookupProofs.tla`)

From `LookupAssumption` alone (`NULL` is no object, the unknown name is no
parameter, the defaults are values), for every set of objects, names and
values:
- **`TableInvariant: Spec => []TableMatchesAddr`** and
  **`TypeCorrect: Spec => []TypeOK`.** The inductive invariant is
  `TypeOK /\ TableMatchesAddr`; neither is inductive alone, since a copy
  keeps the pairing only because its source had it, and the pairing of
  `Build` needs the types. Lemma `UseTableSelf` shows that, under the
  invariant, the table an object uses always points into itself.
- **`Refinement: Spec => ParametersRefined`.** `Init` maps to
  `LP!Init`, and every step maps to the abstract step of the same name or
  to a stutter (`StepRefines`, with `GetRefines` and `SetRefines`).
  `SetRefines` rests on `check_keys(o, x) <=> DOMAIN x \subseteq Keys`,
  which holds because the used table is never empty.

### Only model-checked

- **`GrowthFollowsIndividual`.** It is about what `FlattenSeq` and the
  cursor sums compute, which is induction over data. TLAPS cannot prove
  that here.
- **The two violations.**
- **`StochasticStepCompletes`.** Liveness under fairness is beyond TLAPS
  here.
- **`SeedlingsWhereRequested`.** It is about what `FlattenSeq` computes,
  a recursive function over the patches. Proving what it yields at each
  index needs induction over data.

## Not modelled

- `Patch` internals, individuals and the solver (not in the repository),
  beyond what spec.md says.
- The solver's failure path (`step()` throwing after `derivs` has written
  trial states; a hazard in PROJECT.json).
- A host call of `deaths()` on its own.
- Int overflow of the births sum.
- `Functor`, `Strategy`'s control and integrator data, `Lookup::has_key`:
  see PROJECT.json.

## Plan

1. **The solver's reject and retry loop, with a failure step.** This checks
   the partial-failure hazard of `step_deterministic`.
2. **An abstract specification of `add_seeds`.** It would be "a
   distribution of the seeds over the patches". The loop would be shown to
   refine it with one patch, the case `SinglePatchConserves` covers.
3. **`PlantApprox` composed into the patches** of `Metacommunity`, so that
   the exact/spline choice runs inside `derivs`.
