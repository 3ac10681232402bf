------------------------- MODULE MetacommunityProofs -------------------------
(***************************************************************************)
(* Proofs about Metacommunity for every value of the constants: the type   *)
(* invariant, and that add_seeds never gives patches more seedlings than  *)
(* it was given seeds.                                                     *)
(*                                                                         *)
(* Nothing here reasons about what FlattenSeq or SumFunction compute: the *)
(* heights a step of the solver leaves come out of Cap, and the shape of  *)
(* every cohort out of Len, whatever the cursor arithmetic yields.         *)
(***************************************************************************)
EXTENDS Metacommunity, TLAPS

-----------------------------------------------------------------------------
(* Lemmas on the operators the model is built from.                        *)

\* A function on 1..m is a sequence of length m over any set holding its
\* values.
LEMMA SeqOfFcn ==
    ASSUME NEW S, NEW m \in Nat, NEW e(_), \A k \in 1..m : e(k) \in S
    PROVE  /\ [k \in 1..m |-> e(k)] \in Seq(S)
           /\ Len([k \in 1..m |-> e(k)]) = m
  BY DEF Seq

\* Unpacking any vector y into cohorts of sequences keeps each cohort's
\* length, and every value unpacked is an element of y or, past its end,
\* the fallback MaxHeight.
LEMMA ValuesSetType ==
    ASSUME NEW c, \A p \in Patches, s \in Species : Len(c[p][s]) \in Nat,
           NEW y, NEW V, MaxHeight \in V,
           \A i \in DOMAIN y : y[i] \in V
    PROVE  /\ ode_values_set(c, y) \in [Patches -> [Species -> Seq(V)]]
           /\ \A p \in Patches, s \in Species :
                 Len(ode_values_set(c, y)[p][s]) = Len(c[p][s])
  <1>1. \A i : Slot(y, i) \in V
    BY DEF Slot
  <1>2. ASSUME NEW p \in Patches, NEW at
        PROVE  /\ Patch_ode_values_set(c[p], y, at) \in [Species -> Seq(V)]
               /\ \A s \in Species :
                     Len(Patch_ode_values_set(c[p], y, at)[s]) = Len(c[p][s])
    <2>1. ASSUME NEW s \in Species, NEW x
          PROVE  /\ [k \in 1..Len(c[p][s]) |-> Slot(y, x + k)] \in Seq(V)
                 /\ Len([k \in 1..Len(c[p][s]) |-> Slot(y, x + k)])
                      = Len(c[p][s])
      <3>1. Len(c[p][s]) \in Nat
        OBVIOUS
      <3> QED
        BY <1>1, <3>1, SeqOfFcn
    <2> QED
      BY <2>1 DEF Patch_ode_values_set
  <1> QED
    BY <1>2 DEF ode_values_set

\* One accepted step of the solver leaves every cohort a sequence of
\* heights, whatever vector it starts from.
LEMMA SolverStepType ==
    ASSUME NEW c \in [Patches -> [Species -> Seq(Heights)]], NEW y, NEW dt
    PROVE  Solver_step(c, y, dt) \in [Patches -> [Species -> Seq(Heights)]]
  <1> DEFINE V  == {y[i] : i \in DOMAIN y} \cup {MaxHeight}
             d  == derivs(c, y)
             y1 == [i \in DOMAIN y |-> Cap(y[i] + dt * Slot(d[2], i))]
  <1>1. MaxHeight \in Heights
    BY BoundsAssumption DEF Heights
  <1>2. d[1] = ode_values_set(c, y)
    BY DEF derivs
  <1>3. d[1] \in [Patches -> [Species -> Seq(V)]]
    <2>1. MaxHeight \in V /\ \A i \in DOMAIN y : y[i] \in V
      OBVIOUS
    <2>2. \A p \in Patches, s \in Species : Len(c[p][s]) \in Nat
      OBVIOUS
    <2> HIDE DEF V, d
    <2>3. ode_values_set(c, y) \in [Patches -> [Species -> Seq(V)]]
      BY <2>1, <2>2, ValuesSetType
    <2> QED
      BY <1>2, <2>3
  <1>4. \A i \in DOMAIN y1 : y1[i] \in Heights
    BY <1>1 DEF Cap
  <1>5. ode_values_set(d[1], y1) \in [Patches -> [Species -> Seq(Heights)]]
    <2>1. \A p \in Patches, s \in Species : Len(d[1][p][s]) \in Nat
      BY <1>3
    <2> HIDE DEF d, y1
    <2> QED
      BY <1>1, <2>1, <1>4, ValuesSetType
  <1>6. Solver_step(c, y, dt) = ode_values_set(d[1], y1)
    BY DEF Solver_step, derivs
  <1> QED
    BY <1>5, <1>6

\* step_deterministic leaves every cohort a sequence of heights.
LEMMA IntegratedType ==
    ASSUME NEW c \in [Patches -> [Species -> Seq(Heights)]], NEW dt
    PROVE  Integrated(c, dt) \in [Patches -> [Species -> Seq(Heights)]]
  BY SolverStepType DEF Integrated

\* What the proofs use of the int range: it is an interval around 0, and
\* the model's bounds lie in it.
LEMMA IntRange ==
    /\ IntMin \in Int /\ IntMax \in Nat
    /\ IntMin < 0 /\ IntMax = -IntMin - 1
    /\ MaxCohort \in 0..IntMax /\ MaxSeeds \in 0..IntMax
  <1>1. IntMax \in Nat /\ IntMax > 0
    BY DEF IntMax
  <1>2. IntMin \in Int /\ IntMin < 0 /\ IntMax = -IntMin - 1
    BY <1>1 DEF IntMin
  <1>3. MaxCohort \in 0..IntMax /\ MaxSeeds \in 0..IntMax
    BY BoundsAssumption
  <1> QED
    BY <1>1, <1>2, <1>3

\* A death roll leaves a sequence over the same values.
LEMMA SurvivorsType ==
    ASSUME NEW S, NEW q \in Seq(S)
    PROVE  Survivors(q) \subseteq Seq(S)
  <1> SUFFICES ASSUME NEW d \in Survivors(q) PROVE d \in Seq(S)
    OBVIOUS
  <1>1. PICK m \in 0..Len(q) :
               \E f \in Increasing(m, Len(q)) : d = [i \in 1..m |-> q[f[i]]]
    BY DEF Survivors
  <1>2. PICK f \in Increasing(m, Len(q)) : d = [i \in 1..m |-> q[f[i]]]
    BY <1>1
  <1>3. \A i \in 1..m : q[f[i]] \in S
    BY DEF Increasing
  <1> QED
    BY <1>2, <1>3, SeqOfFcn

\* Seedlings(k) is a sequence of k (or, for k <= 0, no) heights.
LEMMA SeedlingsType ==
    ASSUME NEW k \in Int
    PROVE  /\ Seedlings(k) \in Seq(Heights)
           /\ Len(Seedlings(k)) = IF k > 0 THEN k ELSE 0
  <1>1. Germination \in Heights
    BY BoundsAssumption DEF Germination, Heights
  <1>2. (IF k > 0 THEN k ELSE 0) \in Nat
    OBVIOUS
  <1> QED
    BY <1>1, <1>2, SeqOfFcn DEF Seedlings

\* Patch::add_seeds keeps a patch a vector of cohorts of heights.
LEMMA AddSeedsType ==
    ASSUME NEW cp \in [Species -> Seq(Heights)], NEW count \in [Species -> Int]
    PROVE  Patch_add_seeds(cp, count) \in [Species -> Seq(Heights)]
  BY SeedlingsType DEF Patch_add_seeds

\* seeds[i] -= k stays in the int range for every k that the draw can
\* return: the one subtraction that leaves the range wraps back into it.
LEMMA RemainingRange ==
    ASSUME NEW cnt \in IntMin..IntMax, NEW jj \in Int, NEW k \in Draws(cnt, jj)
    PROVE  Remaining(cnt, k) \in IntMin..IntMax
  <1> USE IntRange
  <1>1. CASE jj = 0 \/ cnt < 0
    <2>1. k \in {IntMin, 0}
      BY <1>1 DEF Draws, NaNCast
    <2> QED
      BY <2>1 DEF Remaining
  <1>2. CASE ~(jj = 0 \/ cnt < 0)
    <2>1. cnt \in 0..IntMax /\ k \in 0..cnt
      BY <1>2 DEF Draws
    <2> QED
      BY <2>1 DEF Remaining
  <1> QED
    BY <1>1, <1>2

\* TypeOK in five parts: the patches, the clock and the solver's last step,
\* the population-changed flag, the loop cursors, and the per-species
\* counts of births and add_seeds.
TypeCohorts == cohorts \in [Patches -> [Species -> Seq(Heights)]]
TypeClock   == age \in 0..MaxAge /\ dtLast \in {0} \cup StepSizes
TypeFlag    == resized \in BOOLEAN
TypeLoop    == /\ pc \in {"idle", "deaths", "births", "add_seeds"}
               /\ cur \in Patches /\ sp \in Species /\ j \in Int
TypeCounts  == /\ n \in [Species -> 0..MaxCohort]
               /\ seeds \in [Species -> IntMin..IntMax]
               /\ seedsIn \in [Species -> Nat] /\ sown \in [Species -> Nat]

TypeAll == TypeCohorts /\ TypeClock /\ TypeFlag /\ TypeLoop /\ TypeCounts

LEMMA TypeParts == TypeOK <=> TypeAll
  BY Zenon DEF TypeOK, TypeAll, TypeCohorts, TypeClock, TypeFlag, TypeLoop,
               TypeCounts

\* The type invariant: every state of the metacommunity has the shape the
\* code's containers give it, the loop cursors index existing patches and
\* species, and the seed counts add_seeds works on stay in the int range
\* however (int)rbinom misbehaves (metacommunity.h:147-152).
LEMMA TypeStep == TypeAll /\ [Next]_vars => TypeAll'
  <1> SUFFICES ASSUME TypeCohorts, TypeClock, TypeFlag, TypeLoop, TypeCounts,
                      [Next]_vars
               PROVE  TypeCohorts' /\ TypeClock' /\ TypeFlag' /\ TypeLoop'
                      /\ TypeCounts'
    BY Zenon DEF TypeAll
  <1> USE PatchesAssumption, SpeciesAssumption, BoundsAssumption, IntRange
          DEF Patches, Species, loopVars
  <1>1. CASE step_deterministic
    <2>1. PICK dt \in StepSizes : Deterministic(dt)
      BY <1>1 DEF step_deterministic
    <2>2. TypeCohorts'
      BY <2>1, IntegratedType DEF Deterministic, TypeCohorts, Heights
    <2>3. TypeClock'
      BY <2>1 DEF Deterministic, TypeClock
    <2>4. TypeFlag'
      BY <2>1 DEF Deterministic, TypeFlag
    <2> QED
      BY <1>1, <2>2, <2>3, <2>4 DEF step_deterministic, TypeLoop, TypeCounts
  <1>2. CASE r_step
    <2>1. PICK dt \in StepSizes : Deterministic(dt)
      BY <1>2 DEF r_step
    <2>2. TypeCohorts'
      BY <2>1, IntegratedType DEF Deterministic, TypeCohorts, Heights
    <2>3. TypeClock'
      BY <2>1 DEF Deterministic, TypeClock
    <2>4. TypeFlag'
      BY <2>1 DEF Deterministic, TypeFlag
    <2>5. TypeLoop'
      BY <1>2 DEF r_step, TypeLoop
    <2>6. TypeCounts'
      BY <1>2 DEF r_step, TypeCounts
    <2> QED
      BY <2>2, <2>3, <2>4, <2>5, <2>6
  <1>3. CASE r_step_stochastic
    <2>1. TypeFlag'
      BY <1>3, Zenon DEF r_step_stochastic, TypeFlag
    <2>2. TypeCohorts' /\ TypeClock'
      BY <1>3 DEF r_step_stochastic, TypeCohorts, TypeClock
    <2>3. TypeLoop'
      BY <1>3 DEF r_step_stochastic, TypeLoop
    <2>4. TypeCounts'
      BY <1>3 DEF r_step_stochastic, TypeCounts
    <2> QED
      BY <2>1, <2>2, <2>3, <2>4
  <1>4. CASE deaths
    <2>1. PICK d \in Survivors(cohorts[cur][sp]) :
                 /\ cohorts' = [cohorts EXCEPT ![cur][sp] = d]
                 /\ resized' = (resized \/ d # cohorts[cur][sp])
      BY <1>4 DEF deaths
    <2>2. d \in Seq(Heights)
      BY SurvivorsType DEF TypeCohorts, TypeLoop
    <2>3. TypeCohorts'
      BY <2>1, <2>2 DEF TypeCohorts, TypeLoop
    <2>4. TypeFlag'
      BY <2>1 DEF TypeFlag
    <2>5. TypeLoop'
      <3>1. CASE sp < NSpecies
        BY <1>4, <3>1 DEF deaths, TypeLoop
      <3>2. CASE ~(sp < NSpecies) /\ ~LastPatch(cur)
        BY <1>4, <3>2 DEF deaths, LastPatch, NextPatch, TypeLoop
      <3>3. CASE ~(sp < NSpecies) /\ LastPatch(cur)
        BY <1>4, <3>3 DEF deaths, TypeLoop
      <3> QED
        BY <3>1, <3>2, <3>3
    <2>6. UNCHANGED <<age, dtLast, seeds, seedsIn, sown>>
      BY <1>4 DEF deaths
    <2>7. TypeClock'
      BY <2>6 DEF TypeClock
    <2>8. n' \in [Species -> 0..MaxCohort]
      <3>1. CASE ~(sp < NSpecies) /\ LastPatch(cur)
        BY <1>4, <3>1 DEF deaths
      <3>2. CASE ~(~(sp < NSpecies) /\ LastPatch(cur))
        BY <1>4, <3>2 DEF deaths, TypeCounts
      <3> QED
        BY <3>1, <3>2
    <2>9. TypeCounts'
      BY <2>6, <2>8 DEF TypeCounts
    <2> QED
      BY <2>3, <2>4, <2>5, <2>7, <2>9
  <1>5. CASE births
    <2>1. PICK b \in [Species -> 0..MaxSeeds] :
                 /\ \A s \in Species :
                       /\ b[s] <= SeedsPerPlant * Len(cohorts[cur][s])
                       /\ Fits(cohorts, s, n[s] + b[s]) \/ b[s] = 0
                 /\ n' = [s \in Species |-> n[s] + b[s]]
      BY <1>5 DEF births
    <2>2. ASSUME NEW s \in Species PROVE n[s] + b[s] \in 0..MaxCohort
      <3>0. n[s] \in 0..MaxCohort /\ b[s] \in Nat
        <4>1. n[s] \in 0..MaxCohort
          BY DEF TypeCounts
        <4>2. b[s] \in 0..MaxSeeds
          BY <2>1
        <4> QED
          BY <4>1, <4>2, BoundsAssumption
      <3>1. CASE b[s] = 0
        BY <3>0, <3>1
      <3>2. CASE b[s] # 0
        <4>1. Len(cohorts[1][s]) + (n[s] + b[s]) <= MaxCohort
          BY <2>1, <3>2 DEF Fits
        <4>2. Len(cohorts[1][s]) \in Nat
          BY DEF TypeCohorts
        <4> QED
          BY ONLY <3>0, <4>1, <4>2, BoundsAssumption
      <3> QED
        BY <3>1, <3>2
    <2>3. n' \in [Species -> 0..MaxCohort]
      BY <2>1, <2>2
    <2>4. ASSUME ~LastPatch(cur) PROVE TypeLoop' /\ TypeCounts'
      <3>1. TypeLoop'
        BY <1>5, <2>4 DEF births, LastPatch, NextPatch, TypeLoop
      <3>2. TypeCounts'
        BY <1>5, <2>3, <2>4 DEF births, TypeCounts
      <3> QED
        BY <3>1, <3>2
    <2>5. ASSUME LastPatch(cur) PROVE TypeLoop' /\ TypeCounts'
      <3>1. TypeLoop'
        BY <1>5, <2>5 DEF births, StartAddSeeds, TypeLoop
      <3>2. seeds' = n' /\ seedsIn' = n' /\ sown' = [s \in Species |-> 0]
        BY <1>5, <2>5 DEF births, StartAddSeeds
      <3>3. TypeCounts'
        <4>1. 0..MaxCohort \subseteq IntMin..IntMax /\ 0..MaxCohort \subseteq Nat
          OBVIOUS
        <4> QED
          BY <2>3, <3>2, <4>1 DEF TypeCounts
      <3> QED
        BY <3>1, <3>3
    <2>6. TypeLoop' /\ TypeCounts'
      BY <2>4, <2>5
    <2>7. TypeFlag'
      BY <1>5, Zenon DEF births, TypeFlag
    <2> QED
      BY <1>5, <2>6, <2>7 DEF births, TypeCohorts, TypeClock
  <1>6. CASE add_seeds
    <2>1. TypeFlag'
      BY <1>6, Zenon DEF add_seeds, TypeFlag
    <2>2. TypeCohorts' /\ TypeClock'
      BY <1>6 DEF add_seeds, TypeCohorts, TypeClock
    <2>3. TypeLoop'
      BY <1>6 DEF add_seeds, StartAddSeeds, TypeLoop
    <2>4. PICK v \in [Species -> 0..MaxSeeds] : StartAddSeeds(v)
      BY <1>6 DEF add_seeds
    <2>5. TypeCounts'
      <3>1. seeds' = v /\ seedsIn' = v /\ sown' = [s \in Species |-> 0]
        BY <2>4 DEF StartAddSeeds
      <3>2. n' = n
        BY <1>6 DEF add_seeds
      <3>3. 0..MaxSeeds \subseteq IntMin..IntMax /\ 0..MaxSeeds \subseteq Nat
        OBVIOUS
      <3> QED
        BY <3>1, <3>2, <3>3 DEF TypeCounts
    <2> QED
      BY <2>1, <2>2, <2>3, <2>5
  <1>7. CASE add_seeds_patch
    <2>1. PICK k \in [Species -> DrawValues] :
                 /\ \A s \in Species : k[s] \in Draws(seeds[s], j)
                 /\ cohorts' = [cohorts EXCEPT ![cur] = Patch_add_seeds(@, k)]
                 /\ seeds' = [s \in Species |-> Remaining(seeds[s], k[s])]
                 /\ sown' = [s \in Species |-> sown[s] + Len(Seedlings(k[s]))]
                 /\ resized' = (resized \/ \E s \in Species : k[s] > 0)
      BY <1>7 DEF add_seeds_patch
    <2>2. k \in [Species -> Int]
      BY DEF DrawValues
    <2>3. TypeCohorts'
      BY <2>1, <2>2, AddSeedsType DEF TypeCohorts, TypeLoop
    <2>4. ASSUME NEW s \in Species
          PROVE  Remaining(seeds[s], k[s]) \in IntMin..IntMax
      BY <2>1, RemainingRange DEF TypeCounts, TypeLoop
    <2>5. ASSUME NEW s \in Species PROVE Len(Seedlings(k[s])) \in Nat
      BY <2>2, SeedlingsType
    <2>6. TypeCounts'
      <3>1. seeds' \in [Species -> IntMin..IntMax]
        BY <2>1, <2>4
      <3>2. sown' \in [Species -> Nat]
        <4>0. sown \in [Species -> Nat]
          BY DEF TypeCounts
        <4>1. \A s \in Species : sown[s] + Len(Seedlings(k[s])) \in Nat
          BY ONLY <4>0, <2>5
        <4> QED
          BY <2>1, <4>1
      <3>3. n' = n /\ seedsIn' = seedsIn
        BY <1>7 DEF add_seeds_patch
      <3> QED
        BY <3>1, <3>2, <3>3 DEF TypeCounts
    <2>7. TypeFlag'
      BY <2>1 DEF TypeFlag
    <2>8. TypeLoop' /\ TypeClock'
      BY <1>7 DEF add_seeds_patch, LastPatch, NextPatch, TypeLoop, TypeClock
    <2> QED
      BY <2>3, <2>6, <2>7, <2>8
  <1>8. CASE r_add_seedlings
    <2>1. PICK m \in RMatrices : AddSeedlings(m)
      BY <1>8 DEF r_add_seedlings
    <2>2. ASSUME NEW p \in Patches
          PROVE  Column(m, p) \in [Species -> Int]
      <3>1. ASSUME NEW s \in Species
            PROVE  (p - 1) * NSpecies + s \in 1..(NSpecies * NPatches)
        BY SMT DEF Patches, Species
      <3> QED
        BY <3>1 DEF Column, RMatrices
    <2>3. ASSUME NEW p \in Patches
          PROVE  Patch_add_seeds(cohorts[p], Column(m, p))
                    \in [Species -> Seq(Heights)]
      <3>1. cohorts[p] \in [Species -> Seq(Heights)]
        BY DEF TypeCohorts
      <3> QED
        BY <2>2, <3>1, AddSeedsType
    <2>4. cohorts' = [p \in Patches |-> Patch_add_seeds(cohorts[p], Column(m, p))]
      BY <2>1 DEF AddSeedlings
    <2>5. TypeCohorts'
      BY <2>3, <2>4 DEF TypeCohorts
    <2>6. TypeFlag'
      BY <2>1 DEF AddSeedlings, TypeFlag
    <2> QED
      BY <2>1, <2>5, <2>6 DEF AddSeedlings, loopVars, TypeClock, TypeLoop,
                              TypeCounts
  <1>9. CASE r_clear
    <2>1. TypeFlag'
      BY <1>9 DEF r_clear, TypeFlag
    <2>2. TypeCohorts' /\ TypeClock'
      BY <1>9 DEF r_clear, TypeCohorts, TypeClock
    <2>3. TypeLoop' /\ TypeCounts'
      BY <1>9 DEF r_clear, TypeLoop, TypeCounts
    <2> QED
      BY <2>1, <2>2, <2>3
  <1>10. CASE UNCHANGED vars
    <2>1. TypeFlag'
      BY <1>10, Zenon DEF vars, TypeFlag
    <2> QED
      BY <1>10, <2>1 DEF vars, TypeCohorts, TypeClock, TypeLoop, TypeCounts
  <1> QED
    BY <1>1, <1>2, <1>3, <1>4, <1>5, <1>6, <1>7, <1>8, <1>9, <1>10
       DEF Next

LEMMA InitType == Init => TypeAll
  <1> SUFFICES ASSUME Init PROVE TypeAll
    OBVIOUS
  <1> USE PatchesAssumption, SpeciesAssumption, BoundsAssumption, IntRange
          DEF Init, Patches, Species
  <1>1. TypeFlag
    BY DEF TypeFlag
  <1>2. TypeCohorts /\ TypeClock /\ TypeLoop /\ TypeCounts
    BY DEF TypeCohorts, TypeClock, TypeLoop, TypeCounts
  <1> QED
    BY <1>1, <1>2 DEF TypeAll

\* Every reachable state satisfies the type invariant TypeOK.
THEOREM TypeCorrect == Spec => []TypeOK
  <1>1. Init => TypeAll
    BY InitType
  <1>2. TypeAll /\ [Next]_vars => TypeAll'
    BY TypeStep
  <1>3. TypeAll => TypeOK
    BY TypeParts
  <1> QED
    BY <1>1, <1>2, <1>3, PTL DEF Spec

-----------------------------------------------------------------------------
(* add_seeds never creates seedlings.                                      *)

\* The count a remaining int stands for: a negative remainder is a
\* non-negative one that wrapped past INT_MAX (metacommunity.h:151).
TrueRem(x) == IF x >= 0 THEN x ELSE x - IntMin

\* Inside add_seeds, the seedlings handed out so far and the seeds that
\* remain add up to what add_seeds was given.
SeedsAccounted ==
    pc = "add_seeds" =>
        \A s \in Species : sown[s] + TrueRem(seeds[s]) = seedsIn[s]

\* The inductive invariant behind SeedsNeverCreated.
IInv == TypeAll /\ SeedsAccounted /\ SeedsNeverCreated

\* A remaining count in the int range stands for a natural number.
LEMMA TrueRemNat ==
    ASSUME NEW x \in IntMin..IntMax
    PROVE  TrueRem(x) \in Nat
  BY IntRange DEF TrueRem

\* One draw moves exactly the seedlings it hands out from the remaining
\* count to the patch, whichever value (int)rbinom takes: NaN cast to 0
\* or to INT_MIN, a binomial draw, or all seeds when j = 1.
LEMMA RemainingAccount ==
    ASSUME NEW cnt \in IntMin..IntMax, NEW jj \in Int, NEW k \in Draws(cnt, jj)
    PROVE  Len(Seedlings(k)) + TrueRem(Remaining(cnt, k)) = TrueRem(cnt)
  <1> USE IntRange
  <1>1. k \in Int
    BY DEF Draws, NaNCast
  <1>2. Len(Seedlings(k)) = IF k > 0 THEN k ELSE 0
    BY <1>1, SeedlingsType
  <1>3. CASE jj = 0 \/ cnt < 0
    <2>1. k \in {IntMin, 0}
      BY <1>3 DEF Draws, NaNCast
    <2> QED
      BY <1>2, <2>1 DEF Remaining, TrueRem
  <1>4. CASE ~(jj = 0 \/ cnt < 0)
    <2>1. cnt \in 0..IntMax /\ k \in 0..cnt
      BY <1>4 DEF Draws
    <2> QED
      BY <1>2, <2>1 DEF Remaining, TrueRem
  <1> QED
    BY <1>3, <1>4

\* Entering add_seeds(v) with a vector of counts establishes the account.
LEMMA StartAccount ==
    ASSUME NEW v \in [Species -> Nat], StartAddSeeds(v)
    PROVE  SeedsAccounted' /\ SeedsNeverCreated'
  BY DEF StartAddSeeds, SeedsAccounted, SeedsNeverCreated, TrueRem

LEMMA IInvStep == IInv /\ [Next]_vars => IInv'
  <1> SUFFICES ASSUME TypeAll, SeedsAccounted, SeedsNeverCreated, [Next]_vars
               PROVE  TypeAll' /\ SeedsAccounted' /\ SeedsNeverCreated'
    BY DEF IInv
  <1>1. TypeAll'
    BY TypeStep
  <1> USE DEF Species
  <1>2. CASE add_seeds_patch
    <2>1. PICK k \in [Species -> DrawValues] :
                 /\ \A s \in Species : k[s] \in Draws(seeds[s], j)
                 /\ seeds' = [s \in Species |-> Remaining(seeds[s], k[s])]
                 /\ sown' = [s \in Species |-> sown[s] + Len(Seedlings(k[s]))]
      BY <1>2 DEF add_seeds_patch
    <2>2. seedsIn' = seedsIn /\ pc = "add_seeds"
      BY <1>2 DEF add_seeds_patch
    <2>3. ASSUME NEW s \in Species
          PROVE  sown'[s] + TrueRem(seeds'[s]) = seedsIn'[s]
      <3>1. seeds[s] \in IntMin..IntMax /\ j \in Int /\ sown[s] \in Nat
        BY DEF TypeAll, TypeCounts, TypeLoop
      <3>2. Len(Seedlings(k[s])) + TrueRem(Remaining(seeds[s], k[s]))
              = TrueRem(seeds[s])
        BY <2>1, <3>1, RemainingAccount
      <3>3. sown[s] + TrueRem(seeds[s]) = seedsIn[s]
        BY <2>2 DEF SeedsAccounted
      <3>4. k[s] \in Int
        BY <2>1, IntRange DEF DrawValues
      <3>5. TrueRem(seeds[s]) \in Int /\ Len(Seedlings(k[s])) \in Int
        BY <3>1, <3>4, TrueRemNat, SeedlingsType
      <3>6. TrueRem(Remaining(seeds[s], k[s])) \in Int
        BY <2>1, <3>1, RemainingRange, TrueRemNat
      <3> QED
        BY <2>1, <2>2, <3>1, <3>2, <3>3, <3>5, <3>6
    <2>4. SeedsAccounted'
      BY <2>3 DEF SeedsAccounted
    <2>5. SeedsNeverCreated'
      <3> SUFFICES ASSUME NEW s \in Species PROVE sown'[s] <= seedsIn'[s]
        BY DEF SeedsNeverCreated
      <3>1. seeds'[s] \in IntMin..IntMax /\ sown'[s] \in Nat
        BY <1>1 DEF TypeAll, TypeCounts
      <3>2. TrueRem(seeds'[s]) \in Nat
        BY <3>1, TrueRemNat
      <3> QED
        BY <2>3, <3>1, <3>2
    <2> QED
      BY <1>1, <2>4, <2>5
  <1>3. CASE births
    <2>1. CASE LastPatch(cur)
      <3>1. n' \in [Species -> Nat] /\ StartAddSeeds(n')
        BY <1>1, <1>3, <2>1 DEF births, TypeAll, TypeCounts
      <3> QED
        BY <1>1, <3>1, StartAccount
    <2>3. CASE ~LastPatch(cur)
      <3>1. pc' = "births" /\ sown' = sown /\ seedsIn' = seedsIn
        BY <1>3, <2>3 DEF births
      <3> QED
        BY <1>1, <3>1 DEF SeedsAccounted, SeedsNeverCreated
    <2> QED
      BY <2>1, <2>3
  <1>4. CASE add_seeds
    <2>1. PICK v \in [Species -> 0..MaxSeeds] : StartAddSeeds(v)
      BY <1>4 DEF add_seeds
    <2> QED
      BY <1>1, <2>1, StartAccount
  <1>5. CASE deaths
    <2>1. pc' \in {"deaths", "births"} /\ sown' = sown /\ seedsIn' = seedsIn
      BY <1>5 DEF deaths
    <2> QED
      BY <1>1, <2>1 DEF SeedsAccounted, SeedsNeverCreated
  <1>6. CASE step_deterministic \/ r_step \/ r_step_stochastic
             \/ r_add_seedlings \/ r_clear
    BY <1>1, <1>6 DEF step_deterministic, r_step, r_step_stochastic,
                      r_add_seedlings, AddSeedlings, r_clear, loopVars,
                      SeedsAccounted, SeedsNeverCreated
  <1>7. CASE UNCHANGED vars
    BY <1>1, <1>7 DEF vars, SeedsAccounted, SeedsNeverCreated
  <1> QED
    BY <1>2, <1>3, <1>4, <1>5, <1>6, <1>7 DEF Next

\* add_seeds never hands the patches more seedlings of a species than it
\* was given seeds of it (SeedsNeverCreated), whatever (int)rbinom returns
\* for p = 1/0 and however seeds[i] -= k wraps (metacommunity.h:142-156).
THEOREM SeedsNotCreated == Spec => []SeedsNeverCreated
  <1>1. Init => IInv
    BY InitType DEF Init, IInv, SeedsAccounted, SeedsNeverCreated
  <1>2. IInv => SeedsNeverCreated
    BY DEF IInv
  <1> QED
    BY <1>1, <1>2, IInvStep, PTL DEF Spec

-----------------------------------------------------------------------------
(* The j of add_seeds, for every number of patches.                        *)

\* The inductive invariant behind SeedProbabilityCursor: it needs the
\* types (cur is a patch, j an integer) to do the arithmetic.
JInv == TypeAll /\ SeedProbabilityCursor

\* Entering add_seeds sets up the cursor of the first patch.
LEMMA StartCursor ==
    ASSUME NEW v, StartAddSeeds(v)
    PROVE  SeedProbabilityCursor'
  BY PatchesAssumption DEF StartAddSeeds, SeedProbabilityCursor

\* Every step keeps JInv.
LEMMA JInvStep == JInv /\ [Next]_vars => JInv'
  <1> SUFFICES ASSUME JInv, [Next]_vars PROVE SeedProbabilityCursor'
    BY TypeStep DEF JInv
  <1>1. TypeAll /\ SeedProbabilityCursor
    BY DEF JInv
  <1>2. CASE add_seeds_patch
    <2>1. pc = "add_seeds" /\ j' = j - NPatches
      BY <1>2 DEF add_seeds_patch
    <2>2. cur \in Patches /\ j = NPatches * (2 - cur)
      BY <1>1, <2>1 DEF TypeAll, TypeLoop, SeedProbabilityCursor
    <2>3. CASE ~LastPatch(cur)
      <3>1. cur' = cur + 1
        BY <1>2, <2>3 DEF add_seeds_patch, NextPatch
      <3> QED
        BY <2>1, <2>2, <3>1, PatchesAssumption DEF SeedProbabilityCursor, Patches
    <2>4. CASE LastPatch(cur)
      BY <1>2, <2>4 DEF add_seeds_patch, SeedProbabilityCursor
    <2> QED
      BY <2>3, <2>4
  <1>3. CASE births
    <2>1. CASE LastPatch(cur)
      <3>1. StartAddSeeds(n')
        BY <1>3, <2>1 DEF births
      <3> QED
        BY <3>1, StartCursor
    <2>2. CASE ~LastPatch(cur)
      BY <1>3, <2>2 DEF births, SeedProbabilityCursor
    <2> QED
      BY <2>1, <2>2
  <1>4. CASE add_seeds
    <2>1. PICK v \in [Species -> 0..MaxSeeds] : StartAddSeeds(v)
      BY <1>4 DEF add_seeds
    <2> QED
      BY <2>1, StartCursor
  <1>5. CASE deaths
    BY <1>5 DEF deaths, SeedProbabilityCursor
  <1>6. CASE step_deterministic \/ r_step \/ r_step_stochastic
             \/ r_add_seedlings \/ r_clear
    BY <1>6 DEF step_deterministic, r_step, r_step_stochastic,
                r_add_seedlings, AddSeedlings, r_clear, loopVars,
                SeedProbabilityCursor
  <1>7. CASE UNCHANGED vars
    BY <1>1, <1>7 DEF vars, SeedProbabilityCursor
  <1> QED
    BY <1>2, <1>3, <1>4, <1>5, <1>6, <1>7 DEF Next

\* SeedProbabilityCursor: while add_seeds runs, patch cur draws with
\* p = 1/j for j = NPatches * (2 - cur) (metacommunity.h:145-152).
THEOREM ProbabilityCursor == Spec => []SeedProbabilityCursor
  <1>1. Init => JInv
    BY InitType DEF Init, JInv, SeedProbabilityCursor
  <1>2. Spec => []JInv
    BY <1>1, JInvStep, PTL DEF Spec
  <1> QED
    BY <1>2, PTL DEF JInv

\* For every number of patches, the second patch of add_seeds draws with
\* p = 1.0/0: every (int)rbinom there is the undefined cast of NaN.
THEOREM SecondPatchDrawsNaN ==
    Spec => [](pc = "add_seeds" /\ cur = 2 =>
                  \A s \in Species : Draws(seeds[s], j) = NaNCast)
  <1>1. SeedProbabilityCursor =>
          (pc = "add_seeds" /\ cur = 2 =>
              \A s \in Species : Draws(seeds[s], j) = NaNCast)
    BY PatchesAssumption DEF SeedProbabilityCursor, Draws
  <1> QED
    BY <1>1, ProbabilityCursor, PTL

\* For every number of patches, no patch after the first draws with
\* j = 1, p = 1: the last patch never takes all the seeds that remain, so
\* add_seeds conserves seeds only when there is a single patch.
THEOREM NoLaterPatchTakesRest ==
    Spec => [](pc = "add_seeds" /\ cur > 1 => j # 1)
  <1>1. TypeAll /\ SeedProbabilityCursor => (pc = "add_seeds" /\ cur > 1 => j # 1)
    BY PatchesAssumption DEF TypeAll, TypeLoop, SeedProbabilityCursor, Patches
  <1>2. Init => JInv
    BY InitType DEF Init, JInv, SeedProbabilityCursor
  <1>3. Spec => []JInv
    BY <1>2, JInvStep, PTL DEF Spec
  <1> QED
    BY <1>1, <1>3, PTL DEF JInv

-----------------------------------------------------------------------------
(* With a single patch, add_seeds conserves seeds.                         *)

\* At the first patch of add_seeds nothing has been drawn yet.
FirstPatchUndrawn ==
    pc = "add_seeds" /\ cur = 1 =>
        seeds = seedsIn /\ sown = [s \in Species |-> 0]

\* The inductive invariant of the single-patch theorem.
FInv == JInv /\ FirstPatchUndrawn

LEMMA FirstPatchStep == FInv /\ [Next]_vars => FirstPatchUndrawn'
  <1> SUFFICES ASSUME FInv, [Next]_vars, pc' = "add_seeds", cur' = 1
               PROVE  seeds' = seedsIn' /\ sown' = [s \in Species |-> 0]
    BY DEF FirstPatchUndrawn
  <1>1. cur \in Patches
    BY DEF FInv, JInv, TypeAll, TypeLoop
  <1>2. CASE add_seeds_patch
    <2>1. CASE ~LastPatch(cur)
      <3>1. cur' = cur + 1
        BY <1>2, <2>1 DEF add_seeds_patch, NextPatch
      <3> QED
        BY <1>1, <3>1 DEF Patches
    <2>2. CASE LastPatch(cur)
      BY <1>2, <2>2 DEF add_seeds_patch
    <2> QED
      BY <2>1, <2>2
  <1>3. CASE births
    <2>1. CASE LastPatch(cur)
      BY <1>3, <2>1 DEF births, StartAddSeeds
    <2>2. CASE ~LastPatch(cur)
      BY <1>3, <2>2 DEF births
    <2> QED
      BY <2>1, <2>2
  <1>4. CASE add_seeds
    BY <1>4 DEF add_seeds, StartAddSeeds
  <1>5. CASE deaths \/ step_deterministic \/ r_step \/ r_step_stochastic
             \/ r_add_seedlings \/ r_clear
    BY <1>5 DEF deaths, step_deterministic, r_step, r_step_stochastic,
                r_add_seedlings, AddSeedlings, r_clear
  <1>6. CASE UNCHANGED vars
    BY <1>6 DEF vars, FInv, FirstPatchUndrawn
  <1> QED
    BY <1>2, <1>3, <1>4, <1>5, <1>6 DEF Next

LEMMA FInvStep == FInv /\ [Next]_vars => FInv'
  BY JInvStep, FirstPatchStep DEF FInv

\* With one patch, the step that ends add_seeds hands out every seed: the
\* patch is the first, so nothing was drawn before, and j = 1.
LEMMA SinglePatchStep ==
    ASSUME NPatches = 1, FInv, [Next]_vars, pc = "add_seeds", pc' = "idle"
    PROVE  sown' = seedsIn'
  <1>1. add_seeds_patch
    BY DEF Next, step_deterministic, r_step, r_step_stochastic, deaths, births,
           add_seeds, r_add_seedlings, r_clear, vars
  <1>2. cur = 1 /\ j = 1
    BY DEF FInv, JInv, TypeAll, TypeLoop, SeedProbabilityCursor, Patches
  <1>3. seeds = seedsIn /\ sown = [s \in Species |-> 0]
    BY <1>2 DEF FInv, FirstPatchUndrawn
  <1>4. seedsIn \in [Species -> Nat] /\ seedsIn' = seedsIn
    BY <1>1 DEF FInv, JInv, TypeAll, TypeCounts, add_seeds_patch
  <1>5. PICK k \in [Species -> DrawValues] :
          /\ \A s \in Species : k[s] \in Draws(seeds[s], j)
          /\ sown' = [s \in Species |-> sown[s] + Len(Seedlings(k[s]))]
    BY <1>1 DEF add_seeds_patch
  <1>6. ASSUME NEW s \in Species PROVE sown[s] + Len(Seedlings(k[s])) = seedsIn[s]
    <2>1. seeds[s] \in Nat
      BY <1>3, <1>4
    <2>2. k[s] = seeds[s]
      BY <1>2, <1>5, <2>1 DEF Draws
    <2>3. Len(Seedlings(k[s])) = k[s]
      BY <2>1, <2>2, SeedlingsType
    <2> QED
      BY <1>3, <2>2, <2>3
  <1> QED
    BY <1>4, <1>5, <1>6

\* SeedsConserved holds when the metacommunity has a single patch (and so
\* a single species): the only draw is rbinom(n, 1/1), which takes every
\* seed.  With two patches or more it fails (NoLaterPatchTakesRest; the
\* violation run seeds_conserved).
THEOREM SinglePatchConserves ==
    ASSUME NPatches = 1
    PROVE  Spec => SeedsConserved
  <1>1. Init => FInv
    BY InitType DEF Init, FInv, JInv, SeedProbabilityCursor, FirstPatchUndrawn
  <1>2. Spec => []FInv
    BY <1>1, FInvStep, PTL DEF Spec
  <1>3. FInv /\ [Next]_vars =>
          [pc = "add_seeds" /\ pc' = "idle" => sown' = seedsIn']_vars
    BY SinglePatchStep
  <1> QED
    BY <1>2, <1>3, PTL DEF Spec, SeedsConserved

=============================================================================
