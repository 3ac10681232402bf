--------------------------- MODULE MCMetacommunity ---------------------------
(***************************************************************************)
(* Model-checking instance of Metacommunity: the solver takes unit steps,  *)
(* and the three-patch runs bound the total population, which only feeds  *)
(* the seed allocation through the cohort bound.                           *)
(***************************************************************************)
EXTENDS Metacommunity

MCStepSizes == {1}

\* Most individuals the metacommunity holds in the three-patch runs.
MCMaxPopulation == 2

MCPopulationBound == ode_size(cohorts) <= MCMaxPopulation

\* The seedling matrices of the three-patch runs: every other matrix adds
\* more individuals than MCPopulationBound lets TLC explore.  A matrix of
\* total at most MCMaxPopulation = 2 is the sum of two unit matrices at
\* cells a and b, where cell 0 stands for none.
MCCells == 1..(NSpecies * NPatches)

MCRMatrices ==
    {m \in {[i \in MCCells |-> (IF i = a THEN 1 ELSE 0) + (IF i = b THEN 1 ELSE 0)] :
              a, b \in MCCells \cup {0}} :
        \A i \in MCCells : m[i] <= MaxSeeds}
=============================================================================
