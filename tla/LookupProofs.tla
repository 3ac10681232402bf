----------------------------- MODULE LookupProofs -----------------------------
(***************************************************************************)
(* Proofs about util::Lookup (module Lookup): the type invariant, that a  *)
(* table always points into the object its addr names, and that Lookup    *)
(* implements LookupParams under the mapping params <- val.               *)
(***************************************************************************)
EXTENDS Lookup, TLAPS

\* The inductive invariant: the type invariant and the table/addr pairing.
Inv == TypeOK /\ TableMatchesAddr

\* The table an object uses always points into the object itself: either
\* it is rebuilt, or addr = this and the pairing says it was built for it.
LEMMA UseTableSelf ==
    ASSUME Inv, NEW o \in Objs
    PROVE  UseTable(o) = [k \in Keys |-> o]
<1>1. CASE addr[o] # o
  BY <1>1 DEF UseTable, NeedsBuild, BuiltTable
<1>2. CASE addr[o] = o
  <2>1. o # NULL
    BY LookupAssumption
  <2>2. table[o] = [k \in Keys |-> o]
    BY <1>2, <2>1 DEF Inv, TableMatchesAddr
  <2> QED
    BY <1>2, <2>2 DEF UseTable, NeedsBuild
<1> QED
  BY <1>1, <1>2

\* Init establishes the invariant.
LEMMA InitInv == Init => Inv
BY LookupAssumption DEF Init, Inv, TypeOK, TableMatchesAddr, EmptyTable

\* A use of o (get_parameters, set_parameters) leaves table and addr
\* paired: o's table is the one built for o and addr[o] = o.
LEMMA BuildInv ==
    ASSUME Inv, NEW o \in Objs, Build(o)
    PROVE  /\ table' \in [Objs -> [Keys -> Objs \cup {NULL}]]
           /\ addr' \in [Objs -> Objs \cup {NULL}]
           /\ TableMatchesAddr'
<1>1. UseTable(o) = [k \in Keys |-> o]
  BY UseTableSelf
<1>2. table' = [table EXCEPT ![o] = [k \in Keys |-> o]]
      /\ addr' = [addr EXCEPT ![o] = o]
  BY <1>1 DEF Build
<1>3. o # NULL
  BY LookupAssumption
<1> QED
  BY <1>2, <1>3 DEF Inv, TypeOK, TableMatchesAddr

\* Every step keeps the invariant.
LEMMA NextInv == Inv /\ [Next]_vars => Inv'
<1> SUFFICES ASSUME Inv, [Next]_vars PROVE Inv'
  OBVIOUS
<1> USE LookupAssumption
<1>1. ASSUME NEW o \in Objs, Construct(o) PROVE Inv'
  <2>1. TypeOK'
    BY <1>1 DEF Construct, Inv, TypeOK, EmptyTable
  <2>2. TableMatchesAddr'
    BY <1>1 DEF Construct, Inv, TypeOK, TableMatchesAddr
  <2> QED
    BY <2>1, <2>2 DEF Inv
<1>2. ASSUME NEW o \in Objs, NEW src \in Objs, r_copy(o, src) PROVE Inv'
  <2>1. TypeOK'
    BY <1>2 DEF r_copy, Inv, TypeOK
  <2>2. TableMatchesAddr'
    BY <1>2 DEF r_copy, Inv, TypeOK, TableMatchesAddr
  <2> QED
    BY <2>1, <2>2 DEF Inv
<1>3. ASSUME NEW o \in Objs, NEW src \in Objs, Assign(o, src) PROVE Inv'
  <2>1. TypeOK'
    BY <1>3 DEF Assign, Inv, TypeOK
  <2>2. TableMatchesAddr'
    BY <1>3 DEF Assign, Inv, TypeOK, TableMatchesAddr
  <2> QED
    BY <2>1, <2>2 DEF Inv
<1>4. ASSUME NEW o \in Objs, Destroy(o) PROVE Inv'
  BY <1>4 DEF Destroy, Inv, TypeOK, TableMatchesAddr
<1>5. ASSUME NEW o \in Objs, get_parameters(o) PROVE Inv'
  <2>1. Build(o)
    BY <1>5 DEF get_parameters
  <2>2. UseTable(o) = [k \in Keys |-> o]
    BY UseTableSelf
  <2>3. got' \in [Keys -> Vals]
    BY <1>5, <2>2 DEF get_parameters, Inv, TypeOK
  <2> QED
    BY <1>5, <2>1, <2>3, BuildInv DEF get_parameters, Inv, TypeOK
<1>6. ASSUME NEW o \in Objs, NEW x \in Lists, set_parameters(o, x) PROVE Inv'
  <2>1. Build(o)
    BY <1>6 DEF set_parameters
  <2>2. x \in [DOMAIN x -> Vals]
    BY DEF Lists
  <2>3. val' \in [Objs -> [Keys -> Vals]]
    BY <1>6, <2>2 DEF set_parameters, Inv, TypeOK
  <2> QED
    BY <1>6, <2>1, <2>3, BuildInv DEF set_parameters, Inv, TypeOK
<1>7. CASE UNCHANGED vars
  BY <1>7 DEF vars, Inv, TypeOK, TableMatchesAddr
<1> QED
  BY <1>1, <1>2, <1>3, <1>4, <1>5, <1>6, <1>7 DEF Next

\* Lookup's tables keep their pairing with addr in every reachable state:
\* a copy's pointers into its source are never used unrebuilt.
THEOREM TableInvariant == Spec => []TableMatchesAddr
<1>1. Spec => []Inv
  BY InitInv, NextInv, PTL DEF Spec
<1> QED
  BY <1>1, PTL DEF Inv

\* The type invariant of Lookup.
THEOREM TypeCorrect == Spec => []TypeOK
<1>1. Spec => []Inv
  BY InitInv, NextInv, PTL DEF Spec
<1> QED
  BY <1>1, PTL DEF Inv

-----------------------------------------------------------------------------
(***************************************************************************)
(* Refinement: each step of Lookup is a step of LookupParams on           *)
(* <<live, val, got>>, or leaves them unchanged.                          *)
(***************************************************************************)

\* set_parameters writes exactly the abstract Set: check_keys holds iff x
\* names parameters only, and the writes land in o.
LEMMA SetRefines ==
    ASSUME Inv, NEW o \in Objs, NEW x \in Lists, set_parameters(o, x)
    PROVE  LP!Set(o, x)
<1>1. UseTable(o) = [k \in Keys |-> o]
  BY UseTableSelf
<1>2. o # NULL
  BY LookupAssumption
<1>3. check_keys(o, x) <=> DOMAIN x \subseteq Keys
  BY <1>1, <1>2 DEF check_keys
<1>4. CASE DOMAIN x \subseteq Keys
  <2>1. val' = [q \in Objs |-> [k \in Keys |->
                   IF k \in DOMAIN x /\ o = q THEN x[k] ELSE val[q][k]]]
    BY <1>1, <1>3, <1>4 DEF set_parameters
  <2>2. val' = [val EXCEPT ![o] = [k \in Keys |-> IF k \in DOMAIN x
                                                     THEN x[k] ELSE val[o][k]]]
    BY <2>1 DEF Inv, TypeOK
  <2> QED
    BY <1>4, <2>2 DEF set_parameters, LP!Set
<1>5. CASE ~(DOMAIN x \subseteq Keys)
  BY <1>3, <1>5 DEF set_parameters, LP!Set
<1> QED
  BY <1>4, <1>5

\* get_parameters reads exactly the parameters of o.
LEMMA GetRefines ==
    ASSUME Inv, NEW o \in Objs, get_parameters(o)
    PROVE  LP!Get(o)
<1>1. UseTable(o) = [k \in Keys |-> o]
  BY UseTableSelf
<1>2. got' = [k \in Keys |-> val[o][k]]
  BY <1>1 DEF get_parameters
<1>3. got' = val[o]
  BY <1>2 DEF Inv, TypeOK
<1> QED
  BY <1>3 DEF get_parameters, LP!Get

LEMMA StepRefines == Inv /\ [Next]_vars => [LP!Next]_<<live, val, got>>
<1> SUFFICES ASSUME Inv, [Next]_vars PROVE [LP!Next]_<<live, val, got>>
  OBVIOUS
<1>1. ASSUME NEW o \in Objs, Construct(o) PROVE LP!Next
  BY <1>1 DEF Construct, LP!Next, LP!Construct
<1>2. ASSUME NEW o \in Objs, NEW src \in Objs, r_copy(o, src) PROVE LP!Next
  BY <1>2 DEF r_copy, LP!Next, LP!Copy
<1>3. ASSUME NEW o \in Objs, NEW src \in Objs, Assign(o, src) PROVE LP!Next
  BY <1>3 DEF Assign, LP!Next, LP!Assign
<1>4. ASSUME NEW o \in Objs, Destroy(o) PROVE LP!Next
  BY <1>4 DEF Destroy, LP!Next, LP!Destroy
<1>5. ASSUME NEW o \in Objs, get_parameters(o) PROVE LP!Next
  BY <1>5, GetRefines DEF LP!Next
<1>6. ASSUME NEW o \in Objs, NEW x \in Lists, set_parameters(o, x) PROVE LP!Next
  <2>1. x \in LP!Lists
    BY DEF Lists, LP!Lists
  <2> QED
    BY <1>6, <2>1, SetRefines DEF LP!Next
<1>7. CASE UNCHANGED vars
  BY <1>7 DEF vars
<1> QED
  BY <1>1, <1>2, <1>3, <1>4, <1>5, <1>6, <1>7 DEF Next

\* Lookup implements LookupParams: whatever objects are copied, assigned
\* or destroyed, get_parameters and set_parameters of an object read and
\* write its own parameters only.
THEOREM Refinement == Spec => ParametersRefined
<1>1. Spec => []Inv
  BY InitInv, NextInv, PTL DEF Spec
<1>2. Init => LP!Init
  BY DEF Init, LP!Init
<1> QED
  BY <1>1, <1>2, StepRefines, PTL DEF Spec, ParametersRefined, LP!Spec
=============================================================================
