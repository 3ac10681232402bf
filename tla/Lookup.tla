-------------------------------- MODULE Lookup --------------------------------
(***************************************************************************)
(* util::Lookup (src/src/lookup.h) as used by Strategy                     *)
(* (src/src/metacommunity.h:477-576): lookup_table maps each parameter    *)
(* name to the address of a double member, and get_parameters() and       *)
(* set_parameters() go through it.  The table is built lazily: addr       *)
(* remembers which object it was built for, and a use from any other      *)
(* object rebuilds it first.  The implicit copy constructor and copy      *)
(* assignment copy table and addr along with the members, so a copy holds *)
(* pointers into its source until it rebuilds.                            *)
(*                                                                         *)
(* A pointer &obj.k is the address obj of the object: the key is implicit *)
(* in the table entry it is stored under.  lookup.cpp is not among the    *)
(* sources; the bodies follow the contract lookup.h documents.            *)
(***************************************************************************)
CONSTANTS
    Objs,      \* addresses Strategy objects can be constructed at
    Keys,      \* the names do_build_lookup() registers
    Vals,      \* parameter values
    Default,   \* Strategy(): the default parameter values
    Unknown,   \* a name that is not a parameter
    NULL       \* the null pointer

ASSUME LookupAssumption ==
    /\ NULL \notin Objs
    /\ Unknown \notin Keys
    /\ Default \in [Keys -> Vals]

Lists == UNION {[D -> Vals] : D \in SUBSET (Keys \cup {Unknown})}

\* An empty lookup_table: no name maps to an address.
EmptyTable == [k \in Keys |-> NULL]

VARIABLES
    live,      \* the objects that exist
    val,       \* val[o][k]: the double member k of the object at o
    table,     \* table[o][k]: lookup_table[k] of the object at o
    addr,      \* addr of the object at o
    got        \* the list the last get_parameters() returned

vars == <<live, val, table, addr, got>>

-----------------------------------------------------------------------------

\* Lookup(): addr = NULL, so that addr != this forces a build; Strategy()
\* sets the defaults.
Construct(o) ==
    /\ o \notin live
    /\ live' = live \cup {o}
    /\ val' = [val EXCEPT ![o] = Default]
    /\ table' = [table EXCEPT ![o] = EmptyTable]
    /\ addr' = [addr EXCEPT ![o] = NULL]
    /\ UNCHANGED got

\* The implicit copy constructor (Strategy r_copy(), pass by value): every
\* member is copied, lookup_table and addr included.
r_copy(o, src) ==
    /\ o \notin live /\ src \in live
    /\ live' = live \cup {o}
    /\ val' = [val EXCEPT ![o] = val[src]]
    /\ table' = [table EXCEPT ![o] = table[src]]
    /\ addr' = [addr EXCEPT ![o] = addr[src]]
    /\ UNCHANGED got

\* The implicit copy assignment o = src.
Assign(o, src) ==
    /\ o \in live /\ src \in live
    /\ val' = [val EXCEPT ![o] = val[src]]
    /\ table' = [table EXCEPT ![o] = table[src]]
    /\ addr' = [addr EXCEPT ![o] = addr[src]]
    /\ UNCHANGED <<live, got>>

\* The destructor: the memory is released, pointers into it dangle.
Destroy(o) ==
    /\ o \in live
    /\ live' = live \ {o}
    /\ UNCHANGED <<val, table, addr, got>>

\* A bug: the table is built once, and never rebuilt after a copy.
NeedsBuildOnce(o) == addr[o] = NULL

\* The table of o was built for another object (or none) and is rebuilt
\* before use.
NeedsBuild(o) == addr[o] # o

\* A bug: build_lookup only registers the names that are not in the table.
BuiltTableKeepsEntries(o) == [k \in Keys |-> IF table[o][k] = NULL
                                                THEN o ELSE table[o][k]]

\* build_lookup(): do_build_lookup() sets lookup_table[k] = &k for every
\* parameter k of this object, and addr = this.
BuiltTable(o) == [k \in Keys |-> o]

\* The table o uses: its own, or a fresh one if it needs building.
UseTable(o) == IF NeedsBuild(o) THEN BuiltTable(o) ELSE table[o]

\* The table and addr after a use of o.
Build(o) ==
    /\ table' = [table EXCEPT ![o] = UseTable(o)]
    /\ addr' = [addr EXCEPT ![o] = o]

\* get_parameters(): every name with the value its pointer reads.
get_parameters(o) ==
    /\ o \in live
    /\ Build(o)
    /\ got' = [k \in Keys |-> val[UseTable(o)[k]][k]]
    /\ UNCHANGED <<live, val>>

\* check_keys(keys): every name of x is in the table.
check_keys(o, x) == \A k \in DOMAIN x : k \in Keys /\ UseTable(o)[k] # NULL

\* set_parameters(x): check_keys throws before anything is written; then
\* *lookup_table[k] = x[k] for every name of x.
set_parameters(o, x) ==
    /\ o \in live
    /\ Build(o)
    /\ val' = IF check_keys(o, x)
                THEN [q \in Objs |-> [k \in Keys |->
                        IF k \in DOMAIN x /\ UseTable(o)[k] = q
                          THEN x[k] ELSE val[q][k]]]
                ELSE val
    /\ UNCHANGED <<live, got>>

Init ==
    /\ live = {}
    /\ val = [o \in Objs |-> Default]
    /\ table = [o \in Objs |-> EmptyTable]
    /\ addr = [o \in Objs |-> NULL]
    /\ got = Default

Next ==
    \E o \in Objs :
        \/ Construct(o)
        \/ \E src \in Objs : r_copy(o, src) \/ Assign(o, src)
        \/ Destroy(o)
        \/ get_parameters(o)
        \/ \E x \in Lists : set_parameters(o, x)

Spec == Init /\ [][Next]_vars

-----------------------------------------------------------------------------

TypeOK ==
    /\ live \subseteq Objs
    /\ val \in [Objs -> [Keys -> Vals]]
    /\ table \in [Objs -> [Keys -> Objs \cup {NULL}]]
    /\ addr \in [Objs -> Objs \cup {NULL}]
    /\ got \in [Keys -> Vals]

\* A table holds pointers into exactly the object its addr names, or none:
\* a copy's table is stale precisely when its addr says so, which is what
\* the addr != this test of get_parameters and set_parameters relies on.
TableMatchesAddr ==
    \A o \in Objs :
        table[o] = IF addr[o] = NULL THEN EmptyTable ELSE [k \in Keys |-> addr[o]]

\* Lookup implements LookupParams: through copies, assignments and the
\* destruction of sources, get_parameters and set_parameters of an object
\* read and write that object's parameters and no other's.
LP == INSTANCE LookupParams WITH params <- val

ParametersRefined == LP!Spec
=============================================================================
