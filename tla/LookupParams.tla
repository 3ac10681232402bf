---------------------------- MODULE LookupParams ----------------------------
(***************************************************************************)
(* What util::Lookup promises its derived classes (src/src/lookup.h:9-51): *)
(* every object has its own parameter values; get_parameters() reports    *)
(* them, set_parameters(x) replaces the ones x names, or none at all when *)
(* x names a key that is not a parameter; copies and assignments copy the *)
(* values.  No pointer, no table: this is the abstract specification the  *)
(* lookup table is shown to implement (module Lookup).                    *)
(***************************************************************************)
CONSTANTS
    Objs,      \* addresses objects can be constructed at
    Keys,      \* the names do_build_lookup() registers
    Vals,      \* parameter values
    Default,   \* the values a constructed object starts with
    Unknown    \* a name that is not a parameter

\* An R list handed to set_parameters: values for some names.
Lists == UNION {[D -> Vals] : D \in SUBSET (Keys \cup {Unknown})}

VARIABLES
    live,      \* the objects that exist
    params,    \* params[o][k]: parameter k of the object at o
    got        \* the list the last get_parameters() returned

Init ==
    /\ live = {}
    /\ params = [o \in Objs |-> Default]
    /\ got = Default

Construct(o) ==
    /\ o \notin live
    /\ live' = live \cup {o}
    /\ params' = [params EXCEPT ![o] = Default]
    /\ UNCHANGED got

Copy(o, src) ==
    /\ o \notin live /\ src \in live
    /\ live' = live \cup {o}
    /\ params' = [params EXCEPT ![o] = params[src]]
    /\ UNCHANGED got

Assign(o, src) ==
    /\ o \in live /\ src \in live
    /\ params' = [params EXCEPT ![o] = params[src]]
    /\ UNCHANGED <<live, got>>

Destroy(o) ==
    /\ o \in live
    /\ live' = live \ {o}
    /\ UNCHANGED <<params, got>>

Get(o) ==
    /\ o \in live
    /\ got' = params[o]
    /\ UNCHANGED <<live, params>>

Set(o, x) ==
    /\ o \in live
    /\ params' = IF DOMAIN x \subseteq Keys
                   THEN [params EXCEPT ![o] =
                            [k \in Keys |-> IF k \in DOMAIN x THEN x[k]
                                                               ELSE @[k]]]
                   ELSE params
    /\ UNCHANGED <<live, got>>

Next ==
    \E o \in Objs :
        \/ Construct(o)
        \/ \E src \in Objs : Copy(o, src) \/ Assign(o, src)
        \/ Destroy(o)
        \/ Get(o)
        \/ \E x \in Lists : Set(o, x)

Spec == Init /\ [][Next]_<<live, params, got>>
=============================================================================
