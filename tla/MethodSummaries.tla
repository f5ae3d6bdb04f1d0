-------------------------- MODULE MethodSummaries ---------------------------
(***************************************************************************)
(* MethodSummaries of summary.rs: a map of maps of maps, by owner, name    *)
(* and descriptor, whose inner maps are made by the first insertion and    *)
(* dropped with their last entry.  FieldSummaries is the same, without the *)
(* removal.                                                                *)
(***************************************************************************)
EXTENDS Integers, FiniteSets, FiniteSetsExt

CONSTANTS
    Owners, Names, Descriptors, \* the parts of a member reference
    Types,                      \* the inferred types
    None                        \* the empty Option

VARIABLES
    returns,    \* owner -> name -> descriptor -> type
    answer      \* what the last call returned

vars == <<returns, answer>>

EmptyMap == [key \in {} |-> None]
OrDefault(map, key) == IF key \in DOMAIN map THEN map[key] ELSE EmptyMap
With(map, key, value) ==
    [other \in DOMAIN map \cup {key} |-> IF other = key THEN value ELSE map[other]]
Without(map, key) == [other \in DOMAIN map \ {key} |-> map[other]]

TypesOf(owner, name) == OrDefault(OrDefault(returns, owner), name)
ReturnType(owner, name, descriptor) ==
    IF descriptor \in DOMAIN TypesOf(owner, name)
    THEN TypesOf(owner, name)[descriptor] ELSE None

(* A map put back under its key, unless it has become empty.               *)
Pruned(map, key, inner) ==
    IF inner = EmptyMap THEN Without(map, key) ELSE With(map, key, inner)

-----------------------------------------------------------------------------
NothingAsked == [question |-> "none"]
Answered(question, reply) == [question |-> question, reply |-> reply]

Init == returns = EmptyMap /\ answer = NothingAsked

InsertReturnType(owner, name, descriptor, type) ==
    /\ returns' = With(returns, owner,
                       With(OrDefault(returns, owner), name,
                            With(TypesOf(owner, name), descriptor, type)))
    /\ answer' = Answered("type", ReturnType(owner, name, descriptor))

(* Mutation: the inner maps stay when they have lost their last entry.     *)
RemoveEntryOnly(owner, name, descriptor) ==
    With(returns, owner, With(returns[owner], name,
                              Without(returns[owner][name], descriptor)))

Removed(owner, name, descriptor) ==
    Pruned(returns, owner, Pruned(returns[owner], name,
                                  Without(returns[owner][name], descriptor)))

(* A name that has no map ends the call before anything is touched.        *)
RemoveReturnType(owner, name, descriptor) ==
    /\ IF name \in DOMAIN OrDefault(returns, owner)
       THEN returns' = Removed(owner, name, descriptor)
       ELSE UNCHANGED returns
    /\ answer' = Answered("type", ReturnType(owner, name, descriptor))

Length ==
    MapThenSumSet(
        LAMBDA owner : MapThenSumSet(LAMBDA name : Cardinality(DOMAIN returns[owner][name]),
                                     DOMAIN returns[owner]),
        DOMAIN returns)

Query ==
    /\ \/ \E owner \in Owners, name \in Names, descriptor \in Descriptors :
              answer' = Answered("type", ReturnType(owner, name, descriptor))
       \/ answer' = Answered("len", Length)
       \/ answer' = Answered("is_empty", returns = EmptyMap)
    /\ UNCHANGED returns

Next ==
    \/ \E owner \in Owners, name \in Names, descriptor \in Descriptors :
          \/ \E type \in Types : InsertReturnType(owner, name, descriptor, type)
          \/ RemoveReturnType(owner, name, descriptor)
    \/ Query

Spec == Init /\ [][Next]_vars

-----------------------------------------------------------------------------
Flat ==
    [reference \in {r \in Owners \X Names \X Descriptors :
                        r[3] \in DOMAIN TypesOf(r[1], r[2])} |->
        ReturnType(reference[1], reference[2], reference[3])]

Table == INSTANCE SummaryTable WITH entries <- Flat

(* After any sequence of insertions and removals the nested maps answer    *)
(* every query as one map over whole references would: an entry goes alone *)
(* and len and is_empty never see a map that has become empty (the latter  *)
(* looks at the outermost map only).                                       *)
ActsAsOneTable == Table!Spec
=============================================================================
