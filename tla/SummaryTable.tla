---------------------------- MODULE SummaryTable ----------------------------
(***************************************************************************)
(* What MethodSummaries promises its users (the caller who fills it, and   *)
(* the loops over methods and classes that insert and remove what they     *)
(* find): a map from whole member references to types, in which one        *)
(* reference never disturbs another, and which is empty when it says so.   *)
(***************************************************************************)
EXTENDS Integers, FiniteSets

CONSTANTS
    Owners, Names, Descriptors, \* the parts of a member reference
    Types,                      \* the inferred types
    None                        \* no type

VARIABLES
    entries,    \* member reference -> type
    answer      \* what the last operation returned

vars == <<entries, answer>>

References == Owners \X Names \X Descriptors
Entry(reference) ==
    IF reference \in DOMAIN entries THEN entries[reference] ELSE None

NothingAsked == [question |-> "none"]
Answered(question, reply) == [question |-> question, reply |-> reply]

Init == entries = [reference \in {} |-> None] /\ answer = NothingAsked

Insert(reference, type) ==
    /\ entries' = [other \in DOMAIN entries \cup {reference} |->
                      IF other = reference THEN type ELSE entries[other]]
    /\ answer' = Answered("type", Entry(reference))

Remove(reference) ==
    /\ entries' = [other \in DOMAIN entries \ {reference} |-> entries[other]]
    /\ answer' = Answered("type", Entry(reference))

Ask ==
    /\ \/ \E reference \in References : answer' = Answered("type", Entry(reference))
       \/ answer' = Answered("len", Cardinality(DOMAIN entries))
       \/ answer' = Answered("is_empty", entries = [reference \in {} |-> None])
    /\ UNCHANGED entries

Next ==
    \/ \E reference \in References, type \in Types : Insert(reference, type)
    \/ \E reference \in References : Remove(reference)
    \/ Ask

Spec == Init /\ [][Next]_vars
=============================================================================
