----------------------------- MODULE Resolution -----------------------------
(***************************************************************************)
(* Where the solver looks for what a call returns and what a static field  *)
(* holds: the resolver traits of summary.rs and their implementations in   *)
(* solver/class/summaries.rs, solver/class/batch.rs, solver/class/         *)
(* resolution.rs and solver/fields.rs.                                     *)
(*                                                                         *)
(* A member reference is a record with at least owner, name and            *)
(* descriptor, and is its own key.  Summaries are functions from the keys  *)
(* they hold.  env is what one class analysis passes to analyze_method:    *)
(*   owner, classFinal, finalMethods   the class under analysis            *)
(*   supplied, suppliedFields          the caller's own summaries          *)
(*   batch                             the summaries of the other classes  *)
(*   returns, parameters, fields       the class-local summaries           *)
(* Parameter indices count from 1 here; 0 stands for no parameter.         *)
(***************************************************************************)
EXTENDS Frames

Lookup(summaries, key) == IF key \in DOMAIN summaries THEN summaries[key] ELSE None
LookupIndex(indices, key) == IF key \in DOMAIN indices THEN indices[key] ELSE NoParameter

(* A static or special call runs exactly the method it names; a virtual    *)
(* call does when nothing can override it or the receiver was allocated    *)
(* with exactly the class named; an interface call never does.             *)
Deterministic(kind, exact, classFinal, methodFinal) ==
    \/ kind \in {"static", "special"}
    \/ kind = "virtual" /\ (exact \/ classFinal \/ methodFinal)

LocalCallIsDeterministic(env, key, kind, exact) ==
    /\ key.owner = env.owner
    /\ Deterministic(kind, exact, env.classFinal, key \in env.finalMethods)

(* Mutation: a virtual call of a class of the batch is not asked whether   *)
(* something may override the method.                                      *)
AnyBatchCall(batch, key, kind, exact) == kind # "interface"

BatchCallIsDeterministic(batch, key, kind, exact) ==
    Deterministic(kind, exact, key.owner \in batch.finalClasses, key \in batch.finalMethods)

-----------------------------------------------------------------------------
(* The batch's view of a call: never of the class under analysis itself.   *)
BatchReturn(env, key, kind, exact) ==
    IF key.owner # env.owner /\ BatchCallIsDeterministic(env.batch, key, kind, exact)
    THEN Lookup(env.batch.returns, key)
    ELSE None

(* What the class-level analysis is given as its external resolver.        *)
ExternalReturn(env, key, kind, exact) ==
    IF key \in DOMAIN env.supplied THEN env.supplied[key]
    ELSE BatchReturn(env, key, kind, exact)

ReturnTypeForCall(env, key, kind, exact) ==
    LET external == ExternalReturn(env, key, kind, exact)
    IN  IF external # None THEN external
        ELSE IF LocalCallIsDeterministic(env, key, kind, exact)
             THEN Lookup(env.returns, key)
        ELSE None

(* A summary supplied from outside says nothing of parameters, and hides   *)
(* what the analysis itself knows about them.                              *)
ReturnedParameterForCall(env, key, kind, exact) ==
    IF key \in DOMAIN env.supplied THEN NoParameter
    ELSE IF BatchReturn(env, key, kind, exact) # None
         THEN LookupIndex(env.batch.parameters, key)
    ELSE IF LocalCallIsDeterministic(env, key, kind, exact)
         THEN LookupIndex(env.parameters, key)
    ELSE NoParameter

StaticFieldValue(env, key) ==
    IF key \in DOMAIN env.suppliedFields THEN env.suppliedFields[key]
    ELSE Lookup(env.fields, key)
=============================================================================
