----------------------- MODULE ClassSummaries_proofs -----------------------
(***************************************************************************)
(* What the loop over the methods of a class guarantees for every class    *)
(* and every analysis of a method that uses only what it is requeued for.  *)
(***************************************************************************)
EXTENDS ClassSummaries, WorklistLemmas

Distinct(q) == \A i, j \in DOMAIN q : q[i] = q[j] => i = j

(* Methods never analyzed come before those that wait again.               *)
FirstTimeFirst(q, done) == \A i, j \in DOMAIN q : q[i] \in done /\ q[j] \notin done => j < i

LEMMA WorklistParts ==
    WorklistConsistent <=> /\ Distinct(worklist)
                           /\ scheduled = Members(worklist)
                           /\ MethodsOf(class) \ analyzed \subseteq scheduled
                           /\ FirstTimeFirst(worklist, analyzed)
  BY DEF WorklistConsistent, Distinct, Members, FirstTimeFirst

LEMMA WorklistPartsAfter ==
    WorklistConsistent' <=> /\ Distinct(worklist')
                            /\ scheduled' = Members(worklist')
                            /\ MethodsOf(class') \ analyzed' \subseteq scheduled'
                            /\ FirstTimeFirst(worklist', analyzed')
  BY DEF WorklistConsistent, Distinct, Members, FirstTimeFirst

-----------------------------------------------------------------------------
(* The state of the loop is well typed and its worklist consistent.        *)
TypeInv == TypeOK /\ WorklistConsistent

LEMMA ClassTyped ==
    ASSUME TypeInv
    PROVE  /\ class \in Classes
           /\ \A m \in MethodsOf(class) : Callers(class, m) \in Seq(MethodsOf(class))
           /\ \A f \in Fields(class) : Readers(class, f) \in Seq(MethodsOf(class))
  BY ClassAssumption DEF TypeInv, TypeOK

(* Popping: the head leaves the queue and its flag is taken back.          *)
LEMMA PopTyped ==
    ASSUME TypeInv, Pop
    PROVE  /\ Head(worklist) \in MethodsOf(class)
           /\ worklist' \in Seq(MethodsOf(class))
           /\ Distinct(worklist')
           /\ scheduled' = Members(worklist')
           /\ scheduled = scheduled' \cup {Head(worklist)}
           /\ Head(worklist) \notin scheduled'
           /\ FirstTimeFirst(worklist', analyzed \cup {Head(worklist)})
  <1> DEFINE m == Head(worklist)
  <1>1. /\ worklist \in Seq(MethodsOf(class)) /\ worklist # <<>>
        /\ worklist' = Tail(worklist)
        /\ scheduled' = scheduled \ {m}
    BY DEF TypeInv, TypeOK, Pop
  <1>2. /\ Distinct(worklist)
        /\ scheduled = Members(worklist)
        /\ FirstTimeFirst(worklist, analyzed)
    BY WorklistParts DEF TypeInv
  <1>3. /\ Tail(worklist) \in Seq(MethodsOf(class))
        /\ m \in MethodsOf(class)
        /\ Distinct(Tail(worklist))
        /\ Members(Tail(worklist)) = Members(worklist) \ {m}
    BY <1>1, <1>2, TailOfDistinct DEF Distinct, Members
  <1>4. m \in Members(worklist)
    BY <1>1, MembersOfTail DEF Members
  <1>5. FirstTimeFirst(Tail(worklist), analyzed \cup {m})
    <2> SUFFICES ASSUME NEW i \in DOMAIN Tail(worklist), NEW j \in DOMAIN Tail(worklist),
                        Tail(worklist)[i] \in analyzed \cup {m},
                        Tail(worklist)[j] \notin analyzed \cup {m}
                 PROVE  j < i
      BY DEF FirstTimeFirst
    <2>1. Tail(worklist)[i] \in Members(Tail(worklist))
      BY DEF Members
    <2>2. Tail(worklist)[i] \in analyzed
      BY <1>3, <2>1
    <2>3. /\ i + 1 \in DOMAIN worklist /\ Tail(worklist)[i] = worklist[i + 1]
          /\ j + 1 \in DOMAIN worklist /\ Tail(worklist)[j] = worklist[j + 1]
      BY <1>1, PlaceInTail
    <2>4. j + 1 < i + 1
      BY <1>2, <2>2, <2>3 DEF FirstTimeFirst
    <2>5. i \in Int /\ j \in Int
      BY <1>3
    <2> QED BY <2>4, <2>5
  <1> QED BY <1>1, <1>2, <1>3, <1>4, <1>5

(* A caller put at the end of the queue has been analyzed before: those    *)
(* that have not are waiting already.                                      *)
LEMMA ScheduleTyped ==
    ASSUME TypeInv, NEW m \in MethodsOf(class), Schedule(m)
    PROVE  /\ worklist' \in Seq(MethodsOf(class))
           /\ scheduled' = scheduled \cup {m}
           /\ Distinct(worklist')
           /\ scheduled' = Members(worklist')
           /\ FirstTimeFirst(worklist', analyzed)
  <1>1. /\ worklist \in Seq(MethodsOf(class))
        /\ scheduled' = scheduled \cup {m}
        /\ Distinct(worklist)
        /\ scheduled = Members(worklist)
        /\ FirstTimeFirst(worklist, analyzed)
        /\ MethodsOf(class) \ analyzed \subseteq scheduled
    BY WorklistParts DEF TypeInv, TypeOK, Schedule
  <1>2. CASE m \in scheduled
    BY <1>1, <1>2 DEF Schedule
  <1>3. CASE m \notin scheduled
    <2>1. worklist' = Append(worklist, m)
      BY <1>3 DEF Schedule
    <2>2. /\ Append(worklist, m) \in Seq(MethodsOf(class))
          /\ Distinct(Append(worklist, m))
          /\ Members(Append(worklist, m)) = Members(worklist) \cup {m}
      BY <1>1, <1>3, AppendToDistinct DEF Distinct, Members
    <2>3. FirstTimeFirst(Append(worklist, m), analyzed)
      <3> SUFFICES ASSUME NEW i \in DOMAIN Append(worklist, m),
                          NEW j \in DOMAIN Append(worklist, m),
                          Append(worklist, m)[i] \in analyzed,
                          Append(worklist, m)[j] \notin analyzed
                   PROVE  j < i
        BY DEF FirstTimeFirst
      <3>1. m \in analyzed
        BY <1>1, <1>3
      <3>2. j \in DOMAIN worklist /\ Append(worklist, m)[j] = worklist[j] /\ j <= Len(worklist)
        BY <1>1, <3>1, PlaceInAppend
      <3>3. CASE i \in DOMAIN worklist /\ Append(worklist, m)[i] = worklist[i]
        BY <1>1, <3>2, <3>3 DEF FirstTimeFirst
      <3>4. CASE i = Len(worklist) + 1
        BY <1>1, <3>2, <3>4
      <3> QED BY <1>1, <3>3, <3>4, PlaceInAppend
    <2> QED BY <1>1, <2>1, <2>2, <2>3
  <1> QED BY <1>2, <1>3

LEMMA AnalysisTyped ==
    ASSUME TypeInv, NEW m \in MethodsOf(class)
    PROVE  Analysis(class, m, Environment) \in Analyses(class)
  BY AnalysisAssumption DEF TypeInv, TypeOK

LEMMA TypeInvInit == Init => TypeInv
  <1> SUFFICES ASSUME Init PROVE TypeInv
    OBVIOUS
  <1>1. class \in Classes /\ MethodCount(class) \in Nat
    BY ClassAssumption DEF Init
  <1>2. worklist = [n \in 1..MethodCount(class) |-> n]
    BY DEF Init, MethodsOf
  <1>3. /\ worklist \in Seq(MethodsOf(class))
        /\ DOMAIN worklist = MethodsOf(class)
        /\ \A n \in DOMAIN worklist : worklist[n] = n
    BY <1>1, <1>2 DEF MethodsOf
  <1>4. Members(worklist) = MethodsOf(class)
    BY <1>3 DEF Members
  <1>5. WorklistConsistent
    <2>1. Distinct(worklist)
      BY <1>3 DEF Distinct
    <2>2. FirstTimeFirst(worklist, analyzed)
      BY DEF Init, FirstTimeFirst
    <2> QED BY <1>4, <2>1, <2>2, WorklistParts DEF Init
  <1>6. Environment \in Environments(class)
    BY DEF Init, Environment, Environments
  <1>7. pending \in Seq(MethodsOf(class))
    BY DEF Init
  <1>8. analyses \in [analyzed -> Analyses(class)]
    BY DEF Init
  <1> QED BY <1>3, <1>5, <1>6, <1>7, <1>8 DEF Init, TypeInv, TypeOK

(* What one analysis teaches is well typed.                                *)
LEMMA LearnTyped ==
    ASSUME TypeInv, NEW m \in MethodsOf(class), class' = class,
           NEW result \in Analyses(class), Learn(m, result)
    PROVE  /\ analyzed' \subseteq MethodsOf(class)
           /\ analyses' \in [analyzed' -> Analyses(class)]
           /\ Environment' \in Environments(class)
           /\ pending' \in Seq(MethodsOf(class))
           /\ changedFields' \subseteq Fields(class)
  <1>1. /\ analyzed \subseteq MethodsOf(class)
        /\ analyses \in [analyzed -> Analyses(class)]
        /\ returns \in [MethodsOf(class) -> Values \cup {NoValue}]
        /\ parameters \in [MethodsOf(class) -> Indices \cup {NoIndex}]
        /\ fields \in [Fields(class) -> Values \cup {NoValue}]
    BY DEF TypeInv, TypeOK, Environment, Environments
  <1>2. /\ result.ret \in Values \cup {NoValue}
        /\ result.param \in Indices \cup {NoIndex}
        /\ result.puts \in [Fields(class) -> Values \cup {NoValue}]
    BY DEF Analyses
  <1>3. /\ returns' \in [MethodsOf(class) -> Values \cup {NoValue}]
        /\ parameters' \in [MethodsOf(class) -> Indices \cup {NoIndex}]
    BY <1>1, <1>2 DEF Learn
  <1>4. fields' \in [Fields(class) -> Values \cup {NoValue}]
    BY <1>1, <1>2 DEF Learn, UpdatedFields
  <1>5. Environment' \in Environments(class)
    BY <1>3, <1>4 DEF Environment, Environments
  <1>6. analyses' \in [analyzed' -> Analyses(class)]
    <2>1. \A k \in analyzed : analyses[k] \in Analyses(class)
      BY <1>1
    <2> QED BY <2>1 DEF Learn
  <1>7. pending' \in Seq(MethodsOf(class))
    <2>1. Callers(class, m) \in Seq(MethodsOf(class)) /\ <<>> \in Seq(MethodsOf(class))
      BY ClassTyped
    <2>2. CASE SummaryChanged(m, result)
      BY <2>1, <2>2 DEF Learn
    <2>3. CASE ~SummaryChanged(m, result)
      BY <2>1, <2>3 DEF Learn
    <2> QED BY <2>2, <2>3
  <1>8. analyzed' \subseteq MethodsOf(class) /\ changedFields' \subseteq Fields(class)
    BY <1>1 DEF Learn
  <1> QED BY <1>5, <1>6, <1>7, <1>8

LEMMA AnalyzeTyped ==
    ASSUME TypeInv, AnalyzeMethod
    PROVE  TypeInv'
  <1> DEFINE m == Head(worklist)
             result == Analysis(class, m, Environment)
  <1>1. /\ Pop /\ Learn(m, result)
        /\ CountReanalysis
        /\ UNCHANGED <<class, config, complete, outcome>>
    BY DEF AnalyzeMethod
  <1>2. /\ m \in MethodsOf(class)
        /\ worklist' \in Seq(MethodsOf(class))
        /\ Distinct(worklist')
        /\ scheduled' = Members(worklist')
        /\ scheduled = scheduled' \cup {m}
        /\ FirstTimeFirst(worklist', analyzed \cup {m})
    BY <1>1, PopTyped
  <1>3. analyzed' = analyzed \cup {m}
    BY <1>1 DEF Learn
  <1>4. MethodsOf(class) \ analyzed' \subseteq scheduled'
    BY <1>2, <1>3, WorklistParts DEF TypeInv
  <1>5. WorklistConsistent'
    BY <1>1, <1>2, <1>3, <1>4, WorklistPartsAfter
  <1>6. /\ analyzed' \subseteq MethodsOf(class)
        /\ analyses' \in [analyzed' -> Analyses(class)]
        /\ Environment' \in Environments(class)
        /\ pending' \in Seq(MethodsOf(class))
        /\ changedFields' \subseteq Fields(class)
    <2>1. result \in Analyses(class)
      BY <1>2, AnalysisTyped
    <2>2. class' = class
      BY <1>1
    <2> QED BY <1>1, <1>2, <2>1, <2>2, LearnTyped
  <1>7. reanalysisItems' \in Nat
    BY <1>1 DEF CountReanalysis, TypeInv, TypeOK
  <1>8. scheduled' \subseteq MethodsOf(class)
    BY <1>2 DEF TypeInv, TypeOK
  <1>9. TypeOK'
    <2>1. /\ class' = class /\ config' = config
          /\ complete' = complete /\ outcome' = outcome
      BY <1>1
    <2>2. /\ class \in Classes /\ config \in Configs /\ complete \in BOOLEAN
          /\ outcome \in {"running", "collecting", "ok", "strictError"}
      BY DEF TypeInv, TypeOK
    <2> QED BY <1>2, <1>6, <1>7, <1>8, <2>1, <2>2 DEF TypeOK
  <1> QED BY <1>5, <1>9 DEF TypeInv

LEMMA TypeInvStep == TypeInv /\ [Next]_vars => TypeInv'
  <1> SUFFICES ASSUME TypeInv, [Next]_vars PROVE TypeInv'
    OBVIOUS
  <1>1. CASE StopAtBudget
    <2>1. /\ Pop
          /\ reanalysisItems' \in Nat
          /\ UNCHANGED <<class, config, analyzed, analyses, returns, parameters, fields,
                         pending, changedFields>>
          /\ complete' = FALSE /\ outcome' = "collecting"
          /\ Head(worklist) \in analyzed
      BY <1>1 DEF StopAtBudget, CountReanalysis, BudgetExceeded, TypeInv, TypeOK
    <2>2. /\ worklist' \in Seq(MethodsOf(class))
          /\ Distinct(worklist')
          /\ scheduled' = Members(worklist')
          /\ scheduled = scheduled' \cup {Head(worklist)}
          /\ FirstTimeFirst(worklist', analyzed \cup {Head(worklist)})
      BY <2>1, PopTyped
    <2>3. analyzed \cup {Head(worklist)} = analyzed
      BY <2>1
    <2>4. FirstTimeFirst(worklist', analyzed')
      BY <2>1, <2>2, <2>3
    <2>5. MethodsOf(class) \ analyzed \subseteq scheduled'
      BY <2>1, <2>2, WorklistParts DEF TypeInv
    <2>6. WorklistConsistent'
      BY <2>1, <2>2, <2>4, <2>5, WorklistPartsAfter
    <2>7. Environment' = Environment
      BY <2>1 DEF Environment
    <2>8. TypeOK'
      BY <2>1, <2>2, <2>7 DEF TypeInv, TypeOK
    <2> QED BY <2>6, <2>8 DEF TypeInv
  <1>2. CASE AnalyzeMethod
    BY <1>2, AnalyzeTyped
  <1>3. CASE Requeue
    <2>1. /\ Head(pending) \in MethodsOf(class)
          /\ pending' \in Seq(MethodsOf(class))
          /\ Schedule(Head(pending))
          /\ UNCHANGED <<class, config, analyzed, analyses, returns, parameters, fields,
                         reanalysisItems, changedFields, complete, outcome>>
      <3>1. pending \in Seq(MethodsOf(class)) /\ pending # <<>> /\ pending' = Tail(pending)
        BY <1>3 DEF Requeue, TypeInv, TypeOK
      <3>2. Head(pending) \in MethodsOf(class) /\ Tail(pending) \in Seq(MethodsOf(class))
        BY <3>1
      <3> QED BY <1>3, <3>1, <3>2 DEF Requeue
    <2>2. /\ worklist' \in Seq(MethodsOf(class))
          /\ scheduled' = scheduled \cup {Head(pending)}
          /\ Distinct(worklist')
          /\ scheduled' = Members(worklist')
          /\ FirstTimeFirst(worklist', analyzed)
      BY <2>1, ScheduleTyped
    <2>3. FirstTimeFirst(worklist', analyzed')
      BY <2>1, <2>2
    <2>4. WorklistConsistent'
      BY <2>1, <2>2, <2>3, WorklistParts, WorklistPartsAfter DEF TypeInv
    <2>5. Environment' = Environment
      BY <2>1 DEF Environment
    <2>6. TypeOK'
      BY <2>1, <2>2, <2>5 DEF TypeInv, TypeOK
    <2> QED BY <2>4, <2>6 DEF TypeInv
  <1>4. CASE NextField
    <2>1. /\ UNCHANGED <<class, config, worklist, scheduled, analyzed, analyses, returns,
                         parameters, fields, reanalysisItems, complete, outcome>>
          /\ changedFields' \subseteq Fields(class)
          /\ pending' \in Seq(MethodsOf(class))
      <3>1. PICK f \in changedFields : /\ pending' = Readers(class, f)
                                       /\ changedFields' = changedFields \ {f}
        BY <1>4 DEF NextField
      <3>2. f \in Fields(class)
        BY <3>1 DEF TypeInv, TypeOK
      <3> QED BY <1>4, <3>1, <3>2, ClassTyped DEF NextField, TypeInv, TypeOK
    <2>2. Environment' = Environment
      BY <2>1 DEF Environment
    <2> QED BY <2>1, <2>2 DEF TypeInv, TypeOK, WorklistConsistent
  <1>5. CASE Converge
    <2>1. Environment' = Environment
      BY <1>5 DEF Converge, Environment
    <2> QED BY <1>5, <2>1 DEF Converge, TypeInv, TypeOK, WorklistConsistent
  <1>6. CASE Collect
    <2>1. Environment' = Environment
      BY <1>6 DEF Collect, Environment
    <2>2. outcome' \in {"ok", "strictError"}
      BY <1>6 DEF Collect
    <2> QED BY <1>6, <2>1, <2>2 DEF Collect, TypeInv, TypeOK, WorklistConsistent
  <1>7. CASE UNCHANGED vars
    <2>1. Environment' = Environment
      BY <1>7 DEF vars, Environment
    <2> QED BY <1>7, <2>1 DEF vars, TypeInv, TypeOK, WorklistConsistent
  <1> QED BY <1>1, <1>2, <1>3, <1>4, <1>5, <1>6, <1>7 DEF Next

(* Type correctness of the loop over the methods of a class.               *)
THEOREM TypeCorrect == Spec => []TypeOK
  <1>1. TypeInv => TypeOK
    BY DEF TypeInv
  <1> QED BY <1>1, TypeInvInit, TypeInvStep, PTL DEF Spec

(* No method waits twice, and those never analyzed wait before the others. *)
THEOREM WorklistAlwaysConsistent == Spec => []WorklistConsistent
  <1>1. TypeInv => WorklistConsistent
    BY DEF TypeInv
  <1> QED BY <1>1, TypeInvInit, TypeInvStep, PTL DEF Spec

-----------------------------------------------------------------------------
(* Once the loop has ended, nobody has still to be told of anything, every *)
(* method has an analysis, and a complete loop has an empty worklist.      *)
Ended == outcome # "running" => /\ pending = <<>> /\ changedFields = {}
                                /\ complete => worklist = <<>>
EndInv == TypeInv /\ EveryMethodAnalyzed /\ Ended

(* A method analyzed before is only popped when none is left that was not. *)
LEMMA HeadAnalyzed ==
    ASSUME TypeInv, worklist # <<>>, Head(worklist) \in analyzed
    PROVE  analyzed = MethodsOf(class)
  <1>1. /\ worklist \in Seq(MethodsOf(class))
        /\ scheduled = Members(worklist)
        /\ MethodsOf(class) \ analyzed \subseteq scheduled
        /\ FirstTimeFirst(worklist, analyzed)
        /\ analyzed \subseteq MethodsOf(class)
    BY WorklistParts DEF TypeInv, TypeOK
  <1>2. /\ DOMAIN worklist = 1..Len(worklist) /\ Len(worklist) \in Nat \ {0}
        /\ worklist[1] = Head(worklist)
    BY <1>1
  <1>3. ASSUME NEW j \in DOMAIN worklist, worklist[j] \notin analyzed
        PROVE  FALSE
    <2>1. 1 \in DOMAIN worklist /\ worklist[1] \in analyzed
      BY <1>2
    <2>2. j < 1
      BY <1>1, <1>3, <2>1 DEF FirstTimeFirst
    <2> QED BY <1>2, <2>2
  <1>4. scheduled \subseteq analyzed
    BY <1>1, <1>3 DEF Members
  <1> QED BY <1>1, <1>4

LEMMA EndInvInit == Init => EndInv
  BY TypeInvInit DEF Init, EndInv, EveryMethodAnalyzed, Ended

LEMMA EndInvStep == EndInv /\ [Next]_vars => EndInv'
  <1> SUFFICES ASSUME EndInv, [Next]_vars PROVE EveryMethodAnalyzed' /\ Ended'
    BY TypeInvStep DEF EndInv
  <1> USE DEF EndInv, EveryMethodAnalyzed, Ended
  <1>1. CASE StopAtBudget
    <2>1. analyzed = MethodsOf(class)
      BY <1>1, HeadAnalyzed DEF StopAtBudget, Pop, BudgetExceeded
    <2>2. MethodsOf(class)' = MethodsOf(class) /\ analyzed' = analyzed
      BY <1>1 DEF StopAtBudget, MethodsOf
    <2> QED BY <1>1, <2>1, <2>2 DEF StopAtBudget, Pop, Idle
  <1>2. CASE AnalyzeMethod
    BY <1>2 DEF AnalyzeMethod, Pop, Idle
  <1>3. CASE Requeue
    BY <1>3 DEF Requeue, MethodsOf
  <1>4. CASE NextField
    BY <1>4 DEF NextField, MethodsOf
  <1>5. CASE Converge
    <2>1. worklist = <<>> /\ Members(worklist) = {}
      BY <1>5 DEF Converge, Members
    <2>2. analyzed = MethodsOf(class)
      BY <2>1, WorklistParts DEF TypeInv, TypeOK
    <2>3. MethodsOf(class)' = MethodsOf(class)
      BY <1>5 DEF Converge, MethodsOf
    <2> QED BY <1>5, <2>1, <2>2, <2>3 DEF Converge, Idle
  <1>6. CASE Collect
    BY <1>6 DEF Collect, MethodsOf
  <1>7. CASE UNCHANGED vars
    BY <1>7 DEF vars, MethodsOf
  <1> QED BY <1>1, <1>2, <1>3, <1>4, <1>5, <1>6, <1>7 DEF Next

(* Whatever the budget, the loop ends with an analysis of every method: it *)
(* gives up only at a second one, and every first one comes before.        *)
THEOREM EveryMethodAlwaysAnalyzed == Spec => []EveryMethodAnalyzed
  <1>1. EndInv => EveryMethodAnalyzed
    BY DEF EndInv
  <1> QED BY <1>1, EndInvInit, EndInvStep, PTL DEF Spec

-----------------------------------------------------------------------------
(* No change of what is known passes its users by.                         *)
StaleInv == TypeInv /\ NoStaleAnalysis

(* Whom a step does not leave waiting uses nothing that the step changed.  *)
LEMMA UnchangedForOthers ==
    ASSUME TypeInv, AnalyzeMethod, NEW k \in MethodsOf(class), ~WaitsFor(k)'
    PROVE  Analysis(class, k, Environment') = Analysis(class, k, Environment)
  <1> DEFINE m == Head(worklist)
             result == Analysis(class, m, Environment)
  <1>1. /\ Learn(m, result) /\ class' = class
        /\ class \in Classes
        /\ Environment \in Environments(class)
    BY DEF AnalyzeMethod, TypeInv, TypeOK
  <1>2. Environment' \in Environments(class)
    BY AnalyzeTyped, <1>1 DEF TypeInv, TypeOK
  <1>3. /\ returns \in [MethodsOf(class) -> Values \cup {NoValue}]
        /\ parameters \in [MethodsOf(class) -> Indices \cup {NoIndex}]
        /\ fields \in [Fields(class) -> Values \cup {NoValue}]
    BY <1>1 DEF Environment, Environments
  <1>4. ASSUME NEW j \in MethodsOf(class), k \in Members(Callers(class, j))
        PROVE  returns'[j] = returns[j] /\ parameters'[j] = parameters[j]
    <2>1. CASE j # m
      BY <1>1, <1>3, <2>1 DEF Learn
    <2>2. CASE j = m
      <3>1. ~SummaryChanged(m, result)
        <4>1. SummaryChanged(m, result) => k \in Members(pending')
          BY <1>1, <1>4, <2>2 DEF Learn
        <4>2. k \notin Members(pending')
          BY DEF WaitsFor, Members
        <4> QED BY <4>1, <4>2
      <3>2. result.ret = returns[m] /\ result.param = parameters[m]
        BY <3>1 DEF SummaryChanged
      <3> QED BY <1>1, <1>3, <2>2, <3>2 DEF Learn
    <2> QED BY <2>1, <2>2
  <1>5. ASSUME NEW f \in Fields(class), k \in Members(Readers(class, f))
        PROVE  fields'[f] = fields[f]
    <2>1. f \notin changedFields'
      BY <1>1, <1>5 DEF WaitsFor, Members
    <2>2. fields' = UpdatedFields(result)
      BY <1>1 DEF Learn
    <2>3. UpdatedFields(result)[f] = fields[f]
      BY <1>1, <2>1 DEF Learn
    <2> QED BY <2>2, <2>3
  <1>6. Used(class, k, Environment') = Used(class, k, Environment)
    <2>1. /\ Environment.returns = returns /\ Environment'.returns = returns'
          /\ Environment.parameters = parameters /\ Environment'.parameters = parameters'
          /\ Environment.fields = fields /\ Environment'.fields = fields'
      BY DEF Environment
    <2> QED BY <1>4, <1>5, <2>1 DEF Used
  <1>7. /\ Analysis(class, k, Environment) = Analysis(class, k, Used(class, k, Environment))
        /\ Analysis(class, k, Environment') = Analysis(class, k, Used(class, k, Environment'))
    BY <1>1, <1>2, UsesAssumption
  <1> QED BY <1>6, <1>7

LEMMA StaleInvInit == Init => StaleInv
  BY TypeInvInit DEF Init, StaleInv, NoStaleAnalysis

LEMMA NotStaleAfterAnalyze ==
    ASSUME StaleInv, AnalyzeMethod
    PROVE  NoStaleAnalysis'
  <1> DEFINE m == Head(worklist)
             result == Analysis(class, m, Environment)
  <1> SUFFICES ASSUME complete, NEW k \in analyzed', ~WaitsFor(k)'
               PROVE  analyses'[k] = Analysis(class, k, Environment')
    <2>1. complete' = complete /\ class' = class
      BY DEF AnalyzeMethod
    <2> QED BY <2>1 DEF NoStaleAnalysis
  <1>1. /\ Learn(m, result) /\ Pop
        /\ pending = <<>> /\ changedFields = {}
        /\ scheduled' = scheduled \ {m}
    BY DEF AnalyzeMethod, Pop, Idle
  <1>2. /\ m \in MethodsOf(class)
        /\ analyzed' = analyzed \cup {m}
        /\ analyzed \subseteq MethodsOf(class)
    BY <1>1, PopTyped DEF Learn, StaleInv, TypeInv, TypeOK
  <1>3. k \in MethodsOf(class)
    BY <1>2
  <1>4. Analysis(class, k, Environment') = Analysis(class, k, Environment)
    BY <1>3, UnchangedForOthers DEF StaleInv
  <1>5. CASE k = m
    <2>1. analyses'[k] = result
      BY <1>1, <1>2, <1>5 DEF Learn
    <2> QED BY <1>4, <1>5, <2>1
  <1>6. CASE k # m
    <2>1. k \in analyzed /\ analyses'[k] = analyses[k]
      BY <1>1, <1>2, <1>6 DEF Learn
    <2>2. ~WaitsFor(k)
      <3>1. k \notin scheduled
        BY <1>1, <1>6 DEF WaitsFor
      <3> QED BY <1>1, <3>1 DEF WaitsFor, Members
    <2>3. analyses[k] = Analysis(class, k, Environment)
      BY <2>1, <2>2 DEF StaleInv, NoStaleAnalysis
    <2> QED BY <1>4, <2>1, <2>3
  <1> QED BY <1>5, <1>6

(* Other steps only pass on the duty to tell someone.                      *)
LEMMA StillWaits ==
    ASSUME StaleInv, Requeue \/ NextField, NEW k, WaitsFor(k)
    PROVE  WaitsFor(k)'
  <1>1. CASE Requeue
    <2>1. /\ pending \in Seq(MethodsOf(class)) /\ pending # <<>>
          /\ pending' = Tail(pending)
          /\ scheduled' = scheduled \cup {Head(pending)}
          /\ changedFields' = changedFields /\ class' = class
      BY <1>1 DEF Requeue, Schedule, StaleInv, TypeInv, TypeOK
    <2>2. Members(pending) = {Head(pending)} \cup Members(Tail(pending))
      BY <2>1, MembersOfTail DEF Members
    <2> QED BY <2>1, <2>2 DEF WaitsFor, Members
  <1>2. CASE NextField
    <2>1. PICK f \in changedFields : /\ pending' = Readers(class, f)
                                     /\ changedFields' = changedFields \ {f}
      BY <1>2 DEF NextField
    <2>2. /\ pending = <<>> /\ Members(pending) = {}
          /\ scheduled' = scheduled /\ class' = class
      BY <1>2 DEF NextField, Members
    <2> QED BY <2>1, <2>2 DEF WaitsFor, Members
  <1> QED BY <1>1, <1>2

LEMMA StaleInvStep == StaleInv /\ [Next]_vars => StaleInv'
  <1> SUFFICES ASSUME StaleInv, [Next]_vars PROVE NoStaleAnalysis'
    BY TypeInvStep DEF StaleInv
  <1>1. CASE StopAtBudget
    BY <1>1 DEF StopAtBudget, NoStaleAnalysis
  <1>2. CASE AnalyzeMethod
    BY <1>2, NotStaleAfterAnalyze
  <1>3. CASE Requeue \/ NextField
    <2>1. /\ complete' = complete /\ class' = class
          /\ analyzed' = analyzed /\ analyses' = analyses
          /\ Environment' = Environment
      BY <1>3 DEF Requeue, NextField, Environment
    <2>2. \A k : WaitsFor(k) => WaitsFor(k)'
      BY <1>3, StillWaits
    <2> QED BY <2>1, <2>2 DEF StaleInv, NoStaleAnalysis
  <1>4. CASE Converge \/ Collect \/ UNCHANGED vars
    BY <1>4 DEF Converge, Collect, vars, StaleInv, NoStaleAnalysis, WaitsFor, Members, Environment
  <1> QED BY <1>1, <1>2, <1>3, <1>4 DEF Next

(* At every moment, an analysis that newer summaries would change is going *)
(* to be repeated: callers and readers are told of every change.           *)
THEOREM NeverStale == Spec => []NoStaleAnalysis
  <1>1. StaleInv => NoStaleAnalysis
    BY DEF StaleInv
  <1> QED BY <1>1, StaleInvInit, StaleInvStep, PTL DEF Spec

-----------------------------------------------------------------------------
(* What is known of a method analyzed is what its last analysis found.     *)
Recorded == \A m \in analyzed : returns[m] = analyses[m].ret /\ parameters[m] = analyses[m].param

LEMMA RecordedInit == Init => Recorded
  BY DEF Init, Recorded

LEMMA RecordedStep == TypeInv /\ Recorded /\ [Next]_vars => Recorded'
  <1> SUFFICES ASSUME TypeInv, Recorded, [Next]_vars PROVE Recorded'
    OBVIOUS
  <1>1. CASE AnalyzeMethod
    <2> DEFINE m == Head(worklist)
               result == Analysis(class, m, Environment)
    <2>1. /\ Learn(m, result)
          /\ m \in MethodsOf(class)
          /\ analyzed \subseteq MethodsOf(class)
          /\ returns \in [MethodsOf(class) -> Values \cup {NoValue}]
          /\ parameters \in [MethodsOf(class) -> Indices \cup {NoIndex}]
      BY <1>1, PopTyped DEF AnalyzeMethod, TypeInv, TypeOK, Environment, Environments
    <2>2. ASSUME NEW k \in analyzed'
          PROVE  returns'[k] = analyses'[k].ret /\ parameters'[k] = analyses'[k].param
      <3>1. CASE k = m
        BY <2>1, <3>1 DEF Learn
      <3>2. CASE k # m
        BY <2>1, <2>2, <3>2 DEF Learn, Recorded
      <3> QED BY <3>1, <3>2
    <2> QED BY <2>2 DEF Recorded
  <1>2. CASE UNCHANGED <<analyzed, analyses, returns, parameters>>
    BY <1>2 DEF Recorded
  <1> QED BY <1>1, <1>2 DEF Next, StopAtBudget, Requeue, NextField, Converge, Collect, vars

(* A complete loop that has ended leaves every analysis up to date.        *)
LEMMA JustifiedAtTheEnd ==
    ASSUME EndInv, NoStaleAnalysis, Recorded
    PROVE  PublishedAreJustified
  <1> DEFINE told == [returns |-> [k \in MethodsOf(class) |-> PublishedReturn(k)],
                      parameters |-> [k \in MethodsOf(class) |-> PublishedParameter(k)],
                      fields |-> fields]
  <1> SUFFICES ASSUME outcome = "ok", NEW m \in MethodsOf(class),
                      PublishedReturn(m) # NoValue \/ PublishedParameter(m) # NoIndex
               PROVE  /\ Analysis(class, m, told).ret = PublishedReturn(m)
                      /\ Analysis(class, m, told).param = PublishedParameter(m)
    BY DEF PublishedAreJustified
  <1>1. complete
    BY DEF PublishedReturn, PublishedParameter
  <1>2. /\ analyzed = MethodsOf(class)
        /\ pending = <<>> /\ changedFields = {} /\ worklist = <<>>
    BY <1>1 DEF EndInv, EveryMethodAnalyzed, Ended
  <1>3. ~WaitsFor(m)
    <2>1. scheduled = {}
      BY <1>2, WorklistParts DEF EndInv, TypeInv, Members
    <2> QED BY <1>2, <2>1 DEF WaitsFor, Members
  <1>4. analyses[m] = Analysis(class, m, Environment)
    BY <1>1, <1>2, <1>3 DEF NoStaleAnalysis
  <1>5. told = Environment
    <2>1. /\ returns \in [MethodsOf(class) -> Values \cup {NoValue}]
          /\ parameters \in [MethodsOf(class) -> Indices \cup {NoIndex}]
      BY DEF EndInv, TypeInv, TypeOK, Environment, Environments
    <2>2. \A k \in MethodsOf(class) : /\ PublishedReturn(k) = returns[k]
                                    /\ PublishedParameter(k) = parameters[k]
      BY <1>1, <1>2 DEF Recorded, PublishedReturn, PublishedParameter
    <2>3. /\ [k \in MethodsOf(class) |-> PublishedReturn(k)] = returns
          /\ [k \in MethodsOf(class) |-> PublishedParameter(k)] = parameters
      BY <2>1, <2>2
    <2> QED BY <2>3 DEF Environment
  <1> QED BY <1>1, <1>4, <1>5 DEF PublishedReturn, PublishedParameter

(* The summaries that a caller is given justify each other, and none is    *)
(* given that a budget kept from converging.                               *)
THEOREM PublishedAlwaysJustified == Spec => []PublishedAreJustified
  <1> DEFINE Inv == EndInv /\ StaleInv /\ Recorded
  <1>1. Init => Inv
    BY EndInvInit, StaleInvInit, RecordedInit
  <1>2. Inv /\ [Next]_vars => Inv'
    BY EndInvStep, StaleInvStep, RecordedStep DEF StaleInv
  <1>3. Inv => PublishedAreJustified
    BY JustifiedAtTheEnd DEF StaleInv
  <1> QED BY <1>1, <1>2, <1>3, PTL DEF Spec
=============================================================================
