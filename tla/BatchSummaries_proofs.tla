----------------------- MODULE BatchSummaries_proofs -----------------------
(***************************************************************************)
(* What the loop over the classes of a batch guarantees for every batch    *)
(* and every analysis of a class that uses only what it is requeued for.   *)
(***************************************************************************)
EXTENDS BatchSummaries, WorklistLemmas

Distinct(q) == \A i, j \in DOMAIN q : q[i] = q[j] => i = j

(* Classes never analyzed come before those that wait again.               *)
FirstTimeFirst(q, done) == \A i, j \in DOMAIN q : q[i] \in done /\ q[j] \notin done => j < i

LEMMA WorklistParts ==
    WorklistConsistent <=> /\ Distinct(worklist)
                           /\ scheduled = Members(worklist)
                           /\ outcome # "strictError" => Classes(batch) \ analyzed \subseteq scheduled
                           /\ FirstTimeFirst(worklist, analyzed)
  BY DEF WorklistConsistent, Distinct, Members, FirstTimeFirst

LEMMA WorklistPartsAfter ==
    WorklistConsistent' <=>
        /\ Distinct(worklist')
        /\ scheduled' = Members(worklist')
        /\ outcome' # "strictError" => Classes(batch') \ analyzed' \subseteq scheduled'
        /\ FirstTimeFirst(worklist', analyzed')
  BY DEF WorklistConsistent, Distinct, Members, FirstTimeFirst

(* A table with an entry for every method of every class.                  *)
LEMMA InPerMethod ==
    ASSUME NEW b, NEW S, NEW f
    PROVE  f \in PerMethod(b, S) <=>
              /\ f = [c \in Classes(b) |-> f[c]]
              /\ \A c \in Classes(b) : f[c] \in [MethodsOf(b, c) -> S]
  <1> DEFINE Rows == UNION {[MethodsOf(b, c) -> S] : c \in Classes(b)}
  <1>1. ASSUME NEW c \in Classes(b), f[c] \in [MethodsOf(b, c) -> S]
        PROVE  f[c] \in Rows
    BY <1>1
  <1>2. PerMethod(b, S) = {g \in [Classes(b) -> Rows] :
                              \A c \in Classes(b) : g[c] \in [MethodsOf(b, c) -> S]}
    BY DEF PerMethod
  <1> HIDE DEF Rows
  <1> QED BY <1>1, <1>2

LEMMA UpdatedPerMethod ==
    ASSUME NEW b, NEW S, NEW f \in PerMethod(b, S), NEW c, NEW row \in [MethodsOf(b, c) -> S]
    PROVE  [f EXCEPT ![c] = row] \in PerMethod(b, S)
  <1> DEFINE g == [f EXCEPT ![c] = row]
  <1>1. /\ f = [d \in Classes(b) |-> f[d]]
        /\ \A d \in Classes(b) : f[d] \in [MethodsOf(b, d) -> S]
    BY InPerMethod
  <1>2. /\ DOMAIN g = Classes(b)
        /\ g = [d \in Classes(b) |-> g[d]]
        /\ \A d \in Classes(b) : g[d] = IF d = c THEN row ELSE f[d]
    BY <1>1
  <1>3. \A d \in Classes(b) : g[d] \in [MethodsOf(b, d) -> S]
    BY <1>1, <1>2
  <1> HIDE DEF g
  <1> QED BY <1>2, <1>3, InPerMethod

LEMMA EnvironmentTyped ==
    Environment \in Environments(batch) <=>
        /\ returns \in PerMethod(batch, Values \cup {NoValue})
        /\ parameters \in PerMethod(batch, Indices \cup {NoIndex})
  BY DEF Environment, Environments

LEMMA EnvironmentTypedAfter ==
    Environment' \in Environments(batch') <=>
        /\ returns' \in PerMethod(batch', Values \cup {NoValue})
        /\ parameters' \in PerMethod(batch', Indices \cup {NoIndex})
  BY DEF Environment, Environments

-----------------------------------------------------------------------------
(* The state of the loop is well typed, its worklist consistent, and it    *)
(* does not end with someone to be told.                                   *)
AllTold == outcome # "running" => pending = <<>> /\ changed = {}
TypeInv == TypeOK /\ WorklistConsistent /\ AllTold

LEMMA BatchTyped ==
    ASSUME TypeInv
    PROVE  /\ batch \in Batches
           /\ \A c \in Classes(batch) : \A m \in MethodsOf(batch, c) :
                 Callers(batch, c, m) \in Seq(Classes(batch))
  BY BatchAssumption DEF TypeInv, TypeOK

(* Popping: the head leaves the queue and its flag is taken back.          *)
LEMMA PopTyped ==
    ASSUME TypeInv, Pop
    PROVE  /\ Head(worklist) \in Classes(batch)
           /\ worklist' \in Seq(Classes(batch))
           /\ Distinct(worklist')
           /\ scheduled' = Members(worklist')
           /\ scheduled = scheduled' \cup {Head(worklist)}
           /\ Classes(batch) \ analyzed \subseteq scheduled
           /\ FirstTimeFirst(worklist', analyzed \cup {Head(worklist)})
  <1> DEFINE c == Head(worklist)
  <1>1. /\ worklist \in Seq(Classes(batch)) /\ worklist # <<>>
        /\ worklist' = Tail(worklist)
        /\ scheduled' = scheduled \ {c}
    BY DEF TypeInv, TypeOK, Pop
  <1>2. /\ Distinct(worklist)
        /\ scheduled = Members(worklist)
        /\ Classes(batch) \ analyzed \subseteq scheduled
        /\ FirstTimeFirst(worklist, analyzed)
    BY WorklistParts DEF TypeInv, Pop, Idle
  <1>3. /\ Tail(worklist) \in Seq(Classes(batch))
        /\ c \in Classes(batch)
        /\ Distinct(Tail(worklist))
        /\ Members(Tail(worklist)) = Members(worklist) \ {c}
    BY <1>1, <1>2, TailOfDistinct DEF Distinct, Members
  <1>4. c \in Members(worklist)
    BY <1>1, MembersOfTail DEF Members
  <1>5. FirstTimeFirst(Tail(worklist), analyzed \cup {c})
    <2> SUFFICES ASSUME NEW i \in DOMAIN Tail(worklist), NEW j \in DOMAIN Tail(worklist),
                        Tail(worklist)[i] \in analyzed \cup {c},
                        Tail(worklist)[j] \notin analyzed \cup {c}
                 PROVE  j < i
      BY DEF FirstTimeFirst
    <2>1. Tail(worklist)[i] \in Members(Tail(worklist))
      BY DEF Members
    <2>2. Tail(worklist)[i] \in analyzed
      BY <1>3, <2>1
    <2>3. /\ i + 1 \in DOMAIN worklist /\ Tail(worklist)[i] = worklist[i + 1]
          /\ j + 1 \in DOMAIN worklist /\ Tail(worklist)[j] = worklist[j + 1]
      BY <1>1, PlaceInTail
    <2>4. j + 1 < i + 1
      BY <1>2, <2>2, <2>3 DEF FirstTimeFirst
    <2>5. i \in Int /\ j \in Int
      BY <1>3
    <2> QED BY <2>4, <2>5
  <1> QED BY <1>1, <1>2, <1>3, <1>4, <1>5

(* A class put at the end of the queue has been analyzed before: those     *)
(* that have not are waiting already.                                      *)
LEMMA ScheduleTyped ==
    ASSUME TypeInv, outcome = "running", NEW c \in Classes(batch), Schedule(c)
    PROVE  /\ worklist' \in Seq(Classes(batch))
           /\ scheduled' = scheduled \cup {c}
           /\ Distinct(worklist')
           /\ scheduled' = Members(worklist')
           /\ FirstTimeFirst(worklist', analyzed)
  <1>1. /\ worklist \in Seq(Classes(batch))
        /\ scheduled' = scheduled \cup {c}
        /\ Distinct(worklist)
        /\ scheduled = Members(worklist)
        /\ FirstTimeFirst(worklist, analyzed)
        /\ Classes(batch) \ analyzed \subseteq scheduled
    BY WorklistParts DEF TypeInv, TypeOK, Schedule
  <1>2. CASE c \in scheduled
    BY <1>1, <1>2 DEF Schedule
  <1>3. CASE c \notin scheduled
    <2>1. worklist' = Append(worklist, c)
      BY <1>3 DEF Schedule
    <2>2. /\ Append(worklist, c) \in Seq(Classes(batch))
          /\ Distinct(Append(worklist, c))
          /\ Members(Append(worklist, c)) = Members(worklist) \cup {c}
      BY <1>1, <1>3, AppendToDistinct DEF Distinct, Members
    <2>3. FirstTimeFirst(Append(worklist, c), analyzed)
      <3> SUFFICES ASSUME NEW i \in DOMAIN Append(worklist, c),
                          NEW j \in DOMAIN Append(worklist, c),
                          Append(worklist, c)[i] \in analyzed,
                          Append(worklist, c)[j] \notin analyzed
                   PROVE  j < i
        BY DEF FirstTimeFirst
      <3>1. c \in analyzed
        BY <1>1, <1>3
      <3>2. j \in DOMAIN worklist /\ Append(worklist, c)[j] = worklist[j] /\ j <= Len(worklist)
        BY <1>1, <3>1, PlaceInAppend
      <3>3. CASE i \in DOMAIN worklist /\ Append(worklist, c)[i] = worklist[i]
        BY <1>1, <3>2, <3>3 DEF FirstTimeFirst
      <3>4. CASE i = Len(worklist) + 1
        BY <1>1, <3>2, <3>4
      <3> QED BY <1>1, <3>3, <3>4, PlaceInAppend
    <2> QED BY <1>1, <2>1, <2>2, <2>3
  <1> QED BY <1>2, <1>3

LEMMA AnalysisTyped ==
    ASSUME TypeInv, NEW c \in Classes(batch)
    PROVE  Analysis(batch, c, Environment) \in Analyses(batch, c)
  BY AnalysisAssumption DEF TypeInv, TypeOK

LEMMA TypeInvInit == Init => TypeInv
  <1> SUFFICES ASSUME Init PROVE TypeInv
    OBVIOUS
  <1>1. batch \in Batches /\ ClassCount(batch) \in Nat
    BY BatchAssumption DEF Init
  <1>2. worklist = [n \in 1..ClassCount(batch) |-> n]
    BY DEF Init, Classes
  <1>3. /\ worklist \in Seq(Classes(batch))
        /\ DOMAIN worklist = Classes(batch)
        /\ \A n \in DOMAIN worklist : worklist[n] = n
    BY <1>1, <1>2 DEF Classes
  <1>4. Members(worklist) = Classes(batch)
    BY <1>3 DEF Members
  <1>5. WorklistConsistent
    <2>1. Distinct(worklist)
      BY <1>3 DEF Distinct
    <2>2. FirstTimeFirst(worklist, analyzed)
      BY DEF Init, FirstTimeFirst
    <2> QED BY <1>4, <2>1, <2>2, WorklistParts DEF Init
  <1>6. Environment \in Environments(batch)
    <2>1. returns \in PerMethod(batch, Values \cup {NoValue})
      BY InPerMethod DEF Init
    <2>2. parameters \in PerMethod(batch, Indices \cup {NoIndex})
      BY InPerMethod DEF Init
    <2> QED BY <2>1, <2>2, EnvironmentTyped
  <1>7. pending \in Seq(Classes(batch))
    BY DEF Init
  <1>8. DOMAIN analyses = analyzed /\ analyzed = {} /\ changed = {}
    BY DEF Init
  <1>9. /\ config \in Configs /\ scheduled \subseteq Classes(batch)
        /\ reanalysisItems \in Nat /\ complete \in BOOLEAN /\ outcome = "running"
    BY DEF Init
  <1> QED BY <1>1, <1>3, <1>5, <1>6, <1>7, <1>8, <1>9 DEF TypeInv, TypeOK, AllTold

(* What one analysis teaches is well typed.                                *)
LEMMA LearnTyped ==
    ASSUME TypeInv, NEW c \in Classes(batch), batch' = batch,
           NEW result \in Analyses(batch, c), Learn(c, result)
    PROVE  /\ analyzed' \subseteq Classes(batch)
           /\ DOMAIN analyses' = analyzed'
           /\ \A d \in analyzed' : analyses'[d] \in Analyses(batch, d)
           /\ Environment' \in Environments(batch')
           /\ \A key \in changed' : /\ key = <<key[1], key[2]>>
                                    /\ key[1] \in Classes(batch)
                                    /\ key[2] \in MethodsOf(batch, key[1])
  <1>1. /\ analyzed \subseteq Classes(batch)
        /\ DOMAIN analyses = analyzed
        /\ \A d \in analyzed : analyses[d] \in Analyses(batch, d)
        /\ Environment \in Environments(batch)
    BY DEF TypeInv, TypeOK
  <1>2. /\ result.returns \in [MethodsOf(batch, c) -> Values \cup {NoValue}]
        /\ result.parameters \in [MethodsOf(batch, c) -> Indices \cup {NoIndex}]
    BY DEF Analyses
  <1>3. /\ analyzed' = analyzed \cup {c}
        /\ analyses' = [d \in analyzed \cup {c} |-> IF d = c THEN result ELSE analyses[d]]
        /\ returns' = [returns EXCEPT ![c] = result.returns]
        /\ parameters' = [parameters EXCEPT ![c] = result.parameters]
    BY DEF Learn
  <1>4. Environment' \in Environments(batch')
    <2>1. returns' \in PerMethod(batch, Values \cup {NoValue})
      BY <1>1, <1>2, <1>3, EnvironmentTyped, UpdatedPerMethod
    <2>2. parameters' \in PerMethod(batch, Indices \cup {NoIndex})
      BY <1>1, <1>2, <1>3, EnvironmentTyped, UpdatedPerMethod
    <2> QED BY <2>1, <2>2, EnvironmentTypedAfter
  <1>5. \A d \in analyzed' : analyses'[d] \in Analyses(batch, d)
    BY <1>1, <1>3
  <1>6. \A key \in changed' : /\ key = <<key[1], key[2]>>
                              /\ key[1] \in Classes(batch)
                              /\ key[2] \in MethodsOf(batch, key[1])
    BY DEF Learn
  <1> QED BY <1>1, <1>3, <1>4, <1>5, <1>6

LEMMA AnalyzeTyped ==
    ASSUME TypeInv, AnalyzeClass
    PROVE  TypeInv'
  <1> DEFINE c == Head(worklist)
  <1>1. /\ Pop /\ Learn(c, Result)
        /\ CountReanalysis
        /\ UNCHANGED <<batch, config, pending, complete, outcome>>
    BY DEF AnalyzeClass
  <1>2. /\ c \in Classes(batch)
        /\ worklist' \in Seq(Classes(batch))
        /\ Distinct(worklist')
        /\ scheduled' = Members(worklist')
        /\ scheduled = scheduled' \cup {c}
        /\ Classes(batch) \ analyzed \subseteq scheduled
        /\ FirstTimeFirst(worklist', analyzed \cup {c})
    BY <1>1, PopTyped
  <1>3. analyzed' = analyzed \cup {c}
    BY <1>1 DEF Learn
  <1>4. Classes(batch) \ analyzed' \subseteq scheduled'
    BY <1>2, <1>3
  <1>5. WorklistConsistent'
    BY <1>1, <1>2, <1>3, <1>4, WorklistPartsAfter
  <1>6. /\ analyzed' \subseteq Classes(batch)
        /\ DOMAIN analyses' = analyzed'
        /\ \A d \in analyzed' : analyses'[d] \in Analyses(batch, d)
        /\ Environment' \in Environments(batch')
        /\ \A key \in changed' : /\ key = <<key[1], key[2]>>
                                 /\ key[1] \in Classes(batch)
                                 /\ key[2] \in MethodsOf(batch, key[1])
    <2>1. Result \in Analyses(batch, c)
      BY <1>2, AnalysisTyped DEF Result
    <2> QED BY <1>1, <1>2, <2>1, LearnTyped
  <1>7. reanalysisItems' \in Nat
    BY <1>1 DEF CountReanalysis, TypeInv, TypeOK
  <1>8. scheduled' \subseteq Classes(batch)
    BY <1>2 DEF TypeInv, TypeOK
  <1>9. TypeOK'
    <2>1. /\ batch \in Batches /\ config \in Configs /\ complete \in BOOLEAN
          /\ pending \in Seq(Classes(batch))
          /\ outcome \in {"running", "collecting", "ok", "strictError"}
      BY DEF TypeInv, TypeOK
    <2> QED BY <1>1, <1>2, <1>6, <1>7, <1>8, <2>1 DEF TypeOK
  <1>10. AllTold'
    BY <1>1 DEF Pop, Idle, AllTold
  <1> QED BY <1>5, <1>9, <1>10 DEF TypeInv

(* A step that only takes the head away, and ends the loop.                *)
LEMMA StopTyped ==
    ASSUME TypeInv, Pop, CountReanalysis,
           UNCHANGED <<batch, config, analyzed, analyses, returns, parameters, changed, pending>>,
           complete' \in BOOLEAN, outcome' \in {"collecting", "strictError"},
           Head(worklist) \in analyzed \/ outcome' = "strictError"
    PROVE  TypeInv'
  <1>1. /\ Head(worklist) \in Classes(batch)
        /\ worklist' \in Seq(Classes(batch))
        /\ Distinct(worklist')
        /\ scheduled' = Members(worklist')
        /\ scheduled = scheduled' \cup {Head(worklist)}
        /\ Classes(batch) \ analyzed \subseteq scheduled
        /\ FirstTimeFirst(worklist', analyzed \cup {Head(worklist)})
    BY PopTyped
  <1>2. FirstTimeFirst(worklist', analyzed')
    <2>1. FirstTimeFirst(worklist, analyzed)
      BY WorklistParts DEF TypeInv
    <2>2. /\ worklist \in Seq(Classes(batch)) /\ worklist # <<>>
          /\ worklist' = Tail(worklist)
      BY DEF Pop, TypeInv, TypeOK
    <2> SUFFICES ASSUME NEW i \in DOMAIN worklist', NEW j \in DOMAIN worklist',
                        worklist'[i] \in analyzed, worklist'[j] \notin analyzed
                 PROVE  j < i
      BY DEF FirstTimeFirst
    <2>3. /\ i + 1 \in DOMAIN worklist /\ worklist'[i] = worklist[i + 1]
          /\ j + 1 \in DOMAIN worklist /\ worklist'[j] = worklist[j + 1]
      BY <2>2, PlaceInTail
    <2>4. j + 1 < i + 1
      BY <2>1, <2>3 DEF FirstTimeFirst
    <2>5. i \in Int /\ j \in Int
      BY <1>1
    <2> QED BY <2>4, <2>5
  <1>3. WorklistConsistent'
    <2>1. outcome' # "strictError" => Classes(batch') \ analyzed' \subseteq scheduled'
      BY <1>1
    <2> QED BY <1>1, <1>2, <2>1, WorklistPartsAfter
  <1>4. TypeOK'
    <2>1. Environment' = Environment
      BY DEF Environment
    <2>2. reanalysisItems' \in Nat
      BY DEF CountReanalysis, TypeInv, TypeOK
    <2>3. scheduled' \subseteq Classes(batch)
      BY <1>1 DEF TypeInv, TypeOK
    <2> QED BY <1>1, <2>1, <2>2, <2>3 DEF TypeInv, TypeOK
  <1>5. AllTold'
    BY DEF Pop, Idle, AllTold
  <1> QED BY <1>3, <1>4, <1>5 DEF TypeInv

LEMMA TypeInvStep == TypeInv /\ [Next]_vars => TypeInv'
  <1> SUFFICES ASSUME TypeInv, [Next]_vars PROVE TypeInv'
    OBVIOUS
  <1>1. CASE StopAtBudget
    BY <1>1, StopTyped DEF StopAtBudget, BudgetExceeded
  <1>2. CASE RejectClass
    <2>1. complete' \in BOOLEAN
      BY <1>2 DEF RejectClass, TypeInv, TypeOK
    <2> QED BY <1>2, <2>1, StopTyped DEF RejectClass
  <1>3. CASE AnalyzeClass
    BY <1>3, AnalyzeTyped
  <1>4. CASE NextKey
    <2>1. PICK key \in changed : /\ pending' = Callers(batch, key[1], key[2])
                                 /\ changed' = changed \ {key}
      BY <1>4 DEF NextKey
    <2>2. pending' \in Seq(Classes(batch))
      BY <2>1, BatchTyped DEF TypeInv, TypeOK
    <2>3. Environment' = Environment
      BY <1>4 DEF NextKey, Environment
    <2>4. WorklistConsistent'
      BY <1>4 DEF NextKey, TypeInv, WorklistConsistent
    <2>5. TypeOK'
      BY <1>4, <2>1, <2>2, <2>3 DEF NextKey, TypeInv, TypeOK
    <2>6. AllTold'
      BY <1>4, <2>1 DEF NextKey, TypeInv, AllTold
    <2> QED BY <2>4, <2>5, <2>6 DEF TypeInv
  <1>5. CASE Requeue
    <2>1. /\ Head(pending) \in Classes(batch)
          /\ pending' \in Seq(Classes(batch))
          /\ Schedule(Head(pending))
          /\ UNCHANGED <<batch, config, analyzed, analyses, returns, parameters,
                         reanalysisItems, changed, complete, outcome>>
      <3>1. pending \in Seq(Classes(batch)) /\ pending # <<>> /\ pending' = Tail(pending)
        BY <1>5 DEF Requeue, TypeInv, TypeOK
      <3>2. Head(pending) \in Classes(batch) /\ Tail(pending) \in Seq(Classes(batch))
        BY <3>1
      <3> QED BY <1>5, <3>1, <3>2 DEF Requeue
    <2>2. outcome = "running"
      BY <1>5 DEF Requeue, TypeInv, AllTold
    <2>3. /\ worklist' \in Seq(Classes(batch))
          /\ scheduled' = scheduled \cup {Head(pending)}
          /\ Distinct(worklist')
          /\ scheduled' = Members(worklist')
          /\ FirstTimeFirst(worklist', analyzed)
      BY <2>1, <2>2, ScheduleTyped
    <2>4. FirstTimeFirst(worklist', analyzed')
      BY <2>1, <2>3
    <2>5. WorklistConsistent'
      BY <2>1, <2>2, <2>3, <2>4, WorklistParts, WorklistPartsAfter DEF TypeInv
    <2>6. Environment' = Environment
      BY <2>1 DEF Environment
    <2>7. TypeOK'
      BY <2>1, <2>3, <2>6 DEF TypeInv, TypeOK
    <2> QED BY <2>1, <2>2, <2>5, <2>7 DEF TypeInv, AllTold
  <1>6. CASE Converge
    <2>1. Environment' = Environment
      BY <1>6 DEF Converge, Environment
    <2> QED BY <1>6, <2>1 DEF Converge, Idle, TypeInv, TypeOK, WorklistConsistent, AllTold
  <1>7. CASE Collect
    <2>1. Environment' = Environment
      BY <1>7 DEF Collect, Environment
    <2>2. outcome' \in {"ok", "strictError"}
      BY <1>7 DEF Collect
    <2> QED BY <1>7, <2>1, <2>2 DEF Collect, TypeInv, TypeOK, WorklistConsistent, AllTold
  <1>8. CASE UNCHANGED vars
    <2>1. Environment' = Environment
      BY <1>8 DEF vars, Environment
    <2> QED BY <1>8, <2>1 DEF vars, TypeInv, TypeOK, WorklistConsistent, AllTold
  <1> QED BY <1>1, <1>2, <1>3, <1>4, <1>5, <1>6, <1>7, <1>8 DEF Next

(* Type correctness of the loop over the classes of a batch.               *)
THEOREM TypeCorrect == Spec => []TypeOK
  <1>1. TypeInv => TypeOK
    BY DEF TypeInv
  <1> QED BY <1>1, TypeInvInit, TypeInvStep, PTL DEF Spec

(* No class waits twice, and those never analyzed wait before the others.  *)
THEOREM WorklistAlwaysConsistent == Spec => []WorklistConsistent
  <1>1. TypeInv => WorklistConsistent
    BY DEF TypeInv
  <1> QED BY <1>1, TypeInvInit, TypeInvStep, PTL DEF Spec

-----------------------------------------------------------------------------
(* A loop that has ended well has an analysis of every class, and, if it   *)
(* is complete, an empty worklist.                                         *)
Ended == outcome \in {"collecting", "ok"} /\ complete => worklist = <<>>
EndInv == TypeInv /\ EveryClassAnalyzed /\ Ended

(* A class analyzed before is only popped when none is left that was not.  *)
LEMMA HeadAnalyzed ==
    ASSUME TypeInv, outcome = "running", worklist # <<>>, Head(worklist) \in analyzed
    PROVE  analyzed = Classes(batch)
  <1>1. /\ worklist \in Seq(Classes(batch))
        /\ scheduled = Members(worklist)
        /\ Classes(batch) \ analyzed \subseteq scheduled
        /\ FirstTimeFirst(worklist, analyzed)
        /\ analyzed \subseteq Classes(batch)
    BY WorklistParts DEF TypeInv, TypeOK
  <1>2. /\ DOMAIN worklist = 1..Len(worklist) /\ Len(worklist) \in Nat \ {0}
        /\ worklist[1] = Head(worklist)
    BY <1>1
  <1>3. ASSUME NEW j \in DOMAIN worklist, worklist[j] \notin analyzed
        PROVE  FALSE
    <2>1. 1 \in DOMAIN worklist /\ worklist[1] \in analyzed
      BY <1>2
    <2>2. j < 1
      BY <1>1, <1>3, <2>1 DEF FirstTimeFirst
    <2> QED BY <1>2, <2>2
  <1>4. scheduled \subseteq analyzed
    BY <1>1, <1>3 DEF Members
  <1> QED BY <1>1, <1>4

LEMMA EndInvInit == Init => EndInv
  BY TypeInvInit DEF Init, EndInv, EveryClassAnalyzed, Ended

LEMMA EndInvStep == EndInv /\ [Next]_vars => EndInv'
  <1> SUFFICES ASSUME EndInv, [Next]_vars PROVE EveryClassAnalyzed' /\ Ended'
    BY TypeInvStep DEF EndInv
  <1> USE DEF EndInv, EveryClassAnalyzed, Ended
  <1>1. CASE StopAtBudget
    <2>1. analyzed = Classes(batch)
      BY <1>1, HeadAnalyzed DEF StopAtBudget, Pop, Idle, BudgetExceeded
    <2>2. Classes(batch)' = Classes(batch) /\ analyzed' = analyzed
      BY <1>1 DEF StopAtBudget, Classes
    <2> QED BY <1>1, <2>1, <2>2 DEF StopAtBudget
  <1>2. CASE AnalyzeClass
    BY <1>2 DEF AnalyzeClass, Pop, Idle
  <1>3. CASE RejectClass
    BY <1>3 DEF RejectClass
  <1>4. CASE Requeue
    BY <1>4 DEF Requeue, TypeInv, AllTold
  <1>5. CASE NextKey
    <2>1. outcome = "running" /\ outcome' = outcome
      BY <1>5 DEF NextKey, TypeInv, AllTold
    <2> QED BY <2>1
  <1>6. CASE Converge
    <2>1. worklist = <<>> /\ Members(worklist) = {} /\ outcome = "running"
      BY <1>6 DEF Converge, Members, Idle
    <2>2. analyzed = Classes(batch)
      BY <2>1, WorklistParts DEF TypeInv, TypeOK
    <2>3. Classes(batch)' = Classes(batch)
      BY <1>6 DEF Converge, Classes
    <2> QED BY <1>6, <2>1, <2>2, <2>3 DEF Converge
  <1>7. CASE Collect
    BY <1>7 DEF Collect, Classes
  <1>8. CASE UNCHANGED vars
    BY <1>8 DEF vars, Classes
  <1> QED BY <1>1, <1>2, <1>3, <1>4, <1>5, <1>6, <1>7, <1>8 DEF Next

(* Whatever the budget, a loop that is not refused ends with an analysis   *)
(* of every class: the expect on each of them never panics.                *)
THEOREM EveryClassAlwaysAnalyzed == Spec => []EveryClassAnalyzed
  <1>1. EndInv => EveryClassAnalyzed
    BY DEF EndInv
  <1> QED BY <1>1, EndInvInit, EndInvStep, PTL DEF Spec

-----------------------------------------------------------------------------
(* No change of what is known passes its users by.                         *)
StaleInv == TypeInv /\ NoStaleClass

(* Whom a step does not leave waiting uses nothing that the step changed.  *)
LEMMA UnchangedForOthers ==
    ASSUME TypeInv, AnalyzeClass, NEW d \in Classes(batch), ~WaitsFor(d)'
    PROVE  Analysis(batch, d, Environment') = Analysis(batch, d, Environment)
  <1> DEFINE c == Head(worklist)
  <1>1. /\ Learn(c, Result) /\ batch' = batch
        /\ batch \in Batches
        /\ Environment \in Environments(batch)
        /\ c \in Classes(batch)
    BY PopTyped DEF AnalyzeClass, TypeInv, TypeOK
  <1>2. Environment' \in Environments(batch)
    BY AnalyzeTyped, <1>1 DEF TypeInv, TypeOK
  <1>3. /\ returns' = [returns EXCEPT ![c] = Result.returns]
        /\ parameters' = [parameters EXCEPT ![c] = Result.parameters]
        /\ DOMAIN returns = Classes(batch) /\ DOMAIN parameters = Classes(batch)
    <2>1. returns \in PerMethod(batch, Values \cup {NoValue})
      BY <1>1, EnvironmentTyped
    <2>2. parameters \in PerMethod(batch, Indices \cup {NoIndex})
      BY <1>1, EnvironmentTyped
    <2>3. DOMAIN returns = Classes(batch) /\ DOMAIN parameters = Classes(batch)
      BY <2>1, <2>2, InPerMethod
    <2> QED BY <1>1, <2>3 DEF Learn
  <1>4. ASSUME NEW e \in Classes(batch), NEW m \in MethodsOf(batch, e),
               d \in Members(Callers(batch, e, m))
        PROVE  returns'[e][m] = returns[e][m] /\ parameters'[e][m] = parameters[e][m]
    <2>1. CASE e # c
      BY <1>3, <2>1
    <2>2. CASE e = c
      <3>1. <<c, m>> \notin changed'
        <4>1. <<c, m>>[1] = e /\ <<c, m>>[2] = m
          BY <2>2
        <4> QED BY <1>1, <1>4, <4>1 DEF WaitsFor, Members
      <3>2. ~SummaryChanged(c, m, Result)
        BY <1>1, <2>2, <3>1 DEF Learn
      <3> QED BY <1>1, <1>3, <2>2, <3>2 DEF SummaryChanged
    <2> QED BY <2>1, <2>2
  <1>5. Used(batch, d, Environment') = Used(batch, d, Environment)
    <2>1. /\ Environment.returns = returns /\ Environment'.returns = returns'
          /\ Environment.parameters = parameters /\ Environment'.parameters = parameters'
      BY DEF Environment
    <2> QED BY <1>4, <2>1 DEF Used
  <1>6. /\ Analysis(batch, d, Environment) = Analysis(batch, d, Used(batch, d, Environment))
        /\ Analysis(batch, d, Environment') = Analysis(batch, d, Used(batch, d, Environment'))
    BY <1>1, <1>2, UsesAssumption
  <1> QED BY <1>5, <1>6

LEMMA StaleInvInit == Init => StaleInv
  BY TypeInvInit DEF Init, StaleInv, NoStaleClass

LEMMA NotStaleAfterAnalyze ==
    ASSUME StaleInv, AnalyzeClass
    PROVE  NoStaleClass'
  <1> DEFINE c == Head(worklist)
  <1> SUFFICES ASSUME complete, outcome = "running", NEW d \in analyzed', ~WaitsFor(d)'
               PROVE  analyses'[d] = Analysis(batch, d, Environment')
    <2>1. complete' = complete /\ batch' = batch /\ outcome' = outcome /\ outcome = "running"
      BY DEF AnalyzeClass, Pop, Idle
    <2> QED BY <2>1 DEF NoStaleClass
  <1>1. /\ Learn(c, Result) /\ Pop
        /\ pending = <<>> /\ changed = {}
        /\ scheduled' = scheduled \ {c}
    BY DEF AnalyzeClass, Pop, Idle
  <1>2. /\ c \in Classes(batch)
        /\ analyzed' = analyzed \cup {c}
        /\ analyzed \subseteq Classes(batch)
    BY <1>1, PopTyped DEF Learn, StaleInv, TypeInv, TypeOK
  <1>3. Analysis(batch, d, Environment') = Analysis(batch, d, Environment)
    BY <1>2, UnchangedForOthers DEF StaleInv
  <1>4. CASE d = c
    <2>1. analyses'[d] = Result
      BY <1>1, <1>2, <1>4 DEF Learn
    <2> QED BY <1>3, <1>4, <2>1 DEF Result
  <1>5. CASE d # c
    <2>1. d \in analyzed /\ analyses'[d] = analyses[d]
      BY <1>1, <1>2, <1>5 DEF Learn
    <2>2. ~WaitsFor(d)
      <3>1. d \notin scheduled
        BY <1>1, <1>5 DEF WaitsFor
      <3> QED BY <1>1, <3>1 DEF WaitsFor, Members
    <2>3. analyses[d] = Analysis(batch, d, Environment)
      BY <2>1, <2>2 DEF StaleInv, NoStaleClass
    <2> QED BY <1>3, <2>1, <2>3
  <1> QED BY <1>4, <1>5

(* Other steps only pass on the duty to tell someone.                      *)
LEMMA StillWaits ==
    ASSUME StaleInv, Requeue \/ NextKey, NEW d, WaitsFor(d)
    PROVE  WaitsFor(d)'
  <1>1. CASE Requeue
    <2>1. /\ pending \in Seq(Classes(batch)) /\ pending # <<>>
          /\ pending' = Tail(pending)
          /\ scheduled' = scheduled \cup {Head(pending)}
          /\ changed' = changed /\ batch' = batch
      BY <1>1 DEF Requeue, Schedule, StaleInv, TypeInv, TypeOK
    <2>2. Members(pending) = {Head(pending)} \cup Members(Tail(pending))
      BY <2>1, MembersOfTail DEF Members
    <2> QED BY <2>1, <2>2 DEF WaitsFor, Members
  <1>2. CASE NextKey
    <2>1. PICK key \in changed : /\ pending' = Callers(batch, key[1], key[2])
                                 /\ changed' = changed \ {key}
      BY <1>2 DEF NextKey
    <2>2. /\ pending = <<>> /\ Members(pending) = {}
          /\ scheduled' = scheduled /\ batch' = batch
      BY <1>2 DEF NextKey, Members
    <2>3. CASE d \in Members(Callers(batch, key[1], key[2]))
      BY <2>1, <2>3 DEF WaitsFor, Members
    <2>4. CASE d \notin Members(Callers(batch, key[1], key[2]))
      BY <2>1, <2>2, <2>4 DEF WaitsFor, Members
    <2> QED BY <2>3, <2>4
  <1> QED BY <1>1, <1>2

LEMMA StaleInvStep == StaleInv /\ [Next]_vars => StaleInv'
  <1> SUFFICES ASSUME StaleInv, [Next]_vars PROVE NoStaleClass'
    BY TypeInvStep DEF StaleInv
  <1>1. CASE StopAtBudget \/ RejectClass
    BY <1>1 DEF StopAtBudget, RejectClass, NoStaleClass
  <1>2. CASE AnalyzeClass
    BY <1>2, NotStaleAfterAnalyze
  <1>3. CASE Requeue \/ NextKey
    <2>1. /\ complete' = complete /\ batch' = batch /\ outcome' = outcome
          /\ analyzed' = analyzed /\ analyses' = analyses
          /\ Environment' = Environment
      BY <1>3 DEF Requeue, NextKey, Environment
    <2>2. \A d : WaitsFor(d) => WaitsFor(d)'
      BY <1>3, StillWaits
    <2> QED BY <2>1, <2>2 DEF StaleInv, NoStaleClass
  <1>4. CASE Converge \/ Collect \/ UNCHANGED vars
    <2>1. /\ complete' = complete /\ batch' = batch
          /\ analyzed' = analyzed /\ analyses' = analyses
          /\ Environment' = Environment
          /\ outcome' # "strictError" => outcome # "strictError"
      BY <1>4 DEF Converge, Idle, Collect, vars, Environment
    <2>2. \A d : WaitsFor(d) => WaitsFor(d)'
      BY <1>4 DEF Converge, Collect, vars, WaitsFor, Members
    <2> QED BY <2>1, <2>2 DEF StaleInv, NoStaleClass
  <1> QED BY <1>1, <1>2, <1>3, <1>4 DEF Next

(* At every moment, an analysis that newer summaries would change is going *)
(* to be repeated: the classes that call a method are told of each change. *)
THEOREM NeverStale == Spec => []NoStaleClass
  <1>1. StaleInv => NoStaleClass
    BY DEF StaleInv
  <1> QED BY <1>1, StaleInvInit, StaleInvStep, PTL DEF Spec

-----------------------------------------------------------------------------
(* What is known of a class analyzed is what its last analysis found.      *)
Recorded == \A c \in analyzed : /\ returns[c] = analyses[c].returns
                                /\ parameters[c] = analyses[c].parameters

LEMMA RecordedInit == Init => Recorded
  BY DEF Init, Recorded

LEMMA RecordedStep == TypeInv /\ Recorded /\ [Next]_vars => Recorded'
  <1> SUFFICES ASSUME TypeInv, Recorded, [Next]_vars PROVE Recorded'
    OBVIOUS
  <1>1. CASE AnalyzeClass
    <2> DEFINE c == Head(worklist)
    <2>1. /\ Learn(c, Result)
          /\ c \in Classes(batch)
          /\ analyzed \subseteq Classes(batch)
      BY <1>1, PopTyped DEF AnalyzeClass, TypeInv, TypeOK
    <2>2. DOMAIN returns = Classes(batch) /\ DOMAIN parameters = Classes(batch)
      <3>1. /\ returns \in PerMethod(batch, Values \cup {NoValue})
            /\ parameters \in PerMethod(batch, Indices \cup {NoIndex})
        BY EnvironmentTyped DEF TypeInv, TypeOK
      <3> QED BY <3>1, InPerMethod
    <2>3. ASSUME NEW d \in analyzed'
          PROVE  /\ returns'[d] = analyses'[d].returns
                 /\ parameters'[d] = analyses'[d].parameters
      <3>1. CASE d = c
        BY <2>1, <2>2, <3>1 DEF Learn
      <3>2. CASE d # c
        BY <2>1, <2>2, <2>3, <3>2 DEF Learn, Recorded
      <3> QED BY <3>1, <3>2
    <2> QED BY <2>3 DEF Recorded
  <1>2. CASE UNCHANGED <<analyzed, analyses, returns, parameters>>
    BY <1>2 DEF Recorded
  <1> QED BY <1>1, <1>2 DEF Next, StopAtBudget, RejectClass, Requeue, NextKey, Converge, Collect,
                            vars

(* A complete loop that has ended leaves every analysis up to date.        *)
LEMMA JustifiedAtTheEnd ==
    ASSUME EndInv, NoStaleClass, Recorded
    PROVE  PublishedAreJustified
  <1> DEFINE told == [returns |-> [c \in Classes(batch) |->
                                    [m \in MethodsOf(batch, c) |-> PublishedReturn(c, m)]],
                      parameters |-> [c \in Classes(batch) |->
                                    [m \in MethodsOf(batch, c) |-> PublishedParameter(c, m)]]]
  <1> SUFFICES ASSUME outcome = "ok", NEW c \in Classes(batch), NEW m \in MethodsOf(batch, c),
                      PublishedReturn(c, m) # NoValue \/ PublishedParameter(c, m) # NoIndex
               PROVE  /\ Analysis(batch, c, told).returns[m] = PublishedReturn(c, m)
                      /\ Analysis(batch, c, told).parameters[m] = PublishedParameter(c, m)
    BY DEF PublishedAreJustified
  <1>1. complete
    BY DEF PublishedReturn, PublishedParameter
  <1>2. /\ analyzed = Classes(batch)
        /\ pending = <<>> /\ changed = {} /\ worklist = <<>>
    BY <1>1 DEF EndInv, EveryClassAnalyzed, Ended, TypeInv, AllTold
  <1>3. ~WaitsFor(c)
    <2>1. scheduled = {}
      BY <1>2, WorklistParts DEF EndInv, TypeInv, Members
    <2> QED BY <1>2, <2>1 DEF WaitsFor, Members
  <1>4. analyses[c] = Analysis(batch, c, Environment)
    BY <1>1, <1>2, <1>3 DEF NoStaleClass
  <1>5. told = Environment
    <2>1. /\ returns = [d \in Classes(batch) |-> returns[d]]
          /\ parameters = [d \in Classes(batch) |-> parameters[d]]
          /\ \A d \in Classes(batch) :
                /\ returns[d] \in [MethodsOf(batch, d) -> Values \cup {NoValue}]
                /\ parameters[d] \in [MethodsOf(batch, d) -> Indices \cup {NoIndex}]
      <3>1. /\ returns \in PerMethod(batch, Values \cup {NoValue})
            /\ parameters \in PerMethod(batch, Indices \cup {NoIndex})
        BY EnvironmentTyped DEF EndInv, TypeInv, TypeOK
      <3> QED BY <3>1, InPerMethod
    <2>2. \A d \in Classes(batch) : \A k \in MethodsOf(batch, d) :
              /\ PublishedReturn(d, k) = returns[d][k]
              /\ PublishedParameter(d, k) = parameters[d][k]
      BY <1>1, <1>2 DEF Recorded, PublishedReturn, PublishedParameter
    <2>3. \A d \in Classes(batch) :
              /\ [k \in MethodsOf(batch, d) |-> PublishedReturn(d, k)] = returns[d]
              /\ [k \in MethodsOf(batch, d) |-> PublishedParameter(d, k)] = parameters[d]
      BY <2>1, <2>2
    <2>4. /\ [d \in Classes(batch) |-> [k \in MethodsOf(batch, d) |-> PublishedReturn(d, k)]]
                = returns
          /\ [d \in Classes(batch) |-> [k \in MethodsOf(batch, d) |-> PublishedParameter(d, k)]]
                = parameters
      BY <2>1, <2>3
    <2> QED BY <2>4 DEF Environment
  <1> QED BY <1>1, <1>4, <1>5 DEF PublishedReturn, PublishedParameter

(* The summaries that a caller is given of the classes of a batch justify  *)
(* each other, and none is given that a budget kept from converging.       *)
THEOREM PublishedAlwaysJustified == Spec => []PublishedAreJustified
  <1> DEFINE Inv == EndInv /\ StaleInv /\ Recorded
  <1>1. Init => Inv
    BY EndInvInit, StaleInvInit, RecordedInit
  <1>2. Inv /\ [Next]_vars => Inv'
    BY EndInvStep, StaleInvStep, RecordedStep DEF StaleInv
  <1>3. Inv => PublishedAreJustified
    BY JustifiedAtTheEnd DEF StaleInv
  <1> QED BY <1>1, <1>2, <1>3, PTL DEF Spec
=============================================================================
