--------------------------- MODULE BatchAnalysis ---------------------------
(***************************************************************************)
(* The bytecode side of the loop of module BatchSummaries: which classes   *)
(* call which methods of a batch, the resolver a class is analyzed with    *)
(* (solver/class/batch.rs, solver/class/resolution.rs), and the loop of    *)
(* module ClassSummaries as a value (solver/class/summaries.rs).           *)
(*                                                                         *)
(* A batch is a sequence of the classes of module ClassAnalysis; env is an *)
(* environment of module BatchSummaries.                                   *)
(***************************************************************************)
EXTENDS ClassAnalysis

KeyIn(batch, c, m) == MethodKey(batch[c].methods[m])

(* Mutation: only calls of static methods are scanned for.                 *)
StaticCallsBatch(i, key) == i.op = "invokestatic" /\ i.member = key

(* A call that the batch may answer: the receiver is not looked at, and    *)
(* interface calls, which nothing answers, are left out.                   *)
CallsBatch(i, key) ==
    i.op \in {"invokevirtual", "invokespecial", "invokestatic"} /\ i.member = key

BatchCallers(batch, c, m) ==
    LET calls(d) == \E method \in Range(batch[d].methods) :
                        \E i \in Range(method.code) : CallsBatch(i, KeyIn(batch, c, m))
    IN  SelectSeq([d \in DOMAIN batch |-> d], calls)

FinalClasses(batch) == {batch[c].name : c \in {d \in DOMAIN batch : batch[d].final}}
FinalMethods(batch) == UNION {batch[c].finalMethods : c \in DOMAIN batch}

(* The tables of the batch by member reference.                            *)
BatchTable(batch, table) ==
    LET entries == UNION {{<<c, m>> : m \in LocalMethods(batch[c])} : c \in DOMAIN batch}
        entry(key) == CHOOSE e \in entries : KeyIn(batch, e[1], e[2]) = key
    IN  [key \in {KeyIn(batch, e[1], e[2]) : e \in entries} |-> table[entry(key)[1]][entry(key)[2]]]

(* What a class of the batch is given: the caller's resolver comes first.  *)
BatchExternal(batch, env, external) ==
    [external EXCEPT !.batch =
        [returns |-> BatchTable(batch, env.returns),
         parameters |-> BatchTable(batch, env.parameters),
         finalClasses |-> FinalClasses(batch), finalMethods |-> FinalMethods(batch)]]

-----------------------------------------------------------------------------
(* The loop of ClassSummaries run to its end.                              *)
EnqueueAll(queue, methods) ==
    FoldLeft(LAMBDA q, m : IF m \in Range(q) THEN q ELSE Append(q, m), queue, methods)

(* What the loop knows after an analysis of method m, and whom it tells.   *)
Learned(class, s, m, result) ==
    LET fields == [f \in LocalFields(class) |->
                      IF result.puts[f] = None THEN s.env.fields[f] ELSE result.puts[f]]
        callers == IF result.ret # s.env.returns[m] \/ result.param # s.env.parameters[m]
                   THEN LocalCallers(class, m) ELSE <<>>
        changed == {f \in LocalFields(class) : fields[f] # s.env.fields[f]}
        told == FoldLeft(LAMBDA q, f : EnqueueAll(q, LocalReaders(class, f)),
                         EnqueueAll(Tail(s.queue), callers), SetToSeq(changed))
    IN  [s EXCEPT !.queue = told,
                  !.env = [returns |-> [@.returns EXCEPT ![m] = result.ret],
                           parameters |-> [@.parameters EXCEPT ![m] = result.param],
                           fields |-> fields],
                  !.analyses = [k \in DOMAIN @ \cup {m} |-> IF k = m THEN result ELSE @[k]]]

RECURSIVE SummarizeFrom(_, _, _, _)
SummarizeFrom(class, external, config, s) ==
    LET m == Head(s.queue)
        again == m \in DOMAIN s.analyses
        counted == IF again THEN [s EXCEPT !.items = @ + 1] ELSE s
    IN  IF s.queue = <<>> THEN s
        ELSE IF again /\ ~config.unbounded /\ s.items + 1 > config.maxWorkItems
             THEN [s EXCEPT !.complete = FALSE]
        ELSE SummarizeFrom(class, external, config,
                 Learned(class, counted, m, AnalysisOf(class, m, s.env, external, config)))

SummarizeClass(class, external, config) ==
    LET methods == LocalMethods(class)
        ended == SummarizeFrom(class, external, config,
                    [queue |-> [m \in methods |-> m], items |-> 0, complete |-> TRUE,
                     analyses |-> <<>>,
                     env |-> [returns |-> [m \in methods |-> None],
                              parameters |-> [m \in methods |-> NoParameter],
                              fields |-> [f \in LocalFields(class) |-> None]]])
        published(s) ==
            [returns |-> [m \in methods |-> IF s.complete THEN s.analyses[m].ret ELSE None],
             parameters |->
                [m \in methods |-> IF s.complete THEN s.analyses[m].param ELSE NoParameter],
             diagnostics |-> UNION {s.analyses[m].diagnostics : m \in methods}
                                \cup (IF s.complete THEN {} ELSE {"AnalysisLimitReached"})]
    IN  published(ended)

(* One class of a batch under the summaries of the others.                 *)
AnalyzeClassOf(batch, c, env, external, config) ==
    SummarizeClass(batch[c], BatchExternal(batch, env, external), config)
=============================================================================
