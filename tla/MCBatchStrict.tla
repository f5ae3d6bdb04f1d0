--------------------------- MODULE MCBatchStrict ---------------------------
(***************************************************************************)
(* One batch is analyzed twice under one bound, first leniently and then   *)
(* strictly.  M.f tells whether P.g returned null, and P.g has each body   *)
(* of a list; M is analyzed first, when nothing is known of P.g.           *)
(***************************************************************************)
EXTENDS MCBytecode, BatchAnalysis, TLC

MCObject == "java/lang/Object"
MCReferenceOrder == <<Exact("A"), Exact("B"), Exact("java/lang/Object")>>

FMember == Member("M", "f", <<ObjectDescriptor>>, ObjectDescriptor)
GMember == Member("P", "g", <<ObjectDescriptor>>, ObjectDescriptor)

(* x = P.g(p); return x == null ? null : x                                 *)
TellNull ==
    <<Local("aload", 0), Invoke("invokestatic", GMember), Local("astore", 1),
      Local("aload", 1), To("ifnonnull", 8), I("aconst_null"), I("areturn"),
      Local("aload", 1), I("areturn")>>

MethodOf(member, code) ==
    WithGraph([owner |-> member.owner, name |-> member.name, constructor |-> FALSE,
               static |-> TRUE, params |-> member.descriptor.params,
               ret |-> member.descriptor.ret, maxLocals |-> 2, maxStack |-> 4,
               hints |-> {}, code |-> code, handlers |-> <<>>])
ClassOf(member, code) ==
    [name |-> member.owner, final |-> FALSE, finalMethods |-> {},
     methods |-> <<MethodOf(member, code)>>]

MCBatches ==
    {<<ClassOf(FMember, TellNull), ClassOf(GMember, CommonCode(kind, Invoke("invokestatic", FMember)))>> :
        kind \in {"null", "new", "same", "call"}}

(* Two blocks may be visited in the analysis of a method: M.f takes three  *)
(* until it is known that P.g returns null.                                *)
Config(strict) ==
    [unbounded |-> FALSE, maxWorkItems |-> 2, maxBlockIterations |-> 2, strict |-> strict]
NoExternal ==
    [supplied |-> <<>>, suppliedFields |-> <<>>, hierarchy |-> NoHierarchy,
     batch |-> [returns |-> <<>>, parameters |-> <<>>, finalClasses |-> {}, finalMethods |-> {}]]

VARIABLES
    batch, config, worklist, scheduled, analyzed, analyses, returns, parameters,
    reanalysisItems, changed, pending, complete, outcome,
    reported        \* what the lenient analysis ended with, before the strict one

batchVars == <<batch, config, worklist, scheduled, analyzed, analyses, returns, parameters,
               reanalysisItems, changed, pending, complete, outcome>>

Summaries == INSTANCE BatchSummaries WITH
    Batches <- MCBatches,
    Configs <- {Config(FALSE), Config(TRUE)},
    ClassCount <- LAMBDA b : Len(b),
    MethodCount <- LAMBDA b, c : Len(b[c].methods),
    Callers <- BatchCallers,
    Values <- {},
    NoValue <- None,
    Indices <- {1},
    NoIndex <- NoParameter,
    Kinds <- {},
    Analysis <- LAMBDA b, c, env : AnalyzeClassOf(b, c, env, NoExternal, Config(FALSE))

NotYet == {"not yet"}
Init == Summaries!Init /\ ~config.strict /\ reported = NotYet

Analyze == Summaries!Next /\ UNCHANGED reported

(* The same call once more, with with_strict(true).                        *)
Again ==
    /\ outcome = "ok" /\ reported = NotYet
    /\ reported' = UNION {Summaries!Diagnostics(c) : c \in analyzed}
    /\ batch' = batch /\ config' = Config(TRUE)
    /\ worklist' = [n \in DOMAIN batch |-> n] /\ scheduled' = DOMAIN batch
    /\ analyzed' = {} /\ analyses' = <<>>
    /\ returns' = [c \in DOMAIN batch |-> [m \in DOMAIN batch[c].methods |-> None]]
    /\ parameters' = [c \in DOMAIN batch |-> [m \in DOMAIN batch[c].methods |-> NoParameter]]
    /\ reanalysisItems' = 0 /\ changed' = {} /\ pending' = <<>>
    /\ complete' = TRUE /\ outcome' = "running"

Next == Analyze \/ Again
Spec == Init /\ [][Next]_<<batchVars, reported>>

-----------------------------------------------------------------------------
(* "Diagnostics are returned in ClassInference::diagnostics.  In strict    *)
(* mode, the first warning or error is reported as StrictAnalysis instead" *)
(* (diagnostic.rs): what strict mode rejects, the lenient one reports.     *)
StrictRejectsReported == outcome = "strictError" => reported # {}
=============================================================================
