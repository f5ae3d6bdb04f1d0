-------------------------------- MODULE Cfg --------------------------------
(***************************************************************************)
(* The control-flow graph of a method: cfg/build.rs and cfg/graph.rs.      *)
(* A block is named by the offset of its first instruction.                *)
(* A handler is a record: from, to (exclusive), at and catchType.          *)
(***************************************************************************)
EXTENDS Transfer

Offsets(method) == DOMAIN method.code

EndsBlock(op) ==
    op \in ConditionOps \cup CompareOps \cup SwitchOps \cup ValueReturnOps
              \cup {"goto", "jsr", "ret", "return", "athrow"}

TerminatesExecution(op) == op \in ValueReturnOps \cup {"return", "athrow"}

(* Instructions that may throw; cfg/build.rs and engine/propagate.rs each  *)
(* have a list of their own, with the same members.                        *)
MayThrow(op) ==
    op \in {"ldc", "aaload", "idiv", "ldiv", "getstatic", "putstatic", "getfield",
            "putfield", "invokedynamic", "new", "newarray", "multianewarray",
            "arraylength", "athrow", "checkcast", "instanceof", "monitor"}
           \cup InvokeOps \cup PrimitiveLoadOps \cup ArrayStoreOps

InstructionTargets(i) ==
    IF i.op \in SwitchOps THEN i.targets        \* the default target first
    ELSE IF i.op \in ConditionOps \cup CompareOps \cup {"goto", "jsr"} THEN <<i.target>>
    ELSE <<>>

(* Block starts: the entry, every valid target, whatever follows a block's *)
(* end, and the bounds and targets of the handlers.                        *)
BlockStarts(method) ==
    LET code == method.code
        targets == UNION {Range(InstructionTargets(code[n])) : n \in DOMAIN code}
        after == {n + 1 : n \in {m \in DOMAIN code : EndsBlock(code[m].op)}}
        handlers == UNION {{h.from, h.to, h.at} : h \in Range(method.handlers)}
    IN  ({FirstOffset} \cup targets \cup after \cup handlers) \cap Offsets(method)

(* The last offset of the block that starts at b.                          *)
BlockEnd(method, b) ==
    LET later == {n \in BlockStarts(method) : n > b}
    IN  IF later = {} THEN Len(method.code)
        ELSE CHOOSE last \in Offsets(method) :
                 last + 1 \in later /\ \A n \in later : last < n

Edge(kind, target) == [target |-> target, kind |-> kind]
FallThrough(method, at) ==
    IF at < Len(method.code) THEN <<Edge("fallThrough", at + 1)>> ELSE <<>>

(* The wanted successors of the block's last instruction, in order, before *)
(* targets that are no instruction are dropped and repeated edges merged.  *)
OrdinarySuccessors(method, at) ==
    LET i == method.code[at]
    IN  CASE i.op \in {"goto", "jsr"} -> <<Edge("branch", i.target)>>
          [] i.op \in ConditionOps \cup CompareOps ->
                <<Edge("branch", i.target)>> \o FallThrough(method, at)
          [] i.op \in SwitchOps -> [n \in DOMAIN i.targets |-> Edge("switch", i.targets[n])]
          [] TerminatesExecution(i.op) \/ i.op = "ret" -> <<>>
          [] OTHER -> FallThrough(method, at)

(* The members of a sequence that stand at the given places, in order.     *)
Picked(s, places) ==
    LET picked[n \in 0..Len(s)] ==
            IF n = 0 THEN <<>>
            ELSE IF n \in places THEN Append(picked[n - 1], s[n]) ELSE picked[n - 1]
    IN  picked[Len(s)]

(* push_edge and push_exception_edge: the first of equal edges stays.      *)
WithoutRepeats(edges) ==
    Picked(edges, {n \in DOMAIN edges : \A earlier \in 1..(n - 1) : edges[earlier] # edges[n]})

Successors(method, b) ==
    LET wanted == OrdinarySuccessors(method, BlockEnd(method, b))
    IN  WithoutRepeats(Picked(wanted, {n \in DOMAIN wanted : wanted[n].target \in Offsets(method)}))

(* The edges from one instruction to the handlers that cover it.           *)
ExceptionEdges(method, at) ==
    LET covers(h) == h.from <= at /\ at < h.to /\ h.at \in Offsets(method)
        live == IF MayThrow(method.code[at].op)
                THEN Picked(method.handlers,
                            {n \in DOMAIN method.handlers : covers(method.handlers[n])})
                ELSE <<>>
    IN  [n \in DOMAIN live |->
            [at |-> at, target |-> live[n].at, catchType |-> live[n].catchType]]

ExceptionSuccessors(method, b) ==
    LET last == BlockEnd(method, b)
        edges[n \in 0..(last - b + 1)] ==
            IF n = 0 THEN <<>> ELSE edges[n - 1] \o ExceptionEdges(method, b + n - 1)
    IN  WithoutRepeats(edges[last - b + 1])

BuildCfg(method) ==
    [b \in BlockStarts(method) |->
        [last |-> BlockEnd(method, b),
         successors |-> Successors(method, b),
         exceptions |-> ExceptionSuccessors(method, b)]]

(* A method as the solver works on it: with its graph.                     *)
WithGraph(method) ==
    [f \in DOMAIN method \cup {"graph"} |->
        IF f = "graph" THEN BuildCfg(method) ELSE method[f]]

(* A target that is no instruction is reported; a handler's end is not.    *)
CfgDiagnostics(method) ==
    LET targets == UNION {Range(InstructionTargets(method.code[n])) : n \in DOMAIN method.code}
        wanted == targets \cup UNION {{h.from, h.at} : h \in Range(method.handlers)}
    IN  IF method.code # <<>> /\ wanted \ Offsets(method) # {}
        THEN {"InvalidControlFlow"} ELSE {}
=============================================================================
