----------------------------- MODULE MCBytecode -----------------------------
(***************************************************************************)
(* The programs of the runs that analyze bytecode: descriptors, member     *)
(* references and instructions as modules Transfer and Cfg read them.      *)
(***************************************************************************)
EXTENDS Transfer

Class(c) == [d |-> "class", c |-> c]

Member(owner, name, params, ret) ==
    [owner |-> owner, name |-> name, descriptor |-> [params |-> params, ret |-> ret]]
Constructor(c) == Member(c, "<init>", <<>>, Void)

I(op) == [op |-> op]
Local(op, n) == [op |-> op, local |-> n]
To(op, n) == [op |-> op, target |-> n]
Invoke(op, m) == [op |-> op, member |-> m]
CastTo(c) == [op |-> "checkcast", type |-> Exact(c)]
NewOf(c) == <<[op |-> "new", class |-> c], I("dup"), Invoke("invokespecial", Constructor(c))>>

(* One object comes from each place.                                       *)
OnePerPlace(place) == {place}

(* Bodies of a static method with one parameter, p, and one more local, x, *)
(* around a call, c.                                                       *)
CommonCode(kind, call) ==
    CASE kind = "null" -> <<I("aconst_null"), I("areturn")>>
      [] kind = "new" -> NewOf("A") \o <<I("areturn")>>
      [] kind = "same" -> <<Local("aload", 0), I("areturn")>>
      [] kind = "call" -> <<Local("aload", 0), call, I("areturn")>>
      [] kind = "callNull" -> <<I("aconst_null"), call, I("areturn")>>
      [] kind = "orNew" ->      \* x = c(p); return x == null ? new B() : x
            <<Local("aload", 0), call, Local("astore", 1), Local("aload", 1), To("ifnonnull", 10)>>
            \o NewOf("B") \o <<Local("astore", 1), Local("aload", 1), I("areturn")>>
      [] kind = "retry" ->      \* return p == null ? c(new A()) : p
            <<Local("aload", 0), To("ifnonnull", 8)>>
            \o NewOf("A") \o <<call, I("areturn"), Local("aload", 0), I("areturn")>>
=============================================================================
