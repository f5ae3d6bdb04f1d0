---------------------------- MODULE MCSignatures ----------------------------
(***************************************************************************)
(* Descriptors and generic signatures under TLC: texts written from the    *)
(* grammars that class files follow (JVMS 4.3 and 4.7.9.1), and such texts *)
(* with one cell wrong.                                                    *)
(***************************************************************************)
EXTENDS GenericSignatures, Descriptors, SequencesExt

VARIABLES
    signature,  \* [kind, text, written]: the text, and what it was written from
    parsed      \* what the parser made of it
sigVars == <<signature, parsed>>

-----------------------------------------------------------------------------
(* The grammar, as a writer.  In front of the bounds of a formal parameter *)
(* is the place of its class bound, which may be empty.                    *)
RECURSIVE WriteType(_)
WriteArgument(argument) ==
    IF argument = Unbounded THEN <<"*">>
    ELSE (IF argument.wildcard = "" THEN <<>> ELSE <<argument.wildcard>>) \o WriteType(argument.type)
WriteSegment(segment) ==
    segment.name
    \o IF segment.arguments = <<>> THEN <<>>
       ELSE <<"<">> \o FlattenSeq([i \in DOMAIN segment.arguments |->
                                      WriteArgument(segment.arguments[i])]) \o <<">">>
WriteType(type) ==
    CASE type.k = "primitive" -> <<type.tag>>
      [] type.k = "void" -> <<"V">>
      [] type.k = "variable" -> <<"T">> \o type.name \o <<";">>
      [] type.k = "array" ->
            (IF "dimensions" \in DOMAIN type THEN [i \in 1..type.dimensions |-> "["] ELSE <<"[">>)
            \o WriteType(type.element)
      [] type.k = "reference" -> <<"L">> \o type.name \o <<";">>
      [] type.k = "class" ->
            <<"L">> \o WriteSegment(type.first)
            \o FlattenSeq([i \in DOMAIN type.nested |-> <<".">> \o WriteSegment(type.nested[i])])
            \o <<";">>

WriteAll(before, types) == FlattenSeq([i \in DOMAIN types |-> before \o WriteType(types[i])])

OmitsClassBound(formal) == "omits" \in DOMAIN formal
WriteFormal(formal) ==
    formal.name \o (IF OmitsClassBound(formal) THEN <<":">> ELSE <<>>)
    \o WriteAll(<<":">>, formal.bounds)
WriteFormals(formals) ==
    IF formals = <<>> THEN <<>>
    ELSE <<"<">> \o FlattenSeq([i \in DOMAIN formals |-> WriteFormal(formals[i])]) \o <<">">>

Write(kind, value) ==
    CASE kind \in {"field", "descriptor"} -> WriteType(value)
      [] kind = "methodDescriptor" -> <<"(">> \o WriteAll(<<>>, value.parameters) \o <<")">>
                                      \o WriteType(value.returns)
      [] kind = "class" -> WriteFormals(value.parameters) \o WriteType(value.superclass)
                           \o WriteAll(<<>>, value.interfaces)
      [] kind = "method" -> WriteFormals(value.parameters) \o <<"(">>
                            \o WriteAll(<<>>, value.arguments) \o <<")">>
                            \o WriteType(value.returns) \o WriteAll(<<"^">>, value.throws)

-----------------------------------------------------------------------------
E1 == <<"E1">>
E2 == <<"E2">>
Object == Class(Segment(<<"Object">>, <<>>), <<>>)
Ordered(argument) == Class(Segment(<<"Ordered">>, <<argument>>), <<>>)
Simple == {Variable(E1), Object, ArrayOf(Primitive("J"))}
Arguments == {Unbounded} \cup {Exactly(t) : t \in Simple}
             \cup {Bounded(w, t) : w \in {"+", "-"}, t \in Simple}
Types ==
    Simple
    \cup {Class(Segment(<<"Map">>, arguments), nested) :
             arguments \in {<<>>} \cup {<<a>> : a \in Arguments} \cup {<<Unbounded, Exactly(Object)>>},
             nested \in {<<>>} \cup {<<Segment(<<"Entry">>, arguments)>> :
                                        arguments \in {<<>>} \cup {<<a>> : a \in Arguments}}
                        \cup {<<Segment(<<"Entry">>, <<>>), Segment(<<"Node">>, <<Unbounded>>)>>}}
    \cup {ArrayOf(Ordered(a)) : a \in Arguments}
    \cup {Ordered(Exactly(Ordered(a))) : a \in Arguments}

Formal(name, bounds) == [name |-> name, bounds |-> bounds]
OnlyInterfaces(name, bounds) == [name |-> name, bounds |-> bounds, omits |-> TRUE]
Bounds == {<<Object>>, <<Ordered(Exactly(Variable(E1)))>>,
           <<Object, Ordered(Exactly(Variable(E1)))>>}
FormalsOf(name) == {Formal(name, b) : b \in Bounds} \cup {OnlyInterfaces(name, b) : b \in Bounds}
FormalLists == {<<>>} \cup {<<f>> : f \in FormalsOf(E1)}
               \cup {<<f, g>> : f \in FormalsOf(E1), g \in FormalsOf(E2)}

TypeDescriptors ==
    {Primitive(tag) : tag \in Primitives} \cup {Reference(<<"Object">>)}
    \cup {Array(dimensions, element) : dimensions \in {1, 2, MaxDimensions},
                                       element \in {Primitive("J"), Reference(<<"Object">>)}}
SomeTypes == {<<>>, <<Object>>, <<Ordered(Unbounded), Object>>}
Written(kind) ==
    CASE kind = "field" -> Types
      [] kind = "descriptor" -> TypeDescriptors
      [] kind = "methodDescriptor" ->
            [parameters : {<<>>} \cup {<<d>> : d \in TypeDescriptors}
                          \cup {<<c, d>> : c, d \in {Primitive("D"), Reference(<<"Object">>)}},
             returns : {Void} \cup TypeDescriptors]
      [] kind = "class" ->
            [parameters : FormalLists, superclass : {Object, Ordered(Exactly(Variable(E2)))},
             interfaces : SomeTypes]
      [] kind = "method" ->
            [parameters : FormalLists,
             arguments : SomeTypes \cup {<<Primitive("I"), Variable(E1), Primitive("D")>>},
             returns : {Void, Primitive("Z"), Variable(E1)},
             throws : {<<>>, <<Object>>, <<Variable(E2), Object>>}]

Kinds == {"field", "class", "method", "descriptor", "methodDescriptor"}
WrittenFrom(kind, value) == [kind |-> kind, text |-> Write(kind, value), written |-> <<value>>]
Unspoiled == UNION {{WrittenFrom(kind, value) : value \in Written(kind)} : kind \in Kinds}

(* Texts that have everything, with a cell left out, put in or replaced.   *)
Rich(kind) ==
    CASE kind = "field" -> Class(Segment(<<"Map">>, <<Bounded("+", Variable(E1)), Unbounded>>),
                                 <<Segment(<<"Entry">>, <<Exactly(Object)>>)>>)
      [] kind = "class" -> [parameters |-> <<Formal(E1, <<Object, Ordered(Unbounded)>>)>>,
                            superclass |-> Object, interfaces |-> <<Object>>]
      [] kind = "method" -> [parameters |-> <<Formal(E1, <<Object>>)>>,
                             arguments |-> <<Primitive("I"), Object>>,
                             returns |-> Void, throws |-> <<Variable(E1)>>]
      [] kind = "descriptor" -> Array(2, Reference(<<"Map", "E1">>))
      [] kind = "methodDescriptor" -> [parameters |-> <<Primitive("I"), Array(1, Primitive("J"))>>,
                                       returns |-> Reference(<<"Object">>)]
Cells == {"<", ">", "*", "+", ":", ";", ".", "[", "(", ")", "^", "L", "T", "V", "I", "E1"}
Spoiled(text) ==
    {SubSeq(text, 1, n) : n \in 0..(Len(text) - 1)}
    \cup {RemoveAt(text, i) : i \in DOMAIN text}
    \cup {[text EXCEPT ![i] = cell] : i \in DOMAIN text, cell \in Cells}
    \cup {InsertAt(text, i, cell) : i \in 1..(Len(text) + 1), cell \in Cells}
SpoiledTexts ==
    UNION {{[kind |-> kind, text |-> text, written |-> <<>>] :
               text \in Spoiled(Write(kind, Rich(kind)))} : kind \in Kinds}
    \cup {[kind |-> "descriptor", text |-> Write("descriptor", Array(MaxDimensions + 1, Primitive("I"))),
           written |-> <<>>]}

-----------------------------------------------------------------------------
NotParsed == [ok |-> FALSE, at |-> 0]
SigInit == signature \in Unspoiled \cup SpoiledTexts /\ parsed = NotParsed
ParseSignature ==
    /\ parsed = NotParsed
    /\ parsed' = CASE signature.kind = "descriptor" -> ParseTypeDescriptor(signature.text)
                    [] signature.kind = "methodDescriptor" -> ParseMethodDescriptor(signature.text)
                    [] OTHER -> Parse(signature.kind, signature.text)
    /\ UNCHANGED signature
SigSpec == SigInit /\ [][ParseSignature]_sigVars

-----------------------------------------------------------------------------
(* What the types of the code can say of a signature: its formal           *)
(* parameters have a list of bounds, whichever is the first.               *)
ValueOf(kind, value) ==
    IF kind \notin {"class", "method"} THEN value
    ELSE [value EXCEPT !.parameters = [i \in DOMAIN @ |-> Formal(@[i].name, @[i].bounds)]]

IsWritten == parsed # NotParsed /\ signature.written # <<>>
SameAsWritten ==
    parsed.ok /\ parsed.value = ValueOf(signature.kind, signature.written[1])

(* "Parses a class generic signature", "Parses a method generic signature" *)
(* (generic.rs): every signature of the grammar is parsed as written.      *)
EverySignatureParses == IsWritten => SameAsWritten

ClassBoundsPresent(kind, value) ==
    kind \in {"class", "method"} => \A i \in DOMAIN value.parameters : ~OmitsClassBound(value.parameters[i])

WithoutEmptyLists(text) ==
    LET Dropped(i) == \/ text[i] = "<" /\ Peek(text, i + 1) = ">"
                      \/ text[i] = ">" /\ i > 1 /\ text[i - 1] = "<"
        kept == SelectSeq([i \in DOMAIN text |-> i], LAMBDA i : ~Dropped(i))
    IN  [j \in DOMAIN kept |-> text[kept[j]]]

(* A descriptor, and a signature whose formal parameters have their class  *)
(* bounds, is parsed as written; and of any text, well formed or not, that *)
(* is accepted, nothing is lost or added but lists of nothing: the value   *)
(* written again is the text ("uses JVM generic-signature syntax           *)
(* verbatim").                                                             *)
NothingLostInParsing ==
    /\ IsWritten /\ ClassBoundsPresent(signature.kind, signature.written[1]) => SameAsWritten
    /\ parsed.ok => WithoutEmptyLists(Write(signature.kind, parsed.value))
                      = WithoutEmptyLists(signature.text)

(* A signature without generics is the descriptor of its type; what is not *)
(* a type to one of the parsers is not a type to the other.                *)
RECURSIVE Erased(_)
Erased(type) ==
    CASE type.k = "class" -> Reference(type.first.name)
      [] type.k = "array" ->
            LET element == Erased(type.element)
            IN  IF element.k = "array" THEN Array(element.dimensions + 1, element.element)
                ELSE Array(1, element)
      [] OTHER -> type
RECURSIVE IsErased(_)
IsErased(type) ==
    CASE type.k = "class" -> type.nested = <<>>
      [] type.k = "array" -> IsErased(type.element)
      [] OTHER -> type.k = "primitive"
Dimensions(text) == Cardinality({i \in DOMAIN text : text[i] = "["})

(* Two parsers read types, one for descriptors and one for signatures: of  *)
(* a text without brackets of arguments they make the same type, or both   *)
(* refuse it, whatever is wrong in it.                                     *)
ParsersAgree ==
    LET text == signature.text
        type == ParseFieldType(text)
    IN  parsed # NotParsed /\ signature.kind = "descriptor"
        /\ Dimensions(text) <= MaxDimensions /\ "<" \notin ToSet(text) =>
            /\ parsed.ok <=> type.ok /\ IsErased(type.value)
            /\ parsed.ok => parsed.value = Erased(type.value)
=============================================================================
