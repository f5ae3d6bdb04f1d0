-------------------------- MODULE GenericSignatures -------------------------
(***************************************************************************)
(* The parser of generic signatures of types/generic.rs, one operator for  *)
(* each rule of the grammar.                                               *)
(***************************************************************************)
EXTENDS Descriptors

Variable(name) == [k |-> "variable", name |-> name]
ArrayOf(type) == [k |-> "array", element |-> type]
Class(first, nested) == [k |-> "class", first |-> first, nested |-> nested]
Segment(name, arguments) == [name |-> name, arguments |-> arguments]
Exactly(type) == [wildcard |-> "", type |-> type]
Bounded(wildcard, type) == [wildcard |-> wildcard, type |-> type]
Unbounded == [wildcard |-> "*"]

-----------------------------------------------------------------------------
RECURSIVE TypeAt(_, _), ClassAt(_, _), Items(_, _, _, _, _), Repeated(_, _, _, _, _)

ArgumentAt(text, at) ==
    LET wildcard == Peek(text, at)
        Bound(type) == Some(type.at, Bounded(wildcard, type.value))
        Itself(type) == Some(type.at, Exactly(type.value))
    IN  CASE wildcard = "*" -> Some(at + 1, Unbounded)
          [] wildcard \in {"+", "-"} -> Then(TypeAt(text, at + 1), Bound)
          [] OTHER -> Then(TypeAt(text, at), Itself)

ArgumentsAt(text, at) ==
    IF Peek(text, at) = "<" THEN Items("argument", ">", text, at + 1, <<>>) ELSE Some(at, <<>>)

SegmentAt(text, at) ==
    Then(UntilAny(text, at, {"<", ".", ";"}), LAMBDA name :
        Then(ArgumentsAt(text, name.at), LAMBDA arguments :
            Some(arguments.at, Segment(name.value, arguments.value))))

(* formals, for one parameter.  The name ends at a colon, and every colon  *)
(* must be followed by a type.                                             *)
FormalAt(text, at) ==
    Then(UntilAny(text, at, {":"}), LAMBDA name :
        Then(IF Peek(text, name.at) = ":" THEN Some(name.at, <<>>)
             ELSE Then(TypeAt(text, name.at), LAMBDA bound : Some(bound.at, <<bound.value>>)),
             LAMBDA first :
                Then(Repeated("type", ":", text, first.at, first.value), LAMBDA bounds :
                    Some(bounds.at, [name |-> name.value, bounds |-> bounds.value]))))

Item(kind, text, at) ==
    CASE kind = "type" -> TypeAt(text, at)
      [] kind = "class" -> ClassAt(text, at)
      [] kind = "argument" -> ArgumentAt(text, at)
      [] kind = "segment" -> SegmentAt(text, at)
      [] kind = "formal" -> FormalAt(text, at)

(* Items up to a cell that closes their list.                              *)
Items(kind, close, text, at, read) ==
    IF Peek(text, at) = close THEN Some(at + 1, read)
    ELSE Then(Item(kind, text, at), LAMBDA item :
            Items(kind, close, text, item.at, Append(read, item.value)))

(* Items as long as one more is announced.                                 *)
Repeated(kind, open, text, at, read) ==
    IF Peek(text, at) # open THEN Some(at, read)
    ELSE Then(Item(kind, text, at + 1), LAMBDA item :
            Repeated(kind, open, text, item.at, Append(read, item.value)))

ClassAt(text, at) ==
    Then(SegmentAt(text, at), LAMBDA first :
        IF ~IsClassName(first.value.name) THEN NoParse
        ELSE Then(Repeated("segment", ".", text, first.at, <<>>), LAMBDA nested :
                Closed(text, nested.at, ";", Class(first.value, nested.value))))

TypeAt(text, at) ==
    LET tag == Peek(text, at)
    IN  CASE tag \in Primitives -> Some(at + 1, Primitive(tag))
          [] tag = "T" -> Then(UntilAny(text, at + 1, {";"}), LAMBDA name :
                              Closed(text, name.at, ";", Variable(name.value)))
          [] tag = "[" -> Then(TypeAt(text, at + 1), LAMBDA type :
                              Some(type.at, ArrayOf(type.value)))
          [] tag = "L" -> ClassAt(text, at + 1)
          [] OTHER -> NoParse

-----------------------------------------------------------------------------
Formals(text) ==
    IF Peek(text, 1) = "<" THEN Items("formal", ">", text, 2, <<>>) ELSE Some(1, <<>>)

ParseFieldType(text) == Whole(text, TypeAt(text, 1))

ClassTypeAt(text, at) == IF Peek(text, at) = "L" THEN ClassAt(text, at + 1) ELSE NoParse

ParseClass(text) ==
    Then(Formals(text), LAMBDA parameters :
        Then(ClassTypeAt(text, parameters.at), LAMBDA superclass :
            Then(Repeated("class", "L", text, superclass.at, <<>>), LAMBDA interfaces :
                Whole(text, Some(interfaces.at,
                    [parameters |-> parameters.value, superclass |-> superclass.value,
                     interfaces |-> interfaces.value])))))

ReturnAt(text, at) == IF Peek(text, at) = "V" THEN Some(at + 1, Void) ELSE TypeAt(text, at)

ParseMethod(text) ==
    Then(Formals(text), LAMBDA parameters :
        IF Peek(text, parameters.at) # "(" THEN NoParse
        ELSE Then(Items("type", ")", text, parameters.at + 1, <<>>), LAMBDA arguments :
                Then(ReturnAt(text, arguments.at), LAMBDA returns :
                    Then(Repeated("type", "^", text, returns.at, <<>>), LAMBDA throws :
                        Whole(text, Some(throws.at,
                            [parameters |-> parameters.value, arguments |-> arguments.value,
                             returns |-> returns.value, throws |-> throws.value]))))))

Parse(kind, text) ==
    CASE kind = "field" -> ParseFieldType(text)
      [] kind = "class" -> ParseClass(text)
      [] kind = "method" -> ParseMethod(text)
=============================================================================
