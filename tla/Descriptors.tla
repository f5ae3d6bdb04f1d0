----------------------------- MODULE Descriptors ----------------------------
(***************************************************************************)
(* The parser of field and method descriptors of types/descriptor.rs, and  *)
(* what it has in common with the parser of generic signatures             *)
(* (types/generic.rs): a cursor over a text.                               *)
(*                                                                         *)
(* A text is a sequence of cells.  Punctuation and the tags of types are   *)
(* cells of their own, and so is a name or any part of one; no name begins *)
(* with a tag.  What a parser returns is NoParse (None or an error in the  *)
(* code) or Some: the cursor behind what it has read, and the value.       *)
(***************************************************************************)
EXTENDS Integers, Sequences, FiniteSetsExt

NoParse == [ok |-> FALSE]
Some(at, value) == [ok |-> TRUE, at |-> at, value |-> value]

(* The question mark: go on with what was read, if anything was.           *)
Then(read, Next(_)) == IF read.ok THEN Next(read) ELSE NoParse

Peek(text, at) == IF at <= Len(text) THEN text[at] ELSE "end"
Closed(text, at, cell, value) ==
    IF Peek(text, at) = cell THEN Some(at + 1, value) ELSE NoParse

(* A name that is not empty, up to one of the cells that end it.           *)
UntilAny(text, at, terminators) ==
    LET end == Min({i \in at..Len(text) : text[i] \in terminators} \cup {Len(text) + 1})
    IN  IF end <= at THEN NoParse ELSE Some(end, SubSeq(text, at, end - 1))

IsClassName(name) == \A i \in DOMAIN name : name[i] \notin {".", ";", "[", "(", ")"}

Primitives == {"Z", "B", "C", "S", "I", "F", "J", "D"}
Primitive(tag) == [k |-> "primitive", tag |-> tag]
Void == [k |-> "void"]

(* Mutation: what follows a signature is not looked at.                    *)
Prefix(text, read) == read

(* Nothing may follow.                                                     *)
Whole(text, read) == IF read.ok /\ read.at = Len(text) + 1 THEN read ELSE NoParse

-----------------------------------------------------------------------------
(* Descriptors.                                                            *)

Reference(name) == [k |-> "reference", name |-> name]
Array(dimensions, element) ==
    [k |-> "array", dimensions |-> dimensions, element |-> element]

(* Dimensions are counted in eight bits.                                   *)
MaxDimensions == 255

ReferenceAt(text, at) ==
    Then(UntilAny(text, at, {";"}), LAMBDA name :
        IF ~IsClassName(name.value) THEN NoParse
        ELSE Closed(text, name.at, ";", Reference(name.value)))

(* Behind the first bracket: where the brackets end is the element.        *)
ElementAt(text, at) == Min({i \in at..(Len(text) + 1) : Peek(text, i) # "["})

RECURSIVE FieldTypeAt(_, _)
FieldTypeAt(text, at) ==
    LET tag == Peek(text, at)
        inner == ElementAt(text, at + 1)
        dimensions == inner - at
    IN  CASE tag \in Primitives -> Some(at + 1, Primitive(tag))
          [] tag = "L" -> ReferenceAt(text, at + 1)
          [] tag = "[" /\ dimensions <= MaxDimensions ->
                Then(FieldTypeAt(text, inner), LAMBDA element :
                    Some(element.at, Array(dimensions, element.value)))
          [] OTHER -> NoParse

RECURSIVE ParametersFrom(_, _, _)
ParametersFrom(text, at, read) ==
    IF Peek(text, at) = ")" THEN Some(at + 1, read)
    ELSE Then(FieldTypeAt(text, at), LAMBDA parameter :
            ParametersFrom(text, parameter.at, Append(read, parameter.value)))

-----------------------------------------------------------------------------
ParseTypeDescriptor(text) == Whole(text, FieldTypeAt(text, 1))

ParseMethodDescriptor(text) ==
    IF Peek(text, 1) # "(" THEN NoParse
    ELSE Then(ParametersFrom(text, 2, <<>>), LAMBDA parameters :
            LET returns == IF Peek(text, parameters.at) = "V" THEN Some(parameters.at + 1, Void)
                           ELSE FieldTypeAt(text, parameters.at)
            IN  Then(returns, LAMBDA type :
                    Whole(text, Some(type.at, [parameters |-> parameters.value,
                                               returns |-> type.value]))))
=============================================================================
