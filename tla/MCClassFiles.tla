---------------------------- MODULE MCClassFiles ----------------------------
(***************************************************************************)
(* Class files for TLC: files written from classes, in which frames, local *)
(* variable tables and other attributes come in every order, and files     *)
(* that are cut off or have a wrong number somewhere.                      *)
(***************************************************************************)
EXTENDS Integers, Sequences, FiniteSets, TLC
LOCAL INSTANCE SequencesExt

-----------------------------------------------------------------------------
(* The constants: texts are at their index, the number of a text is 200    *)
(* and its index, and 7 is a long or two small constants.                  *)
TheClass == 2
Superclass == 4
Interface == 6
Code == 9
Frames == 10
VariableTable == 11
Lines == 12
MethodM == 13
MethodN == 14
NoParameters == 15
IntType == 16
ByteType == 17
Reference == 18
ConstantCount == 19

TextOf(i) == <<200 + i>>
MCCode == TextOf(Code)
MCFrames == TextOf(Frames)
MCTable == TextOf(VariableTable)
MCIntegralTypesOf == (TextOf(IntType) :> {"int"}) @@ (TextOf(ByteType) :> {"byte"})

Utf8(i) == <<1, 1, 200 + i>>
PoolOf(wide) ==
    <<ConstantCount>> \o Utf8(1) \o <<7, 1>> \o Utf8(3) \o <<7, 3>> \o Utf8(5) \o <<7, 5>>
    \o (IF wide THEN <<5, 0>> ELSE <<3, 0, 3, 0>>)
    \o FlattenSeq([i \in 1..10 |-> Utf8(8 + i)])

-----------------------------------------------------------------------------
(* Entries whose code has two cells: an int, one past 2^16, one past the   *)
(* code, a byte and a reference.                                           *)
Entries == <<0, 2, MethodM, IntType, 1>> \o <<65535, 2, MethodM, IntType, 1>>
           \o <<0, 3, MethodM, IntType, 1>> \o <<1, 1, MethodM, ByteType, 2>>
           \o <<0, 1, MethodM, Reference, 1>>
HintsOfEntries == <<[start |-> 0, end |-> 2, local |-> 1, types |-> {"int"}],
                    [start |-> 1, end |-> 2, local |-> 2, types |-> {"byte"}]>>

Attribute(name, body) == <<name, Len(body)>> \o body
Kinds == {"frames", "table", "badTable", "lines"}
Nested(kind) ==
    CASE kind = "frames" -> Attribute(Frames, <<1, 5, 5>>)
      [] kind = "table" -> Attribute(VariableTable, <<5>> \o Entries)
      [] kind = "badTable" -> Attribute(VariableTable, <<5>> \o Entries \o <<0>>)
      [] kind = "lines" -> Attribute(Lines, <<0>>)

(* A method is [name, nested, before]: what is in its Code attribute, and  *)
(* whether an attribute of the name StackMapTable stands in front of it.   *)
EncodeCode(nested) ==
    Attribute(Code, <<3, 3, 2, 88, 89, 1, 0, 1, 1, 0, Len(nested)>>
                    \o FlattenSeq([i \in DOMAIN nested |-> Nested(nested[i])]))
EncodeMethod(method) ==
    <<1, method.name, NoParameters>>
    \o (IF method.before THEN <<2>> \o Attribute(Frames, <<5>>) ELSE <<1>>)
    \o EncodeCode(method.nested)

Encode(class) ==
    <<7, 7, 7>> \o PoolOf(class.wide) \o <<33, class.this, Superclass, 1, Interface>>
    \o <<1, 0, MethodM, IntType, 1>> \o Attribute(Lines, <<0>>)
    \o <<Len(class.methods)>>
    \o FlattenSeq([i \in DOMAIN class.methods |-> EncodeMethod(class.methods[i])])
    \o <<1>> \o Attribute(Lines, <<0, 0>>)

NotFrames(kind) == kind # "frames"
WithoutFrames(class) ==
    [class EXCEPT !.methods =
        [i \in DOMAIN @ |-> [@[i] EXCEPT !.nested = SelectSeq(@, NotFrames)]]]

DeclaredHints(method) ==
    FlattenSeq([i \in DOMAIN method.nested |->
        IF method.nested[i] = "table" THEN HintsOfEntries ELSE <<>>])

-----------------------------------------------------------------------------
SeqsUpTo(n) == UNION {[1..k -> Kinds] : k \in 0..n}
Method(name, nested, before) == [name |-> name, nested |-> nested, before |-> before]
ClassWith(this, wide, methods) == [this |-> this, wide |-> wide, methods |-> methods]

Singles ==
    {ClassWith(TheClass, wide, <<Method(MethodM, nested, wide)>>) :
        nested \in SeqsUpTo(3), wide \in BOOLEAN}
Pairs ==
    {ClassWith(TheClass, TRUE, <<Method(MethodM, a, FALSE), Method(MethodN, b, FALSE)>>) :
        a \in SeqsUpTo(1), b \in SeqsUpTo(2)}
Intact == {[batch |-> <<Encode(class)>>, classes |-> <<class>>] : class \in Singles \cup Pairs}

(* Three files, one of which has everything, spoiled at one place.         *)
Rich(this) ==
    ClassWith(this, TRUE, <<Method(MethodM, <<"table", "frames", "lines">>, TRUE),
                            Method(MethodM, <<"frames">>, FALSE)>>)
Spoiled(file) ==
    {SubSeq(file, 1, n) : n \in 0..(Len(file) - 1)}
    \cup {[file EXCEPT ![i] = @ + 1] : i \in 1..Len(file)}
    \cup {[file EXCEPT ![i] = @ - 1] : i \in {j \in 1..Len(file) : file[j] > 0}}
    \cup {[file EXCEPT ![i] = 0] : i \in 1..Len(file)}
    \cup {Append(file, 0)}
Small(nested) == ClassWith(TheClass, FALSE, <<Method(MethodM, nested, FALSE)>>)
SpoiledFiles ==
    {[batch |-> <<file>>, classes |-> <<>>] :
        file \in UNION {Spoiled(rich) :
                           rich \in {Encode(Rich(TheClass)),
                                     Encode(Small(<<"frames", "table">>)),
                                     Encode(Small(<<"badTable", "frames", "frames">>))}}}

Several == {[batch |-> <<Encode(Rich(a)), Encode(Rich(b))>>, classes |-> <<Rich(a), Rich(b)>>] :
               a, b \in {TheClass, Interface}}

Cases == Intact \cup SpoiledFiles \cup Several
MCBatches == {case.batch : case \in Cases}
=============================================================================
