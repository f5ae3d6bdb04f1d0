------------------------------ MODULE ClassFile ------------------------------
(***************************************************************************)
(* Reading a class file (ir/classfile/reader.rs), taking its verification  *)
(* frames out (ir/classfile/sanitize.rs), and the hints that debug         *)
(* information gives on its locals (ir/classfile/local_variables.rs).      *)
(*                                                                         *)
(* A file is a sequence of cells: one for each number the reader takes in  *)
(* one call, whatever its width, and one for each unit of a payload, so    *)
(* that a length counts cells.  The text of a UTF-8 constant is a sequence *)
(* of cells of its own.  A position is the number of cells consumed, and   *)
(* Torn is the position of a reader that has returned an error.            *)
(***************************************************************************)
EXTENDS Integers, Sequences, FiniteSets, SequencesExt, TLC

CONSTANTS
    CodeAttribute,      \* the names of the attributes, as texts
    StackMapTable,
    LocalVariableTable,
    IntegralTypesOf     \* text of a descriptor -> the integral types it stands for

Torn == -1

(* take: what does not fit the file is an error, which stays one.          *)
Skip(bytes, position, length) ==
    IF position = Torn \/ position + length > Len(bytes) THEN Torn ELSE position + length

(* A count, and behind it as many items of some width.                     *)
SkipCounted(bytes, position, width) ==
    LET items == Skip(bytes, position, 1)
    IN  IF items = Torn THEN Torn ELSE Skip(bytes, items, width * bytes[items])

-----------------------------------------------------------------------------
(* The constant pool.                                                      *)
Utf8Tag == 1
WideTags == {5, 6}          \* a long or a double takes two indices
ClassTag == 7
KnownTags == {1} \cup (3..12) \cup (15..20)

ConstantEnd(bytes, position) ==
    LET payload == Skip(bytes, position, 1)
    IN  IF payload = Torn \/ bytes[payload] \notin KnownTags THEN Torn
        ELSE IF bytes[payload] = Utf8Tag THEN SkipCounted(bytes, payload, 1)
        ELSE Skip(bytes, payload, 1)

Indices(tag) == IF tag \in WideTags THEN 2 ELSE 1

(* The constants from an index on, and where they end.                     *)
RECURSIVE ConstantsFrom(_, _, _, _)
ConstantsFrom(bytes, position, index, count) ==
    IF index >= count THEN [at |-> position, constants |-> [i \in {} |-> 0]]
    ELSE LET end == ConstantEnd(bytes, position)
         IN  IF end = Torn THEN [at |-> Torn, constants |-> [i \in {} |-> 0]]
             ELSE LET tag == bytes[position + 1]
                      constant == [tag |-> tag, from |-> position, to |-> end]
                      rest == ConstantsFrom(bytes, end, index + Indices(tag), count)
                  IN  [rest EXCEPT !.constants = (index :> constant) @@ @]

ReadConstantPool(bytes) ==
    LET first == Skip(bytes, 0, 4)
    IN  IF first = Torn THEN [at |-> Torn, constants |-> [i \in {} |-> 0]]
        ELSE ConstantsFrom(bytes, first, 1, bytes[first])

IndicesOf(constants, tag) == {i \in DOMAIN constants : constants[i].tag = tag}

(* strings: the text of every UTF-8 constant.                              *)
Strings(bytes, constants) ==
    [i \in IndicesOf(constants, Utf8Tag) |->
        SubSeq(bytes, constants[i].from + 3, constants[i].to)]

(* classes: the name index of every class constant.                        *)
Classes(bytes, constants) ==
    [i \in IndicesOf(constants, ClassTag) |-> bytes[constants[i].to]]

NoText == <<Torn>>
TextAt(strings, index) == IF index \in DOMAIN strings THEN strings[index] ELSE NoText

-----------------------------------------------------------------------------
(* Attributes: a name, a length and a body.                                *)
RECURSIVE AttributesFrom(_, _, _)
AttributesFrom(bytes, position, count) ==
    IF count = 0 \/ position = Torn THEN [at |-> position, list |-> <<>>]
    ELSE LET end == SkipCounted(bytes, Skip(bytes, position, 1), 1)
             rest == AttributesFrom(bytes, end, count - 1)
         IN  IF end = Torn THEN [at |-> Torn, list |-> <<>>]
             ELSE [rest EXCEPT !.list = <<[name |-> bytes[position + 1],
                                           bytes |-> SubSeq(bytes, position + 1, end),
                                           body |-> SubSeq(bytes, position + 3, end)]>> \o @]

Attributes(bytes, position) ==
    LET first == Skip(bytes, position, 1)
    IN  AttributesFrom(bytes, first, IF first = Torn THEN 0 ELSE bytes[first])

(* Fields or methods: flags, name, descriptor and attributes.              *)
RECURSIVE MembersFrom(_, _, _)
MembersFrom(bytes, position, count) ==
    IF count = 0 \/ position = Torn THEN [at |-> position, list |-> <<>>]
    ELSE LET read == Attributes(bytes, Skip(bytes, position, 3))
             rest == MembersFrom(bytes, read.at, count - 1)
         IN  IF read.at = Torn THEN [at |-> Torn, list |-> <<>>]
             ELSE [rest EXCEPT !.list = <<[head |-> SubSeq(bytes, position + 1, position + 3),
                                           attributes |-> read.list]>> \o @]

Members(bytes, position) ==
    LET first == Skip(bytes, position, 1)
    IN  MembersFrom(bytes, first, IF first = Torn THEN 0 ELSE bytes[first])

(* Flags, class, superclass and the interfaces behind the constant pool.   *)
HeaderEnd(bytes, pool) == SkipCounted(bytes, Skip(bytes, pool.at, 3), 1)

(* Of a Code attribute: stack, locals, code and exception handlers.        *)
HandlersEnd(body) == SkipCounted(body, SkipCounted(body, Skip(body, 0, 2), 1), 4)

-----------------------------------------------------------------------------
(* class_header_bytes: a class file of the header alone, in which every    *)
(* text the header does not need is blanked and no member is left.         *)
HeaderIndices(bytes, start, end) ==
    {bytes[i] : i \in {start + 2, start + 3} \cup (start + 5)..end} \ {0}

(* Mutation: the names of the interfaces are not needed.                   *)
ClassAndSuperclass(bytes, start, end) == {bytes[start + 2], bytes[start + 3]} \ {0}

NeededClasses(bytes, start, end) == HeaderIndices(bytes, start, end)

Blanked(bytes, constants, required, end) ==
    LET blank == IndicesOf(constants, Utf8Tag) \ required
        lengths == {constants[i].from + 2 : i \in blank}
        texts == UNION {(constants[i].from + 3)..constants[i].to : i \in blank}
    IN  FlattenSeq([k \in 1..end |-> IF k \in texts THEN <<>>
                                     ELSE IF k \in lengths THEN <<0>> ELSE <<bytes[k]>>])

Accepted(bytes) == [ok |-> TRUE, bytes |-> bytes]
Rejected == [ok |-> FALSE, bytes |-> <<>>]

HeaderOf(bytes, pool, end) ==
    LET classes == Classes(bytes, pool.constants)
        needed == NeededClasses(bytes, pool.at, end)
    IN  IF needed \subseteq DOMAIN classes
        THEN Accepted(Blanked(bytes, pool.constants, {classes[i] : i \in needed}, end)
                      \o <<0, 0, 0>>)
        ELSE Rejected

ClassHeaderBytes(bytes) ==
    LET pool == ReadConstantPool(bytes)
        end == HeaderEnd(bytes, pool)
    IN  IF end = Torn THEN Rejected ELSE HeaderOf(bytes, pool, end)

-----------------------------------------------------------------------------
(* Taking the verification frames out of a class file: it is copied        *)
(* without the StackMapTable attributes of its Code attributes, whose      *)
(* count and length are written anew.                                      *)

(* Mutation: the count of nested attributes is copied.                     *)
CopiedCount(list, kept) == Len(list)

AttributeCount(list, kept) == Len(kept)

KeptAttributes(list, strings) ==
    SelectSeq(list, LAMBDA attribute : TextAt(strings, attribute.name) # StackMapTable)

StripCode(body, head, read, strings) ==
    IF read.at # Len(body) THEN Rejected
    ELSE LET kept == KeptAttributes(read.list, strings)
         IN  Accepted(SubSeq(body, 1, head) \o <<AttributeCount(read.list, kept)>>
                      \o FlattenSeq([i \in DOMAIN kept |-> kept[i].bytes]))

StripAttribute(attribute, strings) ==
    IF TextAt(strings, attribute.name) # CodeAttribute THEN Accepted(attribute.bytes)
    ELSE LET head == HandlersEnd(attribute.body)
             code == StripCode(attribute.body, head, Attributes(attribute.body, head), strings)
         IN  [code EXCEPT !.bytes = <<attribute.name, Len(@)>> \o @]

(* One part after the other; one that is rejected rejects the whole.       *)
Joined(parts) ==
    [ok |-> \A i \in DOMAIN parts : parts[i].ok,
     bytes |-> <<Len(parts)>> \o FlattenSeq([i \in DOMAIN parts |-> parts[i].bytes])]

SanitizeMethod(method, strings) ==
    LET attributes == Joined([i \in DOMAIN method.attributes |->
                                 StripAttribute(method.attributes[i], strings)])
    IN  [attributes EXCEPT !.bytes = method.head \o @]

SanitizeMethods(bytes, start, methods, strings) ==
    LET sanitized == Joined([i \in DOMAIN methods.list |->
                                SanitizeMethod(methods.list[i], strings)])
    IN  IF Attributes(bytes, methods.at).at # Len(bytes) \/ ~sanitized.ok THEN Rejected
        ELSE Accepted(SubSeq(bytes, 1, start) \o sanitized.bytes
                      \o SubSeq(bytes, methods.at + 1, Len(bytes)))

StripStackMapTables(bytes) ==
    LET pool == ReadConstantPool(bytes)
        fields == Members(bytes, HeaderEnd(bytes, pool))
    IN  SanitizeMethods(bytes, fields.at, Members(bytes, fields.at),
                        Strings(bytes, pool.constants))
-----------------------------------------------------------------------------
(* What the LocalVariableTable attributes of a class file say of integral  *)
(* locals (ir/classfile/local_variables.rs).  A table that is malformed is *)
(* left out, an entry that cannot be right is left out of its table, and a *)
(* file that is torn has no hints at all.                                  *)
U16 == 65536

(* Mutation: the end of a range wraps around.                              *)
WrappedEnd(start, length) == (start + length) % U16

RangeEnd(start, length) == start + length

IntegralHint(entry, strings, codeLength) ==
    LET end == RangeEnd(entry[1], entry[2])
        descriptor == TextAt(strings, entry[4])
    IN  IF end < U16 /\ end <= codeLength /\ descriptor \in DOMAIN IntegralTypesOf
        THEN <<[start |-> entry[1], end |-> end, local |-> entry[5],
                types |-> IntegralTypesOf[descriptor]]>>
        ELSE <<>>

TableHints(body, strings, codeLength) ==
    IF SkipCounted(body, 0, 5) # Len(body) THEN <<>>
    ELSE FlattenSeq([i \in 1..body[1] |->
             IntegralHint(SubSeq(body, 5 * i - 3, 5 * i + 1), strings, codeLength)])

CodeHints(body, strings) ==
    LET read == Attributes(body, HandlersEnd(body))
    IN  IF read.at = Torn THEN <<>>
        ELSE FlattenSeq([i \in DOMAIN read.list |->
                 IF TextAt(strings, read.list[i].name) = LocalVariableTable
                 THEN TableHints(read.list[i].body, strings, body[3]) ELSE <<>>])

MethodHints(method, strings) ==
    FlattenSeq([i \in DOMAIN method.attributes |->
        IF TextAt(strings, method.attributes[i].name) = CodeAttribute
        THEN CodeHints(method.attributes[i].body, strings) ELSE <<>>])

MethodKey(method, strings) ==
    <<TextAt(strings, method.head[2]), TextAt(strings, method.head[3])>>

(* The hints of each method by name and descriptor; of two methods with    *)
(* the same the later one's.                                               *)
HintsByKey(methods, strings) ==
    LET found == [i \in DOMAIN methods |->
                     [key |-> MethodKey(methods[i], strings),
                      hints |-> MethodHints(methods[i], strings)]]
        known == {i \in DOMAIN found : found[i].hints # <<>> /\ NoText \notin {found[i].key[1], found[i].key[2]}}
    IN  [key \in {found[i].key : i \in known} |->
            found[CHOOSE i \in known : /\ found[i].key = key
                                       /\ \A j \in known : found[j].key = key => j <= i].hints]

LocalVariableHints(bytes) ==
    LET pool == ReadConstantPool(bytes)
        fields == Members(bytes, HeaderEnd(bytes, pool))
        methods == Members(bytes, fields.at)
    IN  IF methods.at = Torn THEN [key \in {} |-> <<>>]
        ELSE HintsByKey(methods.list, Strings(bytes, pool.constants))
=============================================================================
