------------------------------- MODULE Inferer -------------------------------
(***************************************************************************)
(* From the bytes of class files to what the solver is given: infer_class  *)
(* and infer_classes of api.rs over parse_and_lower of ir/lower.rs.  Each  *)
(* file is parsed without its verification frames, or, when that fails, as *)
(* it is.                                                                  *)
(*                                                                         *)
(* The disassembler is a library: what it makes of a file is a function of *)
(* its bytes, here the bytes themselves, and it may refuse any file, the   *)
(* same one every time.                                                    *)
(***************************************************************************)
EXTENDS ClassFile

CONSTANT Batches    \* the sequences of files that are analyzed together

VARIABLES
    batch,      \* the files to be analyzed
    index,      \* the file that is parsed
    sanitized,  \* that file without frames, or Rejected, once it is known
    refused,    \* the files that the disassembler has refused
    classes,    \* the classes lowered so far
    outcome     \* "parsing", "analyzing" or why the batch was refused

vars == <<batch, index, sanitized, refused, classes, outcome>>

Unknown == [ok |-> FALSE, bytes |-> NoText]

Begin ==
    /\ index = 1
    /\ sanitized = Unknown
    /\ refused = {}
    /\ classes = <<>>
    /\ outcome = "parsing"

Init == batch \in Batches /\ Begin

Parsing == outcome = "parsing" /\ index <= Len(batch)
File == batch[index]

Sanitize ==
    /\ Parsing /\ sanitized = Unknown
    /\ sanitized' = StripStackMapTables(File)
    /\ UNCHANGED <<batch, index, refused, classes, outcome>>

-----------------------------------------------------------------------------
(* The name of the class, as the disassembler finds it.                    *)
ClassName(bytes, pool) ==
    LET named == Classes(bytes, pool.constants)
    IN  IF HeaderEnd(bytes, pool) # Torn /\ bytes[pool.at + 2] \in DOMAIN named
        THEN TextAt(Strings(bytes, pool.constants), named[bytes[pool.at + 2]])
        ELSE NoText

(* The methods, each with the hints of its name and descriptor.            *)
LowerMethods(methods, strings, hints) ==
    [i \in DOMAIN methods |->
        LET key == MethodKey(methods[i], strings)
        IN  [key |-> key, hints |-> IF key \in DOMAIN hints THEN hints[key] ELSE <<>>]]

LowerClass(bytes, usedRecovery) ==
    LET pool == ReadConstantPool(bytes)
        fields == Members(bytes, HeaderEnd(bytes, pool))
    IN  [name |-> ClassName(bytes, pool),
         bytes |-> bytes,
         methods |-> LowerMethods(Members(bytes, fields.at).list,
                                  Strings(bytes, pool.constants), LocalVariableHints(bytes)),
         recovered |-> usedRecovery]

(* A class without a name cannot be lowered; one of a name that the batch  *)
(* already has refuses the batch.                                          *)
Insert(class) ==
    /\ class.name # NoText
    /\ IF \E i \in DOMAIN classes : classes[i].name = class.name
       THEN /\ outcome' = "DuplicateClass"
            /\ UNCHANGED <<index, sanitized, refused, classes>>
       ELSE /\ classes' = Append(classes, class)
            /\ index' = index + 1
            /\ sanitized' = Unknown
            /\ refused' = {}
            /\ UNCHANGED outcome

Accepts(bytes) == Parsing /\ sanitized # Unknown /\ bytes \notin refused

ParseSanitized ==
    /\ sanitized.ok /\ Accepts(sanitized.bytes)
    /\ Insert(LowerClass(sanitized.bytes, FALSE))
    /\ UNCHANGED batch

RefuseSanitized ==
    /\ sanitized.ok /\ Accepts(sanitized.bytes)
    /\ refused' = {sanitized.bytes}
    /\ UNCHANGED <<batch, index, sanitized, classes, outcome>>

SanitizedFailed == ~sanitized.ok \/ sanitized.bytes \in refused

ParseOriginal ==
    /\ SanitizedFailed /\ Accepts(File)
    /\ Insert(LowerClass(File, TRUE))
    /\ UNCHANGED batch

RefuseOriginal ==
    /\ Parsing /\ sanitized # Unknown /\ SanitizedFailed
    /\ outcome' = "Parser"
    /\ UNCHANGED <<batch, index, sanitized, refused, classes>>

Analyze ==
    /\ outcome = "parsing" /\ index > Len(batch)
    /\ outcome' = "analyzing"
    /\ UNCHANGED <<batch, index, sanitized, refused, classes>>

Next ==
    \/ Sanitize
    \/ ParseSanitized \/ RefuseSanitized
    \/ ParseOriginal \/ RefuseOriginal
    \/ Analyze

Spec == Init /\ [][Next]_vars
=============================================================================
