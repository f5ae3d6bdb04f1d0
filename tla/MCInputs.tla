------------------------------ MODULE MCInputs ------------------------------
(***************************************************************************)
(* What is given to the library, under TLC: a hierarchy filled from class  *)
(* files and archives, a table of method summaries, the class files of a   *)
(* batch, and the descriptors and signatures in them.  They do not         *)
(* interact, so one of them is the subject of a behaviour.                 *)
(***************************************************************************)
EXTENDS ReferenceLibraries, MCClassFiles

CONSTANTS
    P, Q,                       \* class names
    O1, O2, N1, N2, D1, D2,     \* the parts of member references
    T1, T2, None,
    Batches,                    \* sequences of class files
    CodeAttribute, StackMapTable, LocalVariableTable, IntegralTypesOf

VARIABLES
    subject,                    \* what is given
    returns, answer,            \* of MethodSummaries
    batch, file, sanitized, refused, classes, outcome, source,  \* of MCInferer
    signature, parsed           \* of MCSignatures

Object == "Object"
HeaderOf(name, supers) == [name |-> name, supers |-> supers]
P1 == HeaderOf(P, {Object})
Q1 == HeaderOf(Q, {P})
Q2 == HeaderOf(Q, {Object})

File(content) == [opens |-> TRUE, kind |-> "class", reads |-> TRUE, content |-> content]
EntriesMC == {File(P1), File(Q1), File(Q2), File(Malformed),
              [File(Q1) EXCEPT !.reads = FALSE],
              [File(Q1) EXCEPT !.opens = FALSE],
              [File(Malformed) EXCEPT !.kind = "resource"],
              [File(Malformed) EXCEPT !.kind = "moduleInfo", !.opens = FALSE]}

HeadersMC == {P1, Q1, Q2}
MaxEntries == 3     \* the entries of an archive
MaxSummaries == 3   \* the entries of the table of summaries
JarsMC == {[opens |-> TRUE, entries |-> entries] :
              entries \in UNION {[1..n -> EntriesMC] : n \in 0..MaxEntries}}
          \cup {[opens |-> FALSE, entries |-> <<>>]}

Summaries == INSTANCE MethodSummaries
                WITH Owners <- {O1, O2}, Names <- {N1, N2}, Descriptors <- {D1, D2},
                     Types <- {T1, T2}

Lowering == INSTANCE MCInferer WITH index <- file

Signatures == INSTANCE MCSignatures

hierarchyVars == <<parents, result, jar, index, headers, bytes>>
summaryVars == <<returns, answer>>
fileVars == <<batch, file, sanitized, refused, classes, outcome, source>>
signatureVars == <<signature, parsed>>
allVars == <<subject, hierarchyVars, summaryVars, fileVars, signatureVars>>

-----------------------------------------------------------------------------
(* What is not the subject stays as it is before anything is given.        *)
Nothing == "nothing"
NoFiles == /\ batch = <<>> /\ file = 1 /\ sanitized = Lowering!Unknown /\ refused = {}
           /\ classes = <<>> /\ outcome = "none" /\ source = Nothing
NoSignature == signature = Nothing /\ parsed = Signatures!NotParsed

InitAll ==
    /\ subject \in {"hierarchy", "summaries", "files", "signature"}
    /\ Init /\ Summaries!Init
    /\ IF subject = "files" THEN Lowering!MCInit ELSE NoFiles
    /\ IF subject = "signature" THEN Signatures!SigInit ELSE NoSignature

FillHierarchy == /\ subject = "hierarchy" /\ Next
                 /\ UNCHANGED <<subject, summaryVars, fileVars, signatureVars>>
FillSummaries == /\ subject = "summaries" /\ Summaries!Next
                 /\ Summaries!Length' <= MaxSummaries
                 /\ UNCHANGED <<subject, hierarchyVars, fileVars, signatureVars>>
LowerFiles == /\ subject = "files" /\ Lowering!MCNext
              /\ UNCHANGED <<subject, hierarchyVars, summaryVars, signatureVars>>
ReadSignature == /\ subject = "signature" /\ Signatures!ParseSignature
                 /\ UNCHANGED <<subject, hierarchyVars, summaryVars, fileVars>>

NextAll == FillHierarchy \/ FillSummaries \/ LowerFiles \/ ReadSignature
SpecAll == InitAll /\ [][NextAll]_allVars

-----------------------------------------------------------------------------
(* MethodSummaries acts as one table over whole member references.         *)
SummariesActAsOneTable == Summaries!ActsAsOneTable

(* StackMapTables, missing or forged, have no influence on what is lowered *)
(* from a class file (see MCInferer, as for the next two).                 *)
FramesCannotMatter == subject = "files" => Lowering!FramesCannotMatter

(* Of every file that stripping accepts the copy is accepted, left alone,  *)
(* and gives the same hints.                                               *)
StrippingKeepsTheRest == subject = "files" => Lowering!StrippingKeepsTheRest

(* The header cut out of a file is a class file of the same names.         *)
HeadersStandAlone == subject = "files" => Lowering!HeadersStandAlone

(* The parsers of descriptors and signatures neither lose nor add anything *)
(* and refuse no text of the grammar whose formal parameters have class    *)
(* bounds; where both can read a type they agree (see MCSignatures).       *)
ParsingIsFaithful ==
    subject = "signature" => Signatures!NothingLostInParsing /\ Signatures!ParsersAgree
=============================================================================
