------------------------------ MODULE MCInferer ------------------------------
(***************************************************************************)
(* From class files to lowered classes under TLC, on the files of          *)
(* MCClassFiles.                                                           *)
(***************************************************************************)
EXTENDS Inferer, MCClassFiles

VARIABLE source     \* the classes the files were written from, if any

(* Init for the batches of Cases, with the case that each is from.         *)
MCInit == source \in Cases /\ batch = source.batch /\ Begin
MCNext == Next /\ UNCHANGED source

-----------------------------------------------------------------------------
IsIntact == source.classes # <<>>

(* "Missing or forged verification frames cannot affect results" (api.rs): *)
(* whatever StackMapTables a class file has, and wherever in its Code      *)
(* attributes, what is lowered from it is what would be lowered from the   *)
(* file without them, and each method gets the hints of its own tables,    *)
(* those of malformed tables and impossible ranges left out.               *)
FramesCannotMatter ==
    /\ IsIntact /\ sanitized # Unknown => sanitized.ok
    /\ \A i \in DOMAIN classes :
          IsIntact /\ ~classes[i].recovered =>
             LET plain == WithoutFrames(source.classes[i])
             IN  /\ classes[i].bytes = Encode(plain)
                 /\ \A m \in DOMAIN plain.methods :
                       Cardinality({n \in DOMAIN plain.methods :
                                       plain.methods[n].name = plain.methods[m].name}) = 1 =>
                          classes[i].methods[m].hints = DeclaredHints(plain.methods[m])

(* Stripping is all or nothing: of every file it accepts, spoiled ones     *)
(* included, the copy is one that it accepts and leaves alone, from which  *)
(* the same hints are read.                                                *)
StrippingKeepsTheRest ==
    sanitized.ok /\ refused = {} =>
        /\ StripStackMapTables(sanitized.bytes) = sanitized
        /\ LocalVariableHints(sanitized.bytes) = LocalVariableHints(File)

(* The names of a class, its superclass and its interfaces.                *)
HeaderNames(bytes, pool) ==
    LET named == Classes(bytes, pool.constants)
        texts == Strings(bytes, pool.constants)
        NameOf(i) == IF bytes[i] \in DOMAIN named THEN TextAt(texts, named[bytes[i]]) ELSE NoText
    IN  <<NameOf(pool.at + 2), NameOf(pool.at + 3),
          {NameOf(i) : i \in (pool.at + 5)..HeaderEnd(bytes, pool)}>>

(* "Only the constant pool and hierarchy header are decoded; method bodies *)
(* and attributes do not affect indexing" (hierarchy.rs): the header that  *)
(* is cut out of a file, torn behind its header or not, is a class file    *)
(* without members that names the same class, superclass and interfaces.   *)
HeaderStandsAlone(file, header) ==
    /\ IsIntact => header.ok
    /\ header.ok =>
         /\ StripStackMapTables(header.bytes) = header
         /\ HeaderNames(header.bytes, ReadConstantPool(header.bytes))
              = HeaderNames(file, ReadConstantPool(file))
HeadersStandAlone ==
    Parsing /\ sanitized = Unknown => HeaderStandsAlone(File, ClassHeaderBytes(File))
=============================================================================
