--------------------------- MODULE HierarchyTable ---------------------------
(***************************************************************************)
(* What a ClassHierarchy promises the one who fills it from class files    *)
(* and archives (hierarchy.rs, hierarchy/jar.rs): a table of direct        *)
(* supertypes by class name, to which one class file or one JAR is added   *)
(* at a time, wholly or not at all.                                        *)
(*                                                                         *)
(* What a file holds is a header, [name, supers], or Malformed.  A JAR is  *)
(* [opens, entries], and an entry [opens, kind, reads, content]: whether   *)
(* the archive finds it, what its path says it is, whether its bytes can   *)
(* be decompressed and what they hold.  supers is a set: the vector of the *)
(* code is sorted and has no duplicates.                                   *)
(***************************************************************************)
EXTENDS Integers, Sequences, FiniteSets

CONSTANTS
    Headers,    \* the class headers
    Malformed,  \* a file that is not a class
    Jars,       \* the archives
    NoJar       \* no archive

ASSUME HeaderAssumption == Malformed \notin Headers
ASSUME NoJarAssumption == NoJar \notin Jars
ASSUME JarAssumption ==
    \A archive \in Jars :
        /\ archive.opens \in BOOLEAN
        /\ archive.entries \in Seq([opens : BOOLEAN, reads : BOOLEAN,
                                    kind : {"class", "resource", "metaInf", "moduleInfo"},
                                    content : Headers \cup {Malformed}])

Failed == [error |-> TRUE]
Returned(value) == [error |-> FALSE, value |-> value]

Put(table, header) ==
    [name \in DOMAIN table \cup {header.name} |->
        IF name = header.name THEN header.supers ELSE table[name]]

(* extend: what is added replaces what was there.                          *)
Extended(table, added) ==
    [name \in DOMAIN table \cup DOMAIN added |->
        IF name \in DOMAIN added THEN added[name] ELSE table[name]]

(* Resources, module descriptors and versioned entries are not classes.    *)
IsClass(entry) == entry.kind = "class"

Fails(entry) ==
    \/ ~entry.opens
    \/ IsClass(entry) /\ (~entry.reads \/ entry.content = Malformed)

(* The headers among the first n entries; of two with one name the later.  *)
ClassEntries(entries, n) == {i \in 1..n : IsClass(entries[i])}
ClassNames(entries, n) == {entries[i].content.name : i \in ClassEntries(entries, n)}
Last(entries, n, name) ==
    CHOOSE i \in ClassEntries(entries, n) :
        /\ entries[i].content.name = name
        /\ \A j \in ClassEntries(entries, n) : entries[j].content.name = name => j <= i
TableOf(entries, n) ==
    [name \in ClassNames(entries, n) |-> entries[Last(entries, n, name)].content.supers]

-----------------------------------------------------------------------------
VARIABLES
    parents,    \* class name -> its direct supertypes
    jar,        \* the JAR to be added, or NoJar
    result      \* what the last insertion returned

tableVars == <<parents, jar, result>>

TableInit == parents = [name \in {} |-> {}] /\ jar = NoJar /\ result = Failed

InsertClass(content) ==
    /\ jar = NoJar
    /\ IF content = Malformed
       THEN result' = Failed /\ UNCHANGED parents
       ELSE parents' = Put(parents, content) /\ result' = Returned(content.name)
    /\ UNCHANGED jar

Offer(archive) == jar = NoJar /\ jar' = archive /\ UNCHANGED <<parents, result>>

Insertable(archive) ==
    archive.opens /\ \A i \in DOMAIN archive.entries : ~Fails(archive.entries[i])

InsertWhole ==
    /\ jar # NoJar
    /\ IF Insertable(jar)
       THEN LET added == TableOf(jar.entries, Len(jar.entries))
            IN  /\ parents' = Extended(parents, added)
                /\ result' = Returned(Cardinality(DOMAIN added))
       ELSE result' = Failed /\ UNCHANGED parents
    /\ jar' = NoJar

TableNext ==
    \/ \E content \in Headers \cup {Malformed} : InsertClass(content)
    \/ \E archive \in Jars : Offer(archive)
    \/ InsertWhole

TableSpec == TableInit /\ [][TableNext]_tableVars
=============================================================================
