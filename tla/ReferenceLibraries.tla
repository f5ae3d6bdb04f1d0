------------------------- MODULE ReferenceLibraries -------------------------
(***************************************************************************)
(* How a ClassHierarchy is filled: insert_class in hierarchy.rs and the    *)
(* loop of insert_jar_reader in hierarchy/jar.rs, which goes through the   *)
(* entries of an archive one by one and can fail at each.                  *)
(***************************************************************************)
EXTENDS HierarchyTable

VARIABLES
    index,      \* how many of the entries of jar have been dealt with
    headers,    \* the classes collected aside
    bytes       \* what the one buffer holds, file after file

vars == <<parents, result, jar, index, headers, bytes>>

-----------------------------------------------------------------------------
Init ==
    /\ parents = [name \in {} |-> {}]
    /\ result = Failed
    /\ jar = NoJar
    /\ index = 0
    /\ headers = [name \in {} |-> {}]
    /\ bytes = <<>>

(* insert_class: the header is decoded and checked before the table is     *)
(* touched.                                                                *)
AddClass(content) ==
    /\ jar = NoJar
    /\ IF content = Malformed
       THEN result' = Failed /\ UNCHANGED parents
       ELSE /\ parents' = Put(parents, content)
            /\ result' = Returned(content.name)
    /\ UNCHANGED <<jar, index, headers, bytes>>

(* insert_jar is called: nothing has been read of the archive yet.         *)
InsertJar(archive) ==
    /\ jar = NoJar
    /\ jar' = archive
    /\ index' = 0
    /\ headers' = [name \in {} |-> {}]
    /\ bytes' = <<>>
    /\ UNCHANGED <<parents, result>>

Reading == jar # NoJar /\ jar.opens /\ index < Len(jar.entries)
Entry == jar.entries[index + 1]

(* Any of the question marks: nothing of the archive is kept.              *)
GiveUp ==
    /\ UNCHANGED parents
    /\ result' = Failed
    /\ jar' = NoJar
    /\ index' = 0
    /\ headers' = [name \in {} |-> {}]
    /\ bytes' = <<>>

NotAnArchive == jar # NoJar /\ ~jar.opens /\ GiveUp
EntryMissing == Reading /\ ~Entry.opens /\ GiveUp

SkipEntry ==
    /\ Reading /\ Entry.opens /\ ~IsClass(Entry)
    /\ index' = index + 1
    /\ UNCHANGED <<parents, result, jar, headers, bytes>>

(* Mutation: the buffer is not cleared before an entry is read into it.    *)
Appended(content) == Append(bytes, content)

(* The buffer is cleared before the entry is read into it.                 *)
Read(content) == <<content>>

(* The header is that of the file which begins the buffer.                 *)
ReadEntry ==
    /\ Reading /\ Entry.opens /\ IsClass(Entry)
    /\ IF ~Entry.reads THEN GiveUp
       ELSE LET read == Read(Entry.content)
            IN  IF Head(read) = Malformed THEN GiveUp
                ELSE /\ headers' = Put(headers, Head(read))
                     /\ bytes' = read
                     /\ index' = index + 1
                     /\ UNCHANGED <<parents, result, jar>>

Commit ==
    /\ jar # NoJar /\ jar.opens
    /\ index = Len(jar.entries)
    /\ parents' = Extended(parents, headers)
    /\ result' = Returned(Cardinality(DOMAIN headers))
    /\ jar' = NoJar
    /\ index' = 0
    /\ headers' = [name \in {} |-> {}]
    /\ bytes' = <<>>

Next ==
    \/ \E content \in Headers \cup {Malformed} : AddClass(content)
    \/ \E archive \in Jars : InsertJar(archive)
    \/ NotAnArchive \/ EntryMissing \/ SkipEntry \/ ReadEntry \/ Commit

Spec == Init /\ [][Next]_vars

-----------------------------------------------------------------------------
(* "On error the hierarchy is unchanged", "later inserts replace earlier   *)
(* definitions" and "the number of distinct class headers read" (jar.rs):  *)
(* whatever entry an archive fails at, and in whatever order its entries   *)
(* and the archives come, the table changes by whole archives, and by the  *)
(* last definition of each name.                                           *)
AddsWholeArchives == TableSpec
=============================================================================
