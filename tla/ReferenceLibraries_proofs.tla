---------------------- MODULE ReferenceLibraries_proofs ---------------------
(***************************************************************************)
(* The loop over the entries of an archive implements the insertion of     *)
(* whole archives, for all class files and archives.                       *)
(***************************************************************************)
EXTENDS ReferenceLibraries, TLAPS

-----------------------------------------------------------------------------
(* What has been collected is the table of the entries dealt with, none of *)
(* which fails.                                                            *)
CollectedInv ==
    /\ jar \in Jars \cup {NoJar}
    /\ jar # NoJar =>
          /\ index \in 0..Len(jar.entries)
          /\ headers = TableOf(jar.entries, index)
          /\ \A i \in 1..index : ~Fails(jar.entries[i])

(* An archive's entries are a sequence of entries.                         *)
LEMMA JarType ==
    ASSUME NEW archive \in Jars
    PROVE  /\ Len(archive.entries) \in Nat
           /\ DOMAIN archive.entries = 1..Len(archive.entries)
BY JarAssumption

(* No entries make an empty table.                                         *)
LEMMA NoEntries ==
    ASSUME NEW entries
    PROVE  TableOf(entries, 0) = [name \in {} |-> {}]
<1>1. ClassNames(entries, 0) = {}
  BY DEF ClassNames, ClassEntries
<1> QED BY <1>1 DEF TableOf

(* An entry that is no class adds nothing.                                 *)
LEMMA SkippedEntry ==
    ASSUME NEW entries, NEW n \in Nat, ~IsClass(entries[n + 1])
    PROVE  TableOf(entries, n + 1) = TableOf(entries, n)
<1>1. 1..(n + 1) = 1..n \cup {n + 1}
  OBVIOUS
<1>2. ClassEntries(entries, n + 1) = ClassEntries(entries, n)
  BY <1>1 DEF ClassEntries
<1>3. ClassNames(entries, n + 1) = ClassNames(entries, n)
  BY <1>2 DEF ClassNames
<1>4. \A name : Last(entries, n + 1, name) = Last(entries, n, name)
  BY <1>2 DEF Last
<1> QED BY <1>3, <1>4 DEF TableOf

(* A class is put into the table, in the place of an earlier one.          *)
LEMMA ReadClass ==
    ASSUME NEW entries, NEW n \in Nat, IsClass(entries[n + 1])
    PROVE  TableOf(entries, n + 1) = Put(TableOf(entries, n), entries[n + 1].content)
<1> DEFINE new == entries[n + 1].content
           IsLast(m, i, name) ==
              /\ i \in ClassEntries(entries, m)
              /\ entries[i].content.name = name
              /\ \A j \in ClassEntries(entries, m) :
                    entries[j].content.name = name => j <= i
<1>1. 1..(n + 1) = 1..n \cup {n + 1}
  OBVIOUS
<1>2. ClassEntries(entries, n + 1) = ClassEntries(entries, n) \cup {n + 1}
  BY <1>1 DEF ClassEntries
<1>3. ClassNames(entries, n + 1) = ClassNames(entries, n) \cup {new.name}
  BY <1>2 DEF ClassNames
<1>4. Last(entries, n + 1, new.name) = n + 1
  <2>1. IsLast(n + 1, n + 1, new.name)
    BY <1>2 DEF ClassEntries
  <2>2. \A i : IsLast(n + 1, i, new.name) => i = n + 1
    BY <1>2 DEF ClassEntries
  <2> QED BY <2>1, <2>2 DEF Last
<1>5. ASSUME NEW name, name # new.name
      PROVE  Last(entries, n + 1, name) = Last(entries, n, name)
  <2>1. \A i : IsLast(n + 1, i, name) <=> IsLast(n, i, name)
    BY <1>2, <1>5
  <2> HIDE DEF IsLast
  <2>2. (CHOOSE i : IsLast(n + 1, i, name)) = (CHOOSE i : IsLast(n, i, name))
    BY <2>1
  <2>3. \A m : Last(entries, m, name) = CHOOSE i : IsLast(m, i, name)
    BY DEF Last, IsLast
  <2> QED BY <2>2, <2>3
<1> QED
  BY <1>3, <1>4, <1>5 DEF TableOf, Put

-----------------------------------------------------------------------------
(* The invariant holds of every reachable state.                           *)
LEMMA Collected == Spec => []CollectedInv
<1>1. Init => CollectedInv
  BY DEF Init, CollectedInv
<1>2. CollectedInv /\ [Next]_vars => CollectedInv'
  <2> SUFFICES ASSUME CollectedInv, [Next]_vars PROVE CollectedInv'
    OBVIOUS
  <2>1. ASSUME NEW content \in Headers \cup {Malformed}, AddClass(content)
        PROVE  CollectedInv'
    BY <2>1 DEF AddClass, CollectedInv
  <2>2. ASSUME NEW archive \in Jars, InsertJar(archive)
        PROVE  CollectedInv'
    <3>1. headers' = TableOf(jar'.entries, index')
      BY <2>2, NoEntries DEF InsertJar
    <3> QED BY <2>2, <3>1, JarType DEF InsertJar, CollectedInv
  <2>3. CASE NotAnArchive \/ EntryMissing
    BY <2>3 DEF NotAnArchive, EntryMissing, GiveUp, CollectedInv
  <2>4. CASE SkipEntry
    <3>1. jar \in Jars /\ index \in Nat /\ index + 1 \in 0..Len(jar.entries)
      BY <2>4, JarType DEF SkipEntry, Reading, CollectedInv
    <3>2. TableOf(jar.entries, index + 1) = TableOf(jar.entries, index)
      BY <2>4, <3>1, SkippedEntry DEF SkipEntry, Entry
    <3>3. ~Fails(jar.entries[index + 1])
      BY <2>4 DEF SkipEntry, Entry, Fails
    <3>4. \A i \in 1..(index + 1) : ~Fails(jar.entries[i])
      BY <3>1, <3>3, <2>4 DEF CollectedInv, SkipEntry, Reading
    <3> QED BY <2>4, <3>1, <3>2, <3>4 DEF SkipEntry, CollectedInv
  <2>5. CASE ReadEntry
    <3>1. CASE GiveUp
      BY <3>1 DEF GiveUp, CollectedInv
    <3>2. CASE ~GiveUp
      <4>1. /\ Reading /\ Entry.opens /\ IsClass(Entry) /\ Entry.reads
            /\ Entry.content # Malformed
            /\ headers' = Put(headers, Entry.content)
            /\ index' = index + 1
            /\ jar' = jar
        BY <2>5, <3>2 DEF ReadEntry, Read
      <4>2. jar \in Jars /\ index \in Nat /\ index + 1 \in 0..Len(jar.entries)
        BY <4>1, JarType DEF Reading, CollectedInv
      <4>3. TableOf(jar.entries, index + 1) = headers'
        BY <4>1, <4>2, ReadClass DEF Entry, Reading, CollectedInv
      <4>4. ~Fails(jar.entries[index + 1])
        BY <4>1 DEF Entry, Fails
      <4>5. \A i \in 1..(index + 1) : ~Fails(jar.entries[i])
        BY <4>1, <4>2, <4>4 DEF CollectedInv, Reading
      <4> QED BY <4>1, <4>2, <4>3, <4>5 DEF CollectedInv
    <3> QED BY <3>1, <3>2
  <2>6. CASE Commit
    BY <2>6 DEF Commit, CollectedInv
  <2>7. CASE UNCHANGED vars
    BY <2>7 DEF vars, CollectedInv
  <2> QED
    BY <2>1, <2>2, <2>3, <2>4, <2>5, <2>6, <2>7 DEF Next
<1> QED BY <1>1, <1>2, PTL DEF Spec

(* Whatever the archives hold, the hierarchy changes by whole archives:    *)
(* the loop of insert_jar_reader implements the atomic insertion.          *)
THEOREM ArchivesAlwaysWhole == Spec => AddsWholeArchives
<1>1. Init => TableInit
  BY DEF Init, TableInit
<1>2. CollectedInv /\ [Next]_vars => [TableNext]_tableVars
  <2> SUFFICES ASSUME CollectedInv, [Next]_vars
               PROVE  TableNext \/ UNCHANGED tableVars
    OBVIOUS
  <2>1. ASSUME NEW content \in Headers \cup {Malformed}, AddClass(content)
        PROVE  InsertClass(content)
    BY <2>1 DEF AddClass, InsertClass
  <2>2. ASSUME NEW archive \in Jars, InsertJar(archive)
        PROVE  Offer(archive)
    BY <2>2 DEF InsertJar, Offer
  <2>3. ASSUME GiveUp, jar # NoJar, ~Insertable(jar)
        PROVE  InsertWhole
    BY <2>3 DEF GiveUp, InsertWhole
  <2>4. CASE NotAnArchive
    BY <2>4, <2>3 DEF NotAnArchive, Insertable, TableNext
  <2>5. ASSUME Reading, Fails(Entry)
        PROVE  jar # NoJar /\ ~Insertable(jar)
    <3>1. jar \in Jars /\ index + 1 \in DOMAIN jar.entries
      BY <2>5, JarType DEF Reading, CollectedInv
    <3> QED BY <2>5, <3>1 DEF Reading, Entry, Insertable
  <2>6. CASE EntryMissing
    BY <2>6, <2>5, <2>3 DEF EntryMissing, Fails, TableNext
  <2>7. CASE SkipEntry
    BY <2>7 DEF SkipEntry, tableVars
  <2>8. CASE ReadEntry
    <3>1. CASE ~Entry.reads \/ Entry.content = Malformed
      <4>1. GiveUp /\ Reading /\ Fails(Entry)
        BY <2>8, <3>1 DEF ReadEntry, Read, Fails
      <4> QED BY <4>1, <2>5, <2>3 DEF TableNext
    <3>2. CASE ~(~Entry.reads \/ Entry.content = Malformed)
      BY <2>8, <3>2 DEF ReadEntry, Read, tableVars
    <3> QED BY <3>1, <3>2
  <2>9. CASE Commit
    <3>1. Insertable(jar)
      BY <2>9, JarType, NoJarAssumption
      DEF Commit, CollectedInv, Insertable
    <3>2. headers = TableOf(jar.entries, Len(jar.entries))
      BY <2>9 DEF Commit, CollectedInv
    <3>3. /\ parents' = Extended(parents, headers)
          /\ result' = Returned(Cardinality(DOMAIN headers))
          /\ jar # NoJar /\ jar' = NoJar
      BY <2>9 DEF Commit
    <3>4. InsertWhole
      BY <3>1, <3>2, <3>3 DEF InsertWhole
    <3> QED BY <3>4 DEF TableNext
  <2>10. CASE UNCHANGED vars
    BY <2>10 DEF vars, tableVars
  <2> QED
    BY <2>1, <2>2, <2>4, <2>6, <2>7, <2>8, <2>9, <2>10 DEF Next, TableNext
<1> QED
  BY <1>1, <1>2, Collected, PTL DEF Spec, AddsWholeArchives, TableSpec
=============================================================================
