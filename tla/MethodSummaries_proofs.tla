------------------------ MODULE MethodSummaries_proofs ----------------------
(***************************************************************************)
(* The nested maps of MethodSummaries act as one map over whole member     *)
(* references, for all owners, names, descriptors and types: what they     *)
(* hold and what is_empty says of them.  What len sums up is left to TLC:  *)
(* a sum over a set is a recursion.                                        *)
(***************************************************************************)
EXTENDS MethodSummaries, TLAPS

-----------------------------------------------------------------------------
IsMap(map, keys) ==
    DOMAIN map \subseteq keys /\ map = [key \in DOMAIN map |-> map[key]]

(* Every inner map has an entry.                                           *)
NoEmptyMap ==
    /\ IsMap(returns, Owners)
    /\ \A owner \in DOMAIN returns :
          /\ IsMap(returns[owner], Names)
          /\ DOMAIN returns[owner] # {}
          /\ \A name \in DOMAIN returns[owner] :
                /\ IsMap(returns[owner][name], Descriptors)
                /\ DOMAIN returns[owner][name] # {}

(* Of the maps only the empty one has no keys.                             *)
LEMMA EmptyMaps ==
    ASSUME NEW map, NEW keys, IsMap(map, keys)
    PROVE  map = EmptyMap <=> DOMAIN map = {}
BY DEF IsMap, EmptyMap

(* insert.                                                                 *)
LEMMA Inserted ==
    ASSUME NEW map, NEW keys, IsMap(map, keys), NEW key \in keys, NEW value
    PROVE  /\ IsMap(With(map, key, value), keys)
           /\ DOMAIN With(map, key, value) = DOMAIN map \cup {key}
           /\ DOMAIN With(map, key, value) # {}
BY DEF With, IsMap

(* remove.                                                                 *)
LEMMA Dropped ==
    ASSUME NEW map, NEW keys, IsMap(map, keys), NEW key
    PROVE  /\ IsMap(Without(map, key), keys)
           /\ DOMAIN Without(map, key) = DOMAIN map \ {key}
           /\ \A other \in DOMAIN map : other # key => Without(map, key)[other] = map[other]
BY DEF Without, IsMap

(* What or_default finds.                                                  *)
LEMMA Defaults ==
    ASSUME NEW map, NEW key
    PROVE  /\ key \in DOMAIN map => OrDefault(map, key) = map[key]
           /\ key \notin DOMAIN map => /\ DOMAIN OrDefault(map, key) = {}
                                       /\ \A keys : IsMap(OrDefault(map, key), keys)
BY DEF OrDefault, EmptyMap, IsMap

-----------------------------------------------------------------------------
(* An insertion changes the types of one owner and name.                   *)
LEMMA TypesInserted ==
    ASSUME NoEmptyMap, NEW owner \in Owners, NEW name \in Names,
           NEW descriptor \in Descriptors, NEW type,
           InsertReturnType(owner, name, descriptor, type)
    PROVE  /\ NoEmptyMap'
           /\ TypesOf(owner, name)' = With(TypesOf(owner, name), descriptor, type)
           /\ \A o, n : <<o, n>> # <<owner, name>> => TypesOf(o, n)' = TypesOf(o, n)
<1> DEFINE types == With(TypesOf(owner, name), descriptor, type)
           names == With(OrDefault(returns, owner), name, types)
<1>1. returns' = With(returns, owner, names)
  BY DEF InsertReturnType
<1>2. IsMap(OrDefault(returns, owner), Names)
  BY Defaults DEF NoEmptyMap
<1>3. IsMap(TypesOf(owner, name), Descriptors)
  BY Defaults DEF NoEmptyMap, TypesOf
<1>4. IsMap(types, Descriptors) /\ DOMAIN types # {}
  BY <1>3, Inserted
<1> HIDE DEF types
<1>5. /\ IsMap(names, Names)
      /\ DOMAIN names = DOMAIN OrDefault(returns, owner) \cup {name}
      /\ names[name] = types
      /\ \A n \in DOMAIN OrDefault(returns, owner) :
            n # name => names[n] = OrDefault(returns, owner)[n]
  BY <1>2 DEF With, IsMap
<1> HIDE DEF names
<1>6. /\ IsMap(returns', Owners)
      /\ DOMAIN returns' = DOMAIN returns \cup {owner}
      /\ returns'[owner] = names
      /\ \A o \in DOMAIN returns : o # owner => returns'[o] = returns[o]
  BY <1>1 DEF With, IsMap, NoEmptyMap
<1>7. NoEmptyMap'
  <2>1. \A n \in DOMAIN names : IsMap(names[n], Descriptors) /\ DOMAIN names[n] # {}
    BY <1>4, <1>5, Defaults DEF NoEmptyMap
  <2> QED BY <1>5, <1>6, <2>1 DEF NoEmptyMap
<1>8. TypesOf(owner, name)' = types
  BY <1>5, <1>6, Defaults DEF TypesOf
<1>9. \A n : n # name => TypesOf(owner, n)' = TypesOf(owner, n)
  BY <1>5, <1>6, Defaults DEF TypesOf, OrDefault
<1>10. \A o, n : o # owner => TypesOf(o, n)' = TypesOf(o, n)
  BY <1>6 DEF TypesOf, OrDefault
<1> QED BY <1>7, <1>8, <1>9, <1>10 DEF types

(* A removal does too, and leaves no empty map behind.                     *)
LEMMA TypesRemoved ==
    ASSUME NoEmptyMap, NEW owner \in Owners, NEW name \in Names, NEW descriptor,
           name \in DOMAIN OrDefault(returns, owner),
           returns' = Removed(owner, name, descriptor)
    PROVE  /\ NoEmptyMap'
           /\ TypesOf(owner, name)' = Without(TypesOf(owner, name), descriptor)
           /\ \A o, n : <<o, n>> # <<owner, name>> => TypesOf(o, n)' = TypesOf(o, n)
<1> DEFINE types == Without(returns[owner][name], descriptor)
           names == Pruned(returns[owner], name, types)
<1>1. returns' = Pruned(returns, owner, names)
  BY DEF Removed
<1>2. owner \in DOMAIN returns /\ name \in DOMAIN returns[owner]
  BY Defaults
<1>3. TypesOf(owner, name) = returns[owner][name]
  BY <1>2, Defaults DEF TypesOf
<1>4. IsMap(types, Descriptors)
  BY <1>2, Dropped DEF NoEmptyMap
<1> HIDE DEF types
<1>5. /\ IsMap(names, Names)
      /\ types = EmptyMap => DOMAIN names = DOMAIN returns[owner] \ {name}
      /\ types # EmptyMap => DOMAIN names = DOMAIN returns[owner] /\ names[name] = types
      /\ \A n \in DOMAIN returns[owner] : n # name => names[n] = returns[owner][n]
  BY <1>2 DEF Pruned, With, Without, IsMap, NoEmptyMap
<1> HIDE DEF names
<1>6. /\ IsMap(returns', Owners)
      /\ names = EmptyMap => DOMAIN returns' = DOMAIN returns \ {owner}
      /\ names # EmptyMap => DOMAIN returns' = DOMAIN returns /\ returns'[owner] = names
      /\ \A o \in DOMAIN returns : o # owner => returns'[o] = returns[o]
  <2>1. IsMap(returns, Owners)
    BY DEF NoEmptyMap
  <2>2. CASE names = EmptyMap
    BY <1>1, <1>2, <2>1, <2>2 DEF Pruned, Without, IsMap
  <2>3. CASE names # EmptyMap
    BY <1>1, <1>2, <2>1, <2>3 DEF Pruned, With, IsMap
  <2> QED BY <2>2, <2>3
<1>7. NoEmptyMap'
  <2>1. \A n \in DOMAIN names : IsMap(names[n], Descriptors) /\ DOMAIN names[n] # {}
    BY <1>2, <1>4, <1>5, EmptyMaps DEF NoEmptyMap
  <2>2. names # EmptyMap => DOMAIN names # {}
    BY <1>5, EmptyMaps
  <2> QED BY <1>5, <1>6, <2>1, <2>2 DEF NoEmptyMap
<1>8. OrDefault(returns', owner) = names
  BY <1>2, <1>6 DEF OrDefault
<1>9. OrDefault(names, name) = types
  BY <1>2, <1>5 DEF OrDefault
<1>10. TypesOf(owner, name)' = types
  BY <1>8, <1>9 DEF TypesOf
<1>11. \A n : n # name => TypesOf(owner, n)' = TypesOf(owner, n)
  BY <1>2, <1>5, <1>8 DEF TypesOf, OrDefault
<1>12. \A o, n : o # owner => TypesOf(o, n)' = TypesOf(o, n)
  BY <1>2, <1>6 DEF TypesOf, OrDefault
<1> QED BY <1>3, <1>7, <1>10, <1>11, <1>12 DEF types

-----------------------------------------------------------------------------
(* No map without entries is ever kept.                                    *)
LEMMA NoMapEmpty == Spec => []NoEmptyMap
<1>1. Init => NoEmptyMap
  BY DEF Init, NoEmptyMap, IsMap, EmptyMap
<1>2. NoEmptyMap /\ [Next]_vars => NoEmptyMap'
  <2> SUFFICES ASSUME NoEmptyMap, [Next]_vars PROVE NoEmptyMap'
    OBVIOUS
  <2>1. ASSUME NEW owner \in Owners, NEW name \in Names, NEW descriptor \in Descriptors,
               NEW type \in Types, InsertReturnType(owner, name, descriptor, type)
        PROVE  NoEmptyMap'
    BY <2>1, TypesInserted
  <2>2. ASSUME NEW owner \in Owners, NEW name \in Names, NEW descriptor \in Descriptors,
               RemoveReturnType(owner, name, descriptor)
        PROVE  NoEmptyMap'
    <3>1. CASE UNCHANGED returns
      BY <3>1 DEF NoEmptyMap
    <3>2. CASE ~UNCHANGED returns
      BY <2>2, <3>2, TypesRemoved DEF RemoveReturnType
    <3> QED BY <3>1, <3>2
  <2>3. CASE Query
    BY <2>3 DEF Query, NoEmptyMap
  <2>4. CASE UNCHANGED vars
    BY <2>4 DEF vars, NoEmptyMap
  <2> QED BY <2>1, <2>2, <2>3, <2>4 DEF Next
<1> QED BY <1>1, <1>2, PTL DEF Spec

(* is_empty looks at the outermost map only, and that is enough.           *)
LEMMA EmptyWhenNoEntry ==
    ASSUME NoEmptyMap
    PROVE  returns = EmptyMap <=> Flat = [reference \in {} |-> None]
<1>1. ASSUME returns = EmptyMap
      PROVE  Flat = [reference \in {} |-> None]
  <2>1. \A owner, name : DOMAIN TypesOf(owner, name) = {}
    BY <1>1 DEF TypesOf, OrDefault, EmptyMap
  <2>2. {r \in Owners \X Names \X Descriptors : r[3] \in DOMAIN TypesOf(r[1], r[2])} = {}
    BY <2>1
  <2> QED BY <2>2 DEF Flat
<1>2. ASSUME returns # EmptyMap
      PROVE  DOMAIN Flat # {}
  <2>1. PICK owner \in DOMAIN returns : TRUE
    BY <1>2, EmptyMaps DEF NoEmptyMap
  <2>2. PICK name \in DOMAIN returns[owner] : TRUE
    BY DEF NoEmptyMap
  <2>3. PICK descriptor \in DOMAIN returns[owner][name] : TRUE
    BY DEF NoEmptyMap
  <2>4. owner \in Owners /\ name \in Names /\ descriptor \in Descriptors
    BY <2>1, <2>2, <2>3 DEF NoEmptyMap, IsMap
  <2>5. descriptor \in DOMAIN TypesOf(owner, name)
    BY <2>1, <2>2, <2>3, Defaults DEF TypesOf
  <2>6. <<owner, name, descriptor>> \in
            {r \in Owners \X Names \X Descriptors : r[3] \in DOMAIN TypesOf(r[1], r[2])}
    BY <2>4, <2>5
  <2> QED BY <2>6 DEF Flat
<1> QED BY <1>1, <1>2

(* The flat map gives what the nested ones do.                             *)
LEMMA SameEntry ==
    ASSUME NEW owner \in Owners, NEW name \in Names, NEW descriptor \in Descriptors
    PROVE  Table!Entry(<<owner, name, descriptor>>) = ReturnType(owner, name, descriptor)
BY DEF Table!Entry, Flat, ReturnType

-----------------------------------------------------------------------------
(* A step of the flat map, or the count of its entries.                    *)
CountsEntries == answer'.question = "len" /\ UNCHANGED Flat

OneTableStep ==
    \/ \E reference \in Table!References, type \in Types : Table!Insert(reference, type)
    \/ \E reference \in Table!References : Table!Remove(reference)
    \/ Table!Ask
    \/ CountsEntries

(* Every call but len changes and answers what one map over whole member   *)
(* references would: a removal takes one entry, whatever maps it drops on  *)
(* its way out, and is_empty tells whether an entry is left.               *)
THEOREM ActsAsOneTableStepwise == Spec => Table!Init /\ [][OneTableStep]_(Table!vars)
<1>1. Init => Table!Init
  <2> SUFFICES ASSUME Init PROVE Table!Init
    OBVIOUS
  <2>1. NoEmptyMap /\ returns = EmptyMap
    BY DEF Init, NoEmptyMap, IsMap, EmptyMap
  <2> QED BY <2>1, EmptyWhenNoEntry DEF Init, Table!Init, Table!NothingAsked, NothingAsked
<1>2. NoEmptyMap /\ NoEmptyMap' /\ [Next]_vars => [OneTableStep]_(Table!vars)
  <2> SUFFICES ASSUME NoEmptyMap, NoEmptyMap', [Next]_vars
               PROVE  OneTableStep \/ UNCHANGED Table!vars
    OBVIOUS
  <2>1. ASSUME NEW owner \in Owners, NEW name \in Names, NEW descriptor \in Descriptors,
               NEW type \in Types, InsertReturnType(owner, name, descriptor, type)
        PROVE  Table!Insert(<<owner, name, descriptor>>, type)
    <3> DEFINE reference == <<owner, name, descriptor>>
    <3>0. /\ TypesOf(owner, name)' = With(TypesOf(owner, name), descriptor, type)
          /\ \A o, n : <<o, n>> # <<owner, name>> => TypesOf(o, n)' = TypesOf(o, n)
      BY <2>1, TypesInserted
    <3>1. \A o, n, d : d \in DOMAIN TypesOf(o, n)' <=>
              d \in DOMAIN TypesOf(o, n) \/ <<o, n, d>> = reference
      BY <3>0 DEF With
    <3>2. ReturnType(owner, name, descriptor)' = type
      BY <3>0 DEF With, ReturnType
    <3>3. \A o, n, d : <<o, n, d>> # reference => ReturnType(o, n, d)' = ReturnType(o, n, d)
      BY <3>0 DEF With, ReturnType
    <3>4. Flat' = [other \in DOMAIN Flat \cup {reference} |->
                      IF other = reference THEN type ELSE Flat[other]]
      BY <3>1, <3>2, <3>3 DEF Flat
    <3> QED BY <2>1, <3>4, SameEntry DEF Table!Insert, InsertReturnType, Table!Answered, Answered
  <2>2. ASSUME NEW owner \in Owners, NEW name \in Names, NEW descriptor \in Descriptors,
               RemoveReturnType(owner, name, descriptor)
        PROVE  Table!Remove(<<owner, name, descriptor>>)
    <3> DEFINE reference == <<owner, name, descriptor>>
    <3>1. /\ \A o, n, d : d \in DOMAIN TypesOf(o, n)' <=>
                d \in DOMAIN TypesOf(o, n) /\ <<o, n, d>> # reference
          /\ \A o, n, d : <<o, n, d>> # reference => ReturnType(o, n, d)' = ReturnType(o, n, d)
      <4>1. CASE name \in DOMAIN OrDefault(returns, owner)
        <5>1. returns' = Removed(owner, name, descriptor)
          BY <2>2, <4>1 DEF RemoveReturnType
        <5>2. /\ TypesOf(owner, name)' = Without(TypesOf(owner, name), descriptor)
              /\ \A o, n : <<o, n>> # <<owner, name>> => TypesOf(o, n)' = TypesOf(o, n)
          BY <4>1, <5>1, TypesRemoved
        <5> QED BY <5>2 DEF Without, ReturnType
      <4>2. CASE name \notin DOMAIN OrDefault(returns, owner)
        <5>1. DOMAIN TypesOf(owner, name) = {}
          BY <4>2, Defaults DEF TypesOf
        <5>2. returns' = returns
          BY <2>2, <4>2 DEF RemoveReturnType
        <5> QED BY <5>1, <5>2 DEF TypesOf, ReturnType
      <4> QED BY <4>1, <4>2
    <3>2. Flat' = [other \in DOMAIN Flat \ {reference} |-> Flat[other]]
      BY <3>1 DEF Flat
    <3> QED BY <2>2, <3>2, SameEntry DEF Table!Remove, RemoveReturnType, Table!Answered, Answered
  <2>3. CASE Query
    <3>1. UNCHANGED Flat
      BY <2>3 DEF Query, Flat, TypesOf, ReturnType
    <3>2. ASSUME NEW owner \in Owners, NEW name \in Names, NEW descriptor \in Descriptors,
                 answer' = Answered("type", ReturnType(owner, name, descriptor))
          PROVE  Table!Ask
      BY <3>1, <3>2, SameEntry DEF Table!Ask, Table!References, Table!Answered, Answered
    <3>3. CASE answer' = Answered("len", Length)
      BY <3>1, <3>3 DEF CountsEntries, OneTableStep, Answered
    <3>4. CASE answer' = Answered("is_empty", returns = EmptyMap)
      <4>1. (returns = EmptyMap) = (Flat = [reference \in {} |-> None])
        BY EmptyWhenNoEntry
      <4> QED BY <3>1, <3>4, <4>1 DEF Table!Ask, OneTableStep, Table!Answered, Answered
    <3> QED BY <2>3, <3>2, <3>3, <3>4 DEF Query, OneTableStep
  <2>4. CASE UNCHANGED vars
    BY <2>4 DEF vars, Table!vars, Flat, TypesOf, ReturnType
  <2> QED
    BY <2>1, <2>2, <2>3, <2>4 DEF Next, OneTableStep, Table!References
<1> QED BY <1>1, <1>2, NoMapEmpty, PTL DEF Spec
=============================================================================
