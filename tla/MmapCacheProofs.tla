-------------------------- MODULE MmapCacheProofs --------------------------
(***************************************************************************)
(* The mmap cache keeps its counts, its holders' files and its mappings    *)
(* right, and implements Mappings, for every table size, limit, number of  *)
(* requests and set of files.  The invariants of the run together, with    *)
(* the limit the code keeps, are inductive as they stand.                  *)
(***************************************************************************)
EXTENDS MmapCache, FiniteSetTheorems, TLAPS

\* One entry more than MMAP_LIST_USE_MAX: the limit is tested before the new
\* entry is counted.
OneBeyond == entries_used <= UseMax + 1

Inv == TypeOK /\ Counts /\ HoldsWhatItAsked /\ NoMappingLost /\ OneBeyond

-----------------------------------------------------------------------------
\* Sets of requests and of slots are finite.
LEMMA Finite ==
  /\ \A S \in SUBSET Req : IsFiniteSet(S)
  /\ \A S \in SUBSET Slots : IsFiniteSet(S)
<1>1. IsFiniteSet(Slots)
  BY FS_Interval, SizeAssumption DEF Slots
<1> QED BY <1>1, FS_Subset, ReqFinite

\* Adding and removing an element of a finite set of natural cardinality.
LEMMA AddOne ==
  ASSUME NEW S, IsFiniteSet(S), NEW x, x \notin S
  PROVE  Cardinality(S \cup {x}) = Cardinality(S) + 1
BY FS_AddElement

LEMMA RemoveOne ==
  ASSUME NEW S, IsFiniteSet(S), NEW x \in S
  PROVE  Cardinality(S \ {x}) = Cardinality(S) - 1
BY FS_RemoveElement

\* A finite set has as many elements as a natural number says, none exactly
\* when it is empty.
LEMMA CardNat ==
  ASSUME NEW S, IsFiniteSet(S)
  PROVE  Cardinality(S) \in Nat /\ (Cardinality(S) = 0 <=> S = {})
BY FS_CardinalityType, FS_EmptySet

\* The initial table is empty and nobody holds an entry.
LEMMA InitInv == Init => Inv
<1> SUFFICES ASSUME Init PROVE Inv
  OBVIOUS
<1>1. TypeOK
  BY DEF Init, TypeOK
<1>2. Used = {} /\ \A i \in Slots : Holders(i) = {}
  BY NullAssumption DEF Init, Used, Holders, Slots
<1>3. Cardinality({}) = 0
  BY FS_EmptySet
<1>4. Counts
  BY <1>2, <1>3 DEF Init, Counts
<1>5. HoldsWhatItAsked
  BY DEF Init, HoldsWhatItAsked
<1>6. NoMappingLost
  <2> SUFFICES ASSUME NEW f \in File
               PROVE  maps[f] = Cardinality({i \in Used : mmap_list[i].file = f})
    BY DEF NoMappingLost
  <2>1. {i \in Used : mmap_list[i].file = f} = {}
    BY <1>2
  <2> QED BY <2>1, <1>3 DEF Init
<1>7. OneBeyond
  BY UseMaxAssumption DEF Init, OneBeyond
<1> QED BY <1>1, <1>4, <1>5, <1>6, <1>7 DEF Inv

\* An old entry gets one more holder.
LEMMA OldInv ==
  ASSUME Inv, NEW r \in Req, NEW f \in File, NEW i \in Slots,
         entry[r] = NoEntry, FindOld(r, f, i)
  PROVE  Inv'
<1> USE DEF Inv, TypeOK
<1>1. TypeOK'
  BY DEF FindOld, Given
<1>2. Used' = Used /\ i \in Used
  BY DEF FindOld, Used, Matches
<1>3. Holders(i)' = Holders(i) \cup {r} /\ r \notin Holders(i)
  BY NullAssumption DEF FindOld, Given, Holders, Slots
<1>4. \A j \in Slots \ {i} : Holders(j)' = Holders(j)
  BY NullAssumption DEF FindOld, Given, Holders, Slots
<1>5. Cardinality(Holders(i)') = Cardinality(Holders(i)) + 1
  <2>1. Holders(i) \in SUBSET Req
    BY DEF Holders
  <2> QED BY <1>3, <2>1, Finite, AddOne
<1>6. Counts'
  <2>1. ASSUME NEW j \in Slots
        PROVE  mmap_list'[j].use_count = Cardinality(Holders(j)')
    BY <2>1, <1>4, <1>5 DEF FindOld, Counts
  <2> QED BY <1>2, <2>1 DEF FindOld, Counts
<1>7. HoldsWhatItAsked'
  BY NullAssumption DEF FindOld, Given, Matches, HoldsWhatItAsked, Slots
<1>8. \A j \in Slots : mmap_list'[j].file = mmap_list[j].file
  BY DEF FindOld
<1>9. NoMappingLost'
  <2> SUFFICES ASSUME NEW g \in File
               PROVE  maps'[g] = Cardinality({j \in Used' : mmap_list'[j].file = g})
    BY DEF NoMappingLost
  <2>1. {j \in Used' : mmap_list'[j].file = g} = {j \in Used : mmap_list[j].file = g}
    BY <1>2, <1>8 DEF Used
  <2> QED BY <2>1 DEF FindOld, NoMappingLost
<1>10. OneBeyond'
  BY DEF FindOld, OneBeyond
<1> QED BY <1>1, <1>6, <1>7, <1>9, <1>10

\* A free slot has no holder, so giving it to another file disturbs nobody.
LEMMA NewInv ==
  ASSUME Inv, NEW r \in Req, NEW f \in File, NEW i \in Slots,
         entry[r] = NoEntry, FindNew(r, f, i)
  PROVE  Inv'
<1> USE DEF Inv, TypeOK
<1>1. TypeOK'
  BY DEF FindNew, Given
<1>2. Used' = Used \cup {i} /\ i \notin Used /\ Used \in SUBSET Slots
  BY DEF FindNew, Used, IsFree
<1>3. Holders(i) = {}
  <2>1. Holders(i) \in SUBSET Req
    BY DEF Holders
  <2>2. Cardinality(Holders(i)) = 0
    BY DEF FindNew, IsFree, Counts
  <2> QED BY <2>1, <2>2, Finite, CardNat
<1>4. Holders(i)' = {r}
  BY <1>3, NullAssumption DEF FindNew, Given, Holders, Slots
<1>5. \A j \in Slots \ {i} : Holders(j)' = Holders(j)
  BY NullAssumption DEF FindNew, Given, Holders, Slots
<1>6. Counts'
  <2>1. Cardinality(Used') = Cardinality(Used) + 1
    BY <1>2, Finite, AddOne
  <2>2. Cardinality({r}) = 1
    BY FS_Singleton
  <2>3. ASSUME NEW j \in Slots
        PROVE  mmap_list'[j].use_count = Cardinality(Holders(j)')
    BY <2>2, <1>4, <1>5 DEF FindNew, Counts
  <2> QED BY <2>1, <2>3 DEF FindNew, Counts
<1>7. HoldsWhatItAsked'
  <2> SUFFICES ASSUME NEW s \in Req
               PROVE  /\ entry'[s] # NoEntry => mmap_list'[entry'[s]].file = asked'[s] /\ asked'[s] # NoFile
                      /\ entry'[s] = NoEntry => asked'[s] = NoFile
    BY DEF HoldsWhatItAsked
  <2>1. CASE s = r
    BY <2>1, NullAssumption DEF FindNew, Given, Slots
  <2>2. CASE s # r
    <3>1. entry[s] # i
      BY <1>3 DEF Holders
    <3> QED BY <2>2, <3>1 DEF FindNew, Given, HoldsWhatItAsked
  <2> QED BY <2>1, <2>2
<1>8. NoMappingLost'
  <2> SUFFICES ASSUME NEW g \in File
               PROVE  maps'[g] = Cardinality({j \in Used' : mmap_list'[j].file = g})
    BY DEF NoMappingLost
  <2> DEFINE Before == {j \in Used : mmap_list[j].file = g}
             After  == {j \in Used' : mmap_list'[j].file = g}
  <2>0. Before \in SUBSET Slots /\ i \notin Before
    BY <1>2
  <2>1. CASE g = f
    <3>1. After = Before \cup {i}
      BY <1>2, <2>1 DEF FindNew
    <3>2. Cardinality(After) = Cardinality(Before) + 1
      BY <3>1, <2>0, Finite, AddOne
    <3>3. maps'[g] = maps[g] + 1
      BY <2>1 DEF FindNew
    <3> QED BY <3>2, <3>3 DEF NoMappingLost
  <2>2. CASE g # f
    <3>1. After = Before
      BY <1>2, <2>2 DEF FindNew
    <3>2. maps'[g] = maps[g]
      BY <2>2 DEF FindNew
    <3> QED BY <3>1, <3>2 DEF NoMappingLost
  <2> QED BY <2>1, <2>2
<1>9. OneBeyond'
  BY UseMaxAssumption DEF FindNew, NoMore, OneBeyond
<1> QED BY <1>1, <1>6, <1>7, <1>8, <1>9

\* The entry of a holder is in use: release_mmap never meets a zero count.
LEMMA HeldInUse ==
  ASSUME Inv, NEW r \in Req, entry[r] # NoEntry
  PROVE  /\ entry[r] \in Slots
         /\ entry[r] \in Used
         /\ mmap_list[entry[r]].use_count \in Nat \ {0}
         /\ mmap_list[entry[r]].file \in File
         /\ mmap_list[entry[r]].file = asked[r]
<1> DEFINE i == entry[r]
<1>1. i \in Slots
  BY DEF Inv, TypeOK
<1>2. Holders(i) \in SUBSET Req /\ r \in Holders(i)
  BY DEF Holders
<1>3. Cardinality(Holders(i)) # 0 /\ Cardinality(Holders(i)) \in Nat
  BY <1>2, Finite, CardNat
<1>4. mmap_list[i].use_count \in Nat \ {0}
  BY <1>1, <1>3 DEF Inv, Counts
<1>5. i \in Used
  BY <1>1, <1>4 DEF Used
<1>6. mmap_list[i].file = asked[r] /\ asked[r] \in File
  BY DEF Inv, HoldsWhatItAsked, TypeOK
<1> QED BY <1>1, <1>4, <1>5, <1>6

\* One holder fewer; with the last one the slot and its mapping go.
LEMMA ReleaseInv ==
  ASSUME Inv, NEW r \in Req, release_mmap(r)
  PROVE  Inv'
<1>0. entry[r] # NoEntry
  BY DEF release_mmap
<1>a. PICK i \in Slots : i = entry[r]
  BY <1>0, HeldInUse
<1>b. PICK n \in Nat : n = mmap_list[i].use_count - 1
  BY <1>0, <1>a, HeldInUse
<1> USE DEF Inv, TypeOK
<1>1. /\ i \in Used /\ i # NoEntry
      /\ mmap_list[i].use_count \in Nat \ {0}
      /\ mmap_list[i].file \in File
  BY <1>0, <1>a, HeldInUse
<1>2. /\ mmap_list' = [mmap_list EXCEPT ![i].use_count = n]
      /\ Forget(r)
      /\ n = 0 => /\ maps' = [maps EXCEPT ![mmap_list[i].file] = @ - 1]
                  /\ entries_used' = entries_used - 1
      /\ n # 0 => UNCHANGED <<maps, entries_used>>
  BY <1>1, <1>a, <1>b DEF release_mmap
<1>3. Holders(i)' = Holders(i) \ {r} /\ r \in Holders(i) /\ Holders(i) \in SUBSET Req
  BY <1>1, <1>2, <1>a, NullAssumption DEF Forget, Holders, Slots
<1>4. \A j \in Slots \ {i} : Holders(j)' = Holders(j)
  BY <1>2, <1>a, NullAssumption DEF Forget, Holders, Slots
<1>5. Cardinality(Holders(i)') = Cardinality(Holders(i)) - 1
  BY <1>3, Finite, RemoveOne
<1>6. \A j \in Slots : mmap_list'[j].use_count = Cardinality(Holders(j)')
  <2> TAKE j \in Slots
  <2> QED BY <1>1, <1>2, <1>4, <1>5, <1>b DEF Counts
<1>7. \A j \in Slots : mmap_list'[j].file = mmap_list[j].file
  BY <1>1, <1>2
<1>8. HoldsWhatItAsked'
  <2> SUFFICES ASSUME NEW s \in Req
               PROVE  /\ entry'[s] # NoEntry => mmap_list'[entry'[s]].file = asked'[s] /\ asked'[s] # NoFile
                      /\ entry'[s] = NoEntry => asked'[s] = NoFile
    BY DEF HoldsWhatItAsked
  <2>1. CASE s = r
    BY <2>1, <1>2 DEF Forget
  <2>2. CASE s # r
    BY <2>2, <1>2, <1>7 DEF Forget, HoldsWhatItAsked
  <2> QED BY <2>1, <2>2
<1>9. Used \in SUBSET Slots
  BY DEF Used
<1>10. CASE n # 0
  <2>1. Used' = Used
    BY <1>1, <1>2, <1>b, <1>10 DEF Used
  <2>2. NoMappingLost'
    <3> SUFFICES ASSUME NEW g \in File
                 PROVE  maps'[g] = Cardinality({j \in Used' : mmap_list'[j].file = g})
      BY DEF NoMappingLost
    <3>1. {j \in Used' : mmap_list'[j].file = g} = {j \in Used : mmap_list[j].file = g}
      BY <2>1, <1>7, <1>9
    <3> QED BY <3>1, <1>2, <1>10 DEF NoMappingLost
  <2>3. TypeOK'
    BY <1>1, <1>2, <1>10 DEF Forget
  <2>4. Counts' /\ OneBeyond'
    BY <2>1, <1>2, <1>6, <1>10 DEF Counts, OneBeyond
  <2> QED BY <2>2, <2>3, <2>4, <1>8
<1>11. CASE n = 0
  <2>1. Used' = Used \ {i}
    BY <1>1, <1>2, <1>b, <1>11 DEF Used
  <2>2. Cardinality(Used') = Cardinality(Used) - 1
    BY <2>1, <1>1, <1>9, Finite, RemoveOne
  <2>3. Counts'
    BY <2>2, <1>2, <1>6, <1>11 DEF Counts
  <2>4. entries_used' \in Nat
    BY <2>3, <2>1, <1>9, Finite, CardNat DEF Counts
  <2>5. NoMappingLost' /\ maps' \in [File -> Nat]
    <3>1. ASSUME NEW g \in File
          PROVE  /\ maps'[g] = Cardinality({j \in Used' : mmap_list'[j].file = g})
                 /\ maps'[g] \in Nat
      <4> DEFINE Before == {j \in Used : mmap_list[j].file = g}
                 After  == {j \in Used' : mmap_list'[j].file = g}
      <4>0. Before \in SUBSET Slots /\ After \in SUBSET Slots
        BY <1>9, <2>1
      <4>1. CASE g = mmap_list[i].file
        <5>1. After = Before \ {i} /\ i \in Before
          BY <2>1, <1>7, <1>9, <1>1, <4>1
        <5>2. Cardinality(After) = Cardinality(Before) - 1
          BY <5>1, <4>0, Finite, RemoveOne
        <5>3. maps'[g] = maps[g] - 1
          BY <1>2, <1>11, <4>1
        <5>4. Cardinality(After) \in Nat
          BY <4>0, Finite, CardNat
        <5> QED BY <5>2, <5>3, <5>4 DEF NoMappingLost
      <4>2. CASE g # mmap_list[i].file
        <5>1. After = Before
          BY <2>1, <1>7, <1>9, <1>1, <4>2
        <5>2. maps'[g] = maps[g]
          BY <1>2, <1>11, <4>2
        <5> QED BY <5>1, <5>2 DEF NoMappingLost
      <4> QED BY <4>1, <4>2
    <3>2. maps' = [g \in File |-> maps'[g]]
      BY <1>1, <1>2, <1>11
    <3> QED BY <3>1, <3>2 DEF NoMappingLost
  <2>6. TypeOK'
    BY <1>1, <1>2, <2>4, <2>5 DEF Forget
  <2>7. OneBeyond'
    BY <1>2, <1>11, UseMaxAssumption DEF OneBeyond
  <2> QED BY <2>3, <2>5, <2>6, <2>7, <1>8
<1> QED BY <1>10, <1>11, <1>2

\* Every step keeps the invariant.
LEMMA StepInv == Inv /\ [Next]_vars => Inv'
<1> SUFFICES ASSUME Inv, [Next]_vars PROVE Inv'
  OBVIOUS
<1>1. CASE UNCHANGED vars
  <2>1. Used' = Used /\ \A j \in Slots : Holders(j)' = Holders(j)
    BY <1>1 DEF vars, Used, Holders
  <2> QED BY <1>1, <2>1 DEF vars, Inv, TypeOK, Counts, HoldsWhatItAsked, NoMappingLost, OneBeyond
<1>2. ASSUME NEW r \in Req, NEW f \in File, find_mmap(r, f) PROVE Inv'
  BY <1>2, OldInv, NewInv DEF find_mmap
<1>3. ASSUME NEW r \in Req, release_mmap(r) PROVE Inv'
  BY <1>3, ReleaseInv
<1> QED BY <1>1, <1>2, <1>3 DEF Next, FindFails

\* mmap_cache.c: the counts, the holders' files, the mappings and the limit
\* are right in every reachable state, for every instance.
THEOREM CacheInvariant == Spec => []Inv
BY InitInv, StepInv, PTL DEF Spec

\* use_count and mmap_list_entries_used count what they are meant to count.
THEOREM CountsHold == Spec => []Counts
<1>1. Inv => Counts
  BY DEF Inv
<1> QED BY <1>1, CacheInvariant, PTL

\* A request sends the file version it opened and no other.
THEOREM HoldersKeepTheirFile == Spec => []HoldsWhatItAsked
<1>1. Inv => HoldsWhatItAsked
  BY DEF Inv
<1> QED BY <1>1, CacheInvariant, PTL

\* The table and the requests keep their types; no use_count or number of
\* mappings goes below zero.
THEOREM TypeCorrect == Spec => []TypeOK
<1>1. Inv => TypeOK
  BY DEF Inv
<1> QED BY <1>1, CacheInvariant, PTL

\* find_mmap and release_mmap: no mapping is lost and none is undone early,
\* also when a file comes to be mapped twice.
THEOREM MappingsKept == Spec => []NoMappingLost
<1>1. Inv => NoMappingLost
  BY DEF Inv
<1> QED BY <1>1, CacheInvariant, PTL

\* find_mmap lets the table grow to one entry beyond MMAP_LIST_USE_MAX, never
\* to a second one: what is left of the limit its comment promises.
THEOREM NeverTwoBeyond == Spec => []OneBeyond
<1>1. Inv => OneBeyond
  BY DEF Inv
<1> QED BY <1>1, CacheInvariant, PTL

-----------------------------------------------------------------------------
(***************************************************************************)
(* The refinement.  A holder's entry keeps its file through every step, so *)
(* a find adds one file to the mapping and a release takes one away.       *)
(***************************************************************************)
Has    == [r \in Req |-> IF entry[r] = NoEntry THEN NoFile ELSE mmap_list[entry[r]].file]
Mapped == {f \in File : maps[f] > 0}

\* A file is mapped exactly as long as some request has it.
MapsAsHeld == \A f \in File : maps[f] > 0 <=> \E r \in Req : Has[r] = f

LEMMA MappedIffHeld == Inv => MapsAsHeld
<1> SUFFICES ASSUME Inv, NEW f \in File
             PROVE  maps[f] > 0 <=> \E r \in Req : Has[r] = f
  BY DEF MapsAsHeld
<1> DEFINE S == {i \in Used : mmap_list[i].file = f}
<1>1. IsFiniteSet(S) /\ maps[f] = Cardinality(S)
  <2>1. S \in SUBSET Slots
    BY DEF Used
  <2> QED BY <2>1, Finite DEF Inv, NoMappingLost
<1>2. maps[f] > 0 <=> \E i \in Slots : i \in S
  BY <1>1, CardNat DEF Used
<1>3. ASSUME NEW i \in Slots, i \in S PROVE \E r \in Req : Has[r] = f
  <2>1. Holders(i) # {}
    <3>1. Holders(i) \in SUBSET Req
      BY DEF Holders
    <3>2. Cardinality(Holders(i)) # 0
      BY <1>3 DEF Inv, Counts, Used
    <3> QED BY <3>1, <3>2, Finite, CardNat
  <2>2. PICK r \in Req : entry[r] = i
    BY <2>1 DEF Holders
  <2> QED BY <2>2, <1>3, NullAssumption DEF Has, Slots
<1>4. ASSUME NEW r \in Req, Has[r] = f PROVE entry[r] \in Slots /\ entry[r] \in S
  <2>1. entry[r] # NoEntry /\ mmap_list[entry[r]].file = f
    BY <1>4, NullAssumption DEF Has
  <2> QED BY <2>1, HeldInUse
<1> QED BY <1>2, <1>3, <1>4

\* A request without an entry has no file, one with an entry has its file.
LEMMA HasType ==
  ASSUME Inv, NEW r \in Req
  PROVE  /\ Has[r] = NoFile <=> entry[r] = NoEntry
         /\ Has[r] \in File \cup {NoFile}
<1>1. CASE entry[r] = NoEntry
  BY <1>1 DEF Has
<1>2. CASE entry[r] # NoEntry
  BY <1>2, HeldInUse, NullAssumption DEF Has
<1> QED BY <1>1, <1>2

\* The same after a step.
LEMMA HeldAfter == Inv' => MapsAsHeld'
BY MappedIffHeld, PTL

\* find_mmap gives r a mapping of f and touches nobody else's.
LEMMA FindMaps ==
  ASSUME Inv, Inv', NEW r \in Req, NEW f \in File, find_mmap(r, f)
  PROVE  Has' = [Has EXCEPT ![r] = f] /\ Mapped' = Mapped \cup {f} /\ Has[r] = NoFile
<1>1. PICK i \in Slots : FindOld(r, f, i) \/ FindNew(r, f, i)
  BY DEF find_mmap
<1>2. entry' = [entry EXCEPT ![r] = i] /\ entry[r] = NoEntry
  BY <1>1 DEF find_mmap, FindOld, FindNew, Given
<1>3. \A s \in Req \ {r} : entry[s] # NoEntry =>
        entry[s] \in Slots /\ mmap_list'[entry[s]].file = mmap_list[entry[s]].file
  <2> TAKE s \in Req \ {r}
  <2> HAVE entry[s] # NoEntry
  <2>1. entry[s] \in Slots /\ mmap_list[entry[s]].use_count > 0
    BY HeldInUse DEF Used
  <2>2. CASE FindOld(r, f, i)
    BY <2>1, <2>2 DEF FindOld, Inv, TypeOK
  <2>3. CASE FindNew(r, f, i)
    BY <2>1, <2>3 DEF FindNew, IsFree, Inv, TypeOK
  <2> QED BY <1>1, <2>1, <2>2, <2>3
<1>4. mmap_list'[i].file = f
  BY <1>1 DEF FindOld, FindNew, Matches, Inv, TypeOK
<1>5. \A s \in Req : Has'[s] = IF s = r THEN f ELSE Has[s]
  BY <1>2, <1>3, <1>4, NullAssumption DEF Has, Slots, Inv, TypeOK
<1>6. Has' = [Has EXCEPT ![r] = f]
  BY <1>5 DEF Has
<1>7. Has[r] = NoFile
  BY <1>2 DEF Has
<1>8. Mapped' = Mapped \cup {f}
  <2>1. \A g \in File : maps'[g] > 0 <=> maps[g] > 0 \/ g = f
    <3> TAKE g \in File
    <3>1. maps[g] > 0 <=> \E s \in Req : Has[s] = g
      BY MappedIffHeld DEF MapsAsHeld
    <3>2. maps'[g] > 0 <=> \E s \in Req : Has'[s] = g
      BY HeldAfter DEF MapsAsHeld
    <3> QED BY <3>1, <3>2, <1>5, <1>7, NullAssumption
  <2> QED BY <2>1 DEF Mapped
<1> QED BY <1>6, <1>7, <1>8

\* release_mmap takes the mapping of r away and touches nobody else's.
LEMMA ReleaseMaps ==
  ASSUME Inv, Inv', NEW r \in Req, release_mmap(r)
  PROVE  /\ Has[r] # NoFile
         /\ Has' = [Has EXCEPT ![r] = NoFile]
         /\ Mapped' = IF \E s \in Req \ {r} : Has[s] = Has[r]
                      THEN Mapped ELSE Mapped \ {Has[r]}
<1>1. entry[r] # NoEntry /\ entry' = [entry EXCEPT ![r] = NoEntry]
  BY DEF release_mmap, Forget
<1>2. \A i \in Slots : mmap_list'[i].file = mmap_list[i].file
  BY <1>1, HeldInUse DEF release_mmap, Inv, TypeOK
<1>3. \A s \in Req : Has'[s] = IF s = r THEN NoFile ELSE Has[s]
  BY <1>1, <1>2 DEF Has, Inv, TypeOK
<1>4. Has' = [Has EXCEPT ![r] = NoFile]
  BY <1>3 DEF Has
<1>5. Has[r] \in File
  BY <1>1, HasType
<1>6. \A g \in File : maps'[g] > 0 <=> \E s \in Req \ {r} : Has[s] = g
  <2> TAKE g \in File
  <2>1. maps'[g] > 0 <=> \E s \in Req : Has'[s] = g
    BY HeldAfter DEF MapsAsHeld
  <2> QED BY <2>1, <1>3, NullAssumption
<1>7. \A g \in File : maps[g] > 0 <=> \E s \in Req : Has[s] = g
  BY MappedIffHeld DEF MapsAsHeld
<1>8. CASE \E s \in Req \ {r} : Has[s] = Has[r]
  <2>1. \A g \in File : maps'[g] > 0 <=> maps[g] > 0
    BY <1>6, <1>7, <1>8
  <2>2. Mapped' = Mapped
    BY <2>1 DEF Mapped
  <2> QED BY <2>2, <1>4, <1>5, <1>8, NullAssumption
<1>9. CASE ~\E s \in Req \ {r} : Has[s] = Has[r]
  <2>1. \A g \in File : maps'[g] > 0 <=> maps[g] > 0 /\ g # Has[r]
    BY <1>6, <1>7, <1>9
  <2>2. Mapped' = Mapped \ {Has[r]}
    BY <2>1 DEF Mapped
  <2> QED BY <2>2, <1>4, <1>5, <1>9, NullAssumption
<1> QED BY <1>8, <1>9

\* mmap_cache.c implements Mappings for every instance: init_get gets and
\* free_request gives back a shared mapping that lives exactly as long as
\* it is used.
THEOREM CacheImplementsMappings == Spec => ImplementsMappings
<1>1. Init => M!Init
  <2> SUFFICES ASSUME Init PROVE M!Init
    OBVIOUS
  <2>1. \A f \in File : ~(maps[f] > 0)
    BY DEF Init
  <2> QED BY <2>1 DEF Init, M!Init
<1>2. Inv /\ Inv' /\ [Next]_vars => [M!Next]_<<Has, Mapped>>
  <2> SUFFICES ASSUME Inv, Inv', [Next]_vars PROVE M!Next \/ UNCHANGED <<Has, Mapped>>
    OBVIOUS
  <2>1. CASE UNCHANGED vars
    BY <2>1 DEF vars, Has, Mapped
  <2>2. ASSUME NEW r \in Req, NEW f \in File, find_mmap(r, f) PROVE M!Next
    <3>1. M!Acquire(r, f)
      BY <2>2, FindMaps DEF M!Acquire, Has, Mapped
    <3> QED BY <3>1 DEF M!Next
  <2>3. ASSUME NEW r \in Req, release_mmap(r) PROVE M!Next
    <3>1. M!Release(r)
      BY <2>3, ReleaseMaps DEF M!Release, Has, Mapped
    <3> QED BY <3>1 DEF M!Next
  <2> QED BY <2>1, <2>2, <2>3 DEF Next, FindFails
<1>3. Inv /\ Inv' /\ [Next]_vars => [M!Next]_<<[r \in Req |-> IF entry[r] = NoEntry THEN NoFile
                                                   ELSE mmap_list[entry[r]].file],
                                               {f \in File : maps[f] > 0}>>
  BY <1>2 DEF Has, Mapped
<1> QED BY <1>1, <1>3, CacheInvariant, PTL DEF Spec, ImplementsMappings, M!Spec
=============================================================================
