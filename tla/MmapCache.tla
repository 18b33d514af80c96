----------------------------- MODULE MmapCache -----------------------------
(***************************************************************************)
(* mmap_cache.c: mapped files shared between requests through a hash table *)
(* with open addressing.  An entry is free when its use_count is 0; there  *)
(* are no tombstones, so an entry may come to lie beyond a free slot of    *)
(* its probe sequence, and a file may be mapped twice.                     *)
(*                                                                         *)
(* A member of File is a version of a file as find_mmap tells them apart:  *)
(* device, inode and size; Ino gives its inode number.  The callers are    *)
(* init_get, which keeps the entry in req->mmap_entry_var, and             *)
(* free_request.                                                           *)
(*                                                                         *)
(* MatchesInode, ReleasedAtOnce and ReleasedNeverUnmapped are Matches and  *)
(* release_mmap with a fault in them; nothing uses them.                   *)
(***************************************************************************)
EXTENDS Integers, FiniteSets

CONSTANTS
  Req,      \* the request structures
  File,     \* the file versions clients ask for
  Ino,      \* their inode numbers
  Size,     \* MMAP_LIST_SIZE
  UseMax,   \* MMAP_LIST_USE_MAX
  NoFile,   \* not a file: an entry never used
  NoEntry   \* NULL

ASSUME SizeAssumption == Size \in Nat \ {0}
ASSUME UseMaxAssumption == UseMax \in Nat
ASSUME InoAssumption == Ino \in [File -> Nat]
ASSUME NullAssumption == NoFile \notin File /\ NoEntry \notin 0..Size - 1
ASSUME ReqFinite == IsFiniteSet(Req)

VARIABLES
  mmap_list,      \* the table: dev, ino and len as file, and use_count
  entries_used,   \* mmap_list_entries_used
  entry,          \* mmap_entry_var of each request, or NoEntry
  asked,          \* history: the file each holder asked for
  maps            \* the process's mappings: how many of each file (kernel)

vars == <<mmap_list, entries_used, entry, asked, maps>>

Slots == 0..Size - 1
Used  == {i \in Slots : mmap_list[i].use_count > 0}
Holders(i) == {r \in Req : entry[r] = i}

TypeOK ==
  /\ mmap_list \in [Slots -> [file : File \cup {NoFile}, use_count : Nat]]
  /\ entries_used \in Nat
  /\ entry \in [Req -> Slots \cup {NoEntry}]
  /\ asked \in [Req -> File \cup {NoFile}]
  /\ maps \in [File -> Nat]

Init ==
  /\ mmap_list = [i \in Slots |-> [file |-> NoFile, use_count |-> 0]]
  /\ entries_used = 0
  /\ entry = [r \in Req |-> NoEntry]
  /\ asked = [r \in Req |-> NoFile]
  /\ maps = [f \in File |-> 0]

-----------------------------------------------------------------------------
MMAP_LIST_HASH(f) == Ino[f] % Size

\* the k-th slot looked at, MMAP_LIST_NEXT wrapping around
ProbeNext(f, k) == (MMAP_LIST_HASH(f) + k) % Size

MatchesInode(i, f) == mmap_list[i].use_count > 0 /\ Ino[mmap_list[i].file] = Ino[f]
Matches(i, f) == mmap_list[i].use_count > 0 /\ mmap_list[i].file = f
IsFree(i)     == mmap_list[i].use_count = 0

\* the search stops at slot i: a match or a free slot before any other
StopsAt(f, i) ==
  \E k \in 0..Size - 1 :
    /\ i = ProbeNext(f, k)
    /\ IsFree(i) \/ Matches(i, f)
    /\ \A j \in 0..k - 1 : ~IsFree(ProbeNext(f, j)) /\ ~Matches(ProbeNext(f, j), f)

NoMore == entries_used > UseMax

Given(r, f, i) ==
  /\ entry' = [entry EXCEPT ![r] = i]
  /\ asked' = [asked EXCEPT ![r] = f]

\* find_mmap, an old entry
FindOld(r, f, i) ==
  /\ Matches(i, f)
  /\ mmap_list' = [mmap_list EXCEPT ![i].use_count = @ + 1]
  /\ Given(r, f, i)
  /\ UNCHANGED <<entries_used, maps>>

\* find_mmap, a new entry
FindNew(r, f, i) ==
  /\ IsFree(i)
  /\ ~NoMore
  /\ mmap_list' = [mmap_list EXCEPT ![i] = [file |-> f, use_count |-> 1]]
  /\ entries_used' = entries_used + 1
  /\ maps' = [maps EXCEPT ![f] = @ + 1]
  /\ Given(r, f, i)

find_mmap(r, f) ==
  /\ entry[r] = NoEntry
  /\ \E i \in Slots : StopsAt(f, i) /\ (FindOld(r, f, i) \/ FindNew(r, f, i))

\* NULL is returned: the table is full, too many entries are used, or mmap
\* or madvise fails (after which the mapping is undone).
FindFails(r, f) ==
  /\ entry[r] = NoEntry
  /\ \A i \in Slots : StopsAt(f, i) => IsFree(i)
  /\ UNCHANGED vars

\* release_mmap, called by free_request for a request with an entry
Forget(r) ==
  /\ entry' = [entry EXCEPT ![r] = NoEntry]
  /\ asked' = [asked EXCEPT ![r] = NoFile]

ReleasedAtOnce(r) ==
  LET i == entry[r]
  IN  /\ i # NoEntry
      /\ mmap_list' = [mmap_list EXCEPT ![i].use_count = 0]
      /\ entries_used' = entries_used - 1
      /\ maps' = [maps EXCEPT ![mmap_list[i].file] = @ - 1]
      /\ Forget(r)

ReleasedNeverUnmapped(r) ==
  LET i == entry[r]
      n == mmap_list[i].use_count - 1
  IN  /\ i # NoEntry
      /\ mmap_list' = [mmap_list EXCEPT ![i].use_count = n]
      /\ entries_used' = IF n = 0 THEN entries_used - 1 ELSE entries_used
      /\ UNCHANGED maps
      /\ Forget(r)

release_mmap(r) ==
  LET i == entry[r]
      n == mmap_list[i].use_count - 1
  IN  /\ i # NoEntry
      /\ IF mmap_list[i].use_count = 0
         THEN UNCHANGED <<mmap_list, entries_used, maps>>
         ELSE /\ mmap_list' = [mmap_list EXCEPT ![i].use_count = n]
              /\ IF n = 0
                 THEN /\ maps' = [maps EXCEPT ![mmap_list[i].file] = @ - 1]
                      /\ entries_used' = entries_used - 1
                 ELSE UNCHANGED <<maps, entries_used>>
      /\ Forget(r)

Next ==
  \E r \in Req :
    \/ \E f \in File : find_mmap(r, f) \/ FindFails(r, f)
    \/ release_mmap(r)

Spec == Init /\ [][Next]_vars

-----------------------------------------------------------------------------
\* A slot's use_count is the number of requests pointing at it, and the
\* number of slots in use is what mmap_list_entries_used says, however
\* requests for the same and for colliding files come and go.
Counts ==
  /\ entries_used = Cardinality(Used)
  /\ \A i \in Slots : mmap_list[i].use_count = Cardinality(Holders(i))

\* A request sends the very file version it opened: the entry it points at
\* was never handed to another file while the request held it.
HoldsWhatItAsked ==
  \A r \in Req :
    /\ entry[r] # NoEntry => mmap_list[entry[r]].file = asked[r] /\ asked[r] # NoFile
    /\ entry[r] = NoEntry => asked[r] = NoFile

\* Every mapping of the process belongs to a slot in use and every slot in
\* use has its mapping, also when a file is mapped twice: no mapping leaks
\* and none is undone while in use.
NoMappingLost ==
  \A f \in File : maps[f] = Cardinality({i \in Used : mmap_list[i].file = f})

\* mmap_cache.c, find_mmap: "Disallow more entries than MMAP_LIST_USE_MAX,
\* despite having found an available slot."
TableLimit == entries_used <= UseMax

\* The cache is the shared mappings its callers rely on.
M == INSTANCE Mappings
       WITH has    <- [r \in Req |-> IF entry[r] = NoEntry THEN NoFile
                                     ELSE mmap_list[entry[r]].file],
            mapped <- {f \in File : maps[f] > 0}

\* mmap_cache.c implements Mappings: a request never loses its mapping to
\* the release of another, and the last release unmaps.
ImplementsMappings == M!Spec
=============================================================================
