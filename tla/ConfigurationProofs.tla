------------------------ MODULE ConfigurationProofs ------------------------
(***************************************************************************)
(* Proofs about Configuration for any files, preferences, hosts and users. *)
(*                                                                         *)
(* DocrootIsFresh is not inductive: a change of the preference in the very *)
(* second the copy was taken would leave two equal stamps.  It holds since *)
(* the copy's own stamp is never written: it stays 0, a time no change     *)
(* has, so equal stamps mean that no preference changed since the last     *)
(* call.                                                                   *)
(*                                                                         *)
(* The other properties are about a file that was read to its end.  Each   *)
(* has an invariant of its own that says the same of the lines before the  *)
(* next one: MimeInv, NumbersInv, AliasInv and CachesInv.                  *)
(***************************************************************************)
EXTENDS Configuration, FiniteSetTheorems, TLAPS

\* What TypeOK says of a pair of pref_stamp and the cached copies.
StampsOK(s) ==
  /\ s[1] \in 0..MaxTime + 1
  /\ DOMAIN s[2] = PrefKeys
  /\ \A k \in PrefKeys : DOMAIN s[2][k] = {"str", "stamp"} /\ s[2][k].stamp \in 0..MaxTime + 1

\* The document root's copy never has a stamp of its own.
Fresh(s) ==
  /\ s[2][DOC].stamp = 0
  /\ s[1] = 0 /\ s[2][DOC].str # Unset => s[2][DOC].str = cr_pref_get(DOC)

\* crpref_docroot keeps both, whatever the stamps were.
LEMMA DocrootKeeps ==
  ASSUME NEW s, StampsOK(s), Fresh(s)
  PROVE  StampsOK(crpref_docroot(s)) /\ Fresh(crpref_docroot(s))
<1> DEFINE r == [str |-> cr_pref_get(DOC), stamp |-> s[2][DOC].stamp]
           c == [s[2] EXCEPT ![DOC] = r]
<1>1. CASE ~IsStale(s, DOC)
  BY <1>1 DEF crpref_docroot
<1>2. CASE IsStale(s, DOC)
  <2>1. crpref_docroot(s) = <<s[2][DOC].stamp, c>>
    BY <1>2 DEF crpref_docroot
  <2>2. DOMAIN r = {"str", "stamp"} /\ r.stamp = s[2][DOC].stamp /\ r.str = cr_pref_get(DOC)
    OBVIOUS
  <2> HIDE DEF r
  <2>3. /\ DOMAIN c = PrefKeys
        /\ \A j \in PrefKeys : c[j] = IF j = DOC THEN r ELSE s[2][j]
    BY DEF StampsOK
  <2> HIDE DEF c
  <2>4. QED BY <2>1, <2>2, <2>3, KeysAssumption DEF StampsOK, Fresh
<1>3. QED BY <1>1, <1>2

\* The other copies keep both, as they leave the document root's alone.
LEMMA CopyKeeps ==
  ASSUME NEW s, NEW k, k # DOC, StampsOK(s), Fresh(s)
  PROVE  StampsOK(crpref(s, k)) /\ Fresh(crpref(s, k))
<1> DEFINE r == [str |-> cr_pref_get(k), stamp |-> s[1]]
           c == [s[2] EXCEPT ![k] = r]
<1>1. CASE ~IsStale(s, k)
  BY <1>1 DEF crpref
<1>2. CASE IsStale(s, k)
  <2>1. crpref(s, k) = <<s[1], c>>
    BY <1>2 DEF crpref
  <2>2. DOMAIN r = {"str", "stamp"} /\ r.stamp = s[1]
    OBVIOUS
  <2> HIDE DEF r
  <2>3. /\ DOMAIN c = PrefKeys
        /\ \A j \in PrefKeys : c[j] = IF j = k THEN r ELSE s[2][j]
    BY DEF StampsOK
  <2> HIDE DEF c
  <2>4. QED BY <2>1, <2>2, <2>3, KeysAssumption DEF StampsOK, Fresh
<1>3. QED BY <1>1, <1>2

-----------------------------------------------------------------------------
S == <<pref_stamp, cache>>

\* What TypeOK says of everything else.
RestOK ==
  /\ pc \in {"inline", "parse", "serve", "exited"}
  /\ file \in Files
  /\ line \in 1..Len(file) + 1
  /\ DOMAIN prefs = PrefKeys
  /\ ka_max \in 0..UIntMax
  /\ max_connections \in 0..UIntMax
  /\ virtualhost \in BOOLEAN /\ vhost_root \in BOOLEAN
  /\ server_name \in Hosts
  /\ DOMAIN alias = Buckets
  /\ DOMAIN mime = DOMAIN MimeFile
  /\ DOMAIN passwd = Users /\ DOMAIN homeRead = Users
  /\ DOMAIN lists = Hosts /\ DOMAIN htRead = Hosts
  /\ DOMAIN filters = FilterNames
  /\ now \in 1..MaxTime + 1

Inv == RestOK /\ StampsOK(S) /\ Fresh(S)

\* The invariant gives both properties.
LEMMA InvImplies == Inv => TypeOK /\ DocrootIsFresh
<1> SUFFICES ASSUME Inv PROVE TypeOK /\ DocrootIsFresh
  OBVIOUS
<1>1. S[1] = pref_stamp /\ S[2] = cache
  BY DEF S
<1>2. TypeOK
  BY <1>1 DEF Inv, RestOK, StampsOK, TypeOK
<1>3. DocrootIsFresh
  BY <1>1 DEF Inv, Fresh, DocrootIsFresh, IsStale, S
<1>4. QED BY <1>2, <1>3

\* New stamps that are in order, with the preferences as they were.
LEMMA StampsKeep ==
  ASSUME NEW s, StampsOK(s), Fresh(s), Stamps(s), prefs' = prefs
  PROVE  StampsOK(S)' /\ Fresh(S)'
<1>1. (S[1])' = s[1] /\ (S[2])' = s[2]
  BY DEF S, Stamps
<1>2. (cr_pref_get(DOC))' = cr_pref_get(DOC)
  BY DEF cr_pref_get
<1>3. QED BY <1>1, <1>2 DEF StampsOK, Fresh

\* Stamps and preferences that nothing touched.
LEMMA SameStamps ==
  ASSUME StampsOK(S), Fresh(S), UNCHANGED <<stamps, prefs>>
  PROVE  StampsOK(S)' /\ Fresh(S)'
<1>1. Stamps(S) /\ prefs' = prefs
  BY DEF S, Stamps, stamps
<1>2. QED BY <1>1, StampsKeep

\* A change of a preference, or a reload, leaves a stamp that is no copy's.
LEMMA NowStamps ==
  ASSUME Inv, pref_stamp' = now, UNCHANGED cache
  PROVE  StampsOK(S)' /\ Fresh(S)'
<1>1. (S[1])' = now /\ (S[2])' = S[2]
  BY DEF S
<1>2. now \in 1..MaxTime + 1 /\ MaxTime \in Nat
  BY NumbersAssumption DEF Inv, RestOK
<1>3. QED BY <1>1, <1>2 DEF Inv, StampsOK, Fresh

\* Whatever a request that was translated goes on to do.
LEMMA GetKeeps ==
  ASSUME NEW h, NEW s, StampsOK(s), Fresh(s), init_get(h, s), prefs' = prefs
  PROVE  StampsOK(S)' /\ Fresh(S)'
<1>1. PICK v \in {s, crpref_docroot(s)} :
        \/ Stamps(v)
        \/ LET t == AfterList(AccessHost(h), v)
           IN  \/ Stamps(t) \/ Stamps(crpref_docroot(t))
               \/ \E k, j \in PrefKeys \ {DOC} : Stamps(crpref(crpref(t, k), j))
  BY DEF init_get
<1> DEFINE t == AfterList(AccessHost(h), v)
<1>2. StampsOK(v) /\ Fresh(v)
  BY DocrootKeeps
<1>3. StampsOK(t) /\ Fresh(t)
  BY <1>2, DocrootKeeps DEF AfterList
<1>4. \/ Stamps(v) \/ Stamps(t) \/ Stamps(crpref_docroot(t))
      \/ \E k, j \in PrefKeys \ {DOC} : Stamps(crpref(crpref(t, k), j))
  BY <1>1
<1> HIDE DEF t
<1>5. CASE Stamps(v) \/ Stamps(t)
  BY <1>2, <1>3, <1>5, StampsKeep
<1>6. CASE Stamps(crpref_docroot(t))
  BY <1>3, <1>6, StampsKeep, DocrootKeeps
<1>7. ASSUME NEW k \in PrefKeys \ {DOC}, NEW j \in PrefKeys \ {DOC},
             Stamps(crpref(crpref(t, k), j))
      PROVE  StampsOK(S)' /\ Fresh(S)'
  <2>1. StampsOK(crpref(t, k)) /\ Fresh(crpref(t, k))
    BY <1>3, CopyKeeps
  <2>2. StampsOK(crpref(crpref(t, k), j)) /\ Fresh(crpref(crpref(t, k), j))
    BY <2>1, CopyKeeps
  <2>3. QED BY <1>7, <2>2, StampsKeep
<1>8. QED BY <1>4, <1>5, <1>6, <1>7

\* The access lists keep one entry for each host, the filters their names.
LEMMA ListsKeep ==
  ASSUME NEW h, NEW extra, RestOK, WithList(h, extra)
  PROVE  DOMAIN lists' = Hosts /\ DOMAIN htRead' = Hosts /\ DOMAIN filters' = FilterNames
BY DEF WithList, RestOK, Added

-----------------------------------------------------------------------------
LEMMA EmptyFile == 1 \in 1..Len(<<>>) + 1
OBVIOUS

LEMMA InvInit == Init => Inv
<1> SUFFICES ASSUME Init PROVE Inv
  OBVIOUS
<1>1. S[1] = 0 /\ S[2] = [k \in PrefKeys |-> [str |-> Unset, stamp |-> 0]]
  BY DEF S, Init
<1>2. StampsOK(S) /\ Fresh(S)
  BY <1>1, KeysAssumption, NumbersAssumption DEF StampsOK, Fresh
<1>3. file \in Files /\ line \in 1..Len(file) + 1
  BY LinesAssumption, EmptyFile DEF Init
<1>4. now \in 1..MaxTime + 1 /\ 0 \in 0..UIntMax
  BY NumbersAssumption DEF Init
<1>5. DOMAIN prefs = PrefKeys /\ DOMAIN alias = Buckets
  BY DEF Init, Empty
<1>6. RestOK
  BY <1>3, <1>4, <1>5, ServerAssumption DEF Init, RestOK, Empty
<1>7. QED BY <1>2, <1>6 DEF Inv

LEMMA InvNext == Inv /\ [Next]_vars => Inv'
<1> SUFFICES ASSUME Inv, [Next]_vars PROVE Inv'
  OBVIOUS
<1> USE DEF Inv
<1>1. CASE Sighup
  <2>1. (file \in Files /\ line \in 1..Len(file) + 1)'
    BY <1>1, LinesAssumption, EmptyFile DEF Sighup
  <2>2. (DOMAIN alias = Buckets /\ DOMAIN mime = DOMAIN MimeFile /\ DOMAIN passwd = Users)'
    BY <1>1 DEF Sighup, dump_mime, dump_passwd, dump_alias, Empty
  <2>3. (DOMAIN homeRead = Users /\ DOMAIN lists = Hosts /\ DOMAIN htRead = Hosts)'
    BY <1>1 DEF RestOK, Sighup, Empty
  <2>4. RestOK'
    BY <1>1, <2>1, <2>2, <2>3 DEF RestOK, Sighup, globals
  <2>5. QED BY <1>1, <2>4, SameStamps DEF Sighup
<1>2. CASE apply_inline_preferences
  <2>1. (file \in Files /\ line \in 1..Len(file) + 1)'
    BY <1>2, LinesAssumption DEF apply_inline_preferences, RestOK
  <2>2. RestOK'
    BY <1>2, <2>1, NumbersAssumption, ServerAssumption
    DEF RestOK, apply_inline_preferences, ResetInts, Added, access_init, Empty
  <2>3. QED BY <1>2, <2>2, NowStamps DEF apply_inline_preferences
<1>3. CASE c_set_preference
  <2>1. RestOK'
    BY <1>3, LinesAssumption
    DEF RestOK, c_set_preference, Reading, hash_insert, globals, tables, access
  <2>2. QED BY <1>3, <2>1, NowStamps DEF c_set_preference
<1>4. CASE c_set_int
  <2>1. PICK key \in {"KeepAliveMax", "MaxConnections"} : Reading(key)
    BY <1>4 DEF c_set_int
  <2>2. Arg \in Int \cup {Unset}
    BY <2>1, LinesAssumption DEF Reading, Arg, RestOK
  <2>3. ASSUME NEW old \in 0..UIntMax PROVE Stored(Arg, old) \in 0..UIntMax
    BY <2>2, NumbersAssumption DEF Stored
  <2>4. ka_max' \in 0..UIntMax /\ max_connections' \in 0..UIntMax
    BY <1>4, <2>3 DEF c_set_int, RestOK
  <2>5. RestOK'
    BY <1>4, <2>1, <2>4, LinesAssumption DEF RestOK, c_set_int, Reading, tables, access
  <2>6. QED BY <1>4, <2>5, SameStamps DEF c_set_int
<1>5. CASE c_set_unity
  <2>1. RestOK'
    BY <1>5, LinesAssumption DEF RestOK, c_set_unity, Reading, tables, access
  <2>2. QED BY <1>5, <2>1, SameStamps DEF c_set_unity
<1>6. CASE c_set_string
  <2>1. CASE Reading("VHostRoot") /\ vhost_root' = TRUE /\ UNCHANGED server_name
    BY <1>6, <2>1, LinesAssumption, SameStamps
    DEF RestOK, c_set_string, Reading, tables, access
  <2>2. CASE Reading("ServerName") /\ server_name' = Arg /\ UNCHANGED vhost_root
    <3>1. Arg \in Hosts
      BY <2>2, LinesAssumption DEF RestOK, Reading, Arg
    <3>2. RestOK'
      BY <1>6, <2>2, <3>1, LinesAssumption DEF RestOK, c_set_string, Reading, tables, access
    <3>3. QED BY <1>6, <3>2, SameStamps DEF c_set_string
  <2>3. QED BY <1>6, <2>1, <2>2 DEF c_set_string
<1>7. CASE c_add_mime_type
  <2>1. RestOK'
    BY <1>7, LinesAssumption DEF RestOK, c_add_mime_type, Reading, hash_insert, globals, access
  <2>2. QED BY <1>7, <2>1, SameStamps DEF c_add_mime_type
<1>8. CASE c_add_alias
  <2>1. DOMAIN alias' = Buckets
    BY <1>8 DEF RestOK, c_add_alias, add_alias
  <2>2. RestOK'
    BY <1>8, <2>1, LinesAssumption DEF RestOK, c_add_alias, Reading, globals, access
  <2>3. QED BY <1>8, <2>2, SameStamps DEF c_add_alias
<1>9. CASE c_add_access
  <2>1. DOMAIN lists' = Hosts /\ DOMAIN htRead' = Hosts /\ DOMAIN filters' = FilterNames
    BY <1>9, ListsKeep DEF c_add_access
  <2>2. RestOK'
    BY <1>9, <2>1, LinesAssumption DEF RestOK, c_add_access, Reading, globals, tables
  <2>3. StampsOK(AfterList(server_name, S)) /\ Fresh(AfterList(server_name, S))
    BY DocrootKeeps DEF AfterList
  <2>4. QED BY <1>9, <2>2, <2>3, StampsKeep DEF c_add_access, S
<1>10. CASE UnknownKeyword
  <2>1. RestOK'
    BY <1>10 DEF RestOK, UnknownKeyword, globals, tables, access
  <2>2. QED BY <1>10, <2>1, SameStamps DEF UnknownKeyword
<1>11. CASE MutuallyExclusive
  <2>1. RestOK'
    BY <1>11 DEF RestOK, MutuallyExclusive, globals, tables, access
  <2>2. prefs' = prefs /\ (UNCHANGED stamps \/ Stamps(crpref_docroot(S)))
    BY <1>11 DEF MutuallyExclusive, S
  <2>3. QED BY <2>1, <2>2, SameStamps, StampsKeep, DocrootKeeps
<1>12. CASE Loaded
  <2>1. Usable(max_connections) \in 0..UIntMax
    BY NumbersAssumption DEF RestOK, Usable
  <2>2. RestOK'
    BY <1>12, <2>1 DEF RestOK, Loaded, Added, access
  <2>3. QED BY <1>12, <2>2, SameStamps DEF Loaded
<1>13. CASE Request
  <2>1. PICK uri \in Uris, h \in Hosts : translate_uri(uri, h)
    BY <1>13 DEF Request
  <2> DEFINE t == crpref(S, "UserDir")
  <2>2. StampsOK(t) /\ Fresh(t)
    BY CopyKeeps DEF DOC
  <2>3. prefs' = prefs
    BY <1>13 DEF Request
  <2>4. ASSUME NEW s, init_get(h, s)
        PROVE  DOMAIN lists' = Hosts /\ DOMAIN htRead' = Hosts /\ DOMAIN filters' = FilterNames
    BY <2>4, ListsKeep DEF init_get, access, RestOK
  <2>5. ASSUME NEW u, NEW home, get_home_dir(u, home)
        PROVE  DOMAIN passwd' = Users /\ DOMAIN homeRead' = Users
    BY <2>5 DEF get_home_dir, RestOK
  <2> DEFINE Kept == /\ DOMAIN lists' = Hosts /\ DOMAIN htRead' = Hosts
                     /\ DOMAIN filters' = FilterNames
                     /\ DOMAIN passwd' = Users /\ DOMAIN homeRead' = Users
                     /\ StampsOK(S)' /\ Fresh(S)'
  <2>6. ASSUME init_get(h, S), UNCHANGED <<passwd, homeRead>> PROVE Kept
    <3>1. StampsOK(S)' /\ Fresh(S)'
      BY <2>3, <2>6, GetKeeps
    <3>2. QED BY <2>4, <2>6, <3>1 DEF RestOK
  <2>7. ASSUME init_get(h, crpref_docroot(t)), UNCHANGED <<passwd, homeRead>> PROVE Kept
    <3>1. StampsOK(S)' /\ Fresh(S)'
      BY <2>2, <2>3, <2>7, GetKeeps, DocrootKeeps
    <3>2. QED BY <2>4, <2>7, <3>1 DEF RestOK
  <2>8. ASSUME \E u, home : /\ get_home_dir(u, home)
                            /\ IF home = Unset THEN Stamps(t) /\ UNCHANGED access
                               ELSE init_get(h, t)
        PROVE  Kept
    <3>1. PICK u, home : /\ get_home_dir(u, home)
                         /\ IF home = Unset THEN Stamps(t) /\ UNCHANGED access ELSE init_get(h, t)
      BY <2>8
    <3>2. DOMAIN passwd' = Users /\ DOMAIN homeRead' = Users
      BY <2>5, <3>1
    <3>3. CASE home = Unset
      <4>1. StampsOK(S)' /\ Fresh(S)'
        BY <2>2, <2>3, <3>1, <3>3, StampsKeep
      <4>2. QED BY <3>1, <3>2, <3>3, <4>1 DEF RestOK, access
    <3>4. CASE home # Unset
      <4>1. StampsOK(S)' /\ Fresh(S)'
        BY <2>2, <2>3, <3>1, <3>4, GetKeeps
      <4>2. QED BY <2>4, <3>1, <3>2, <3>4, <4>1
    <3>5. QED BY <3>3, <3>4
  <2>9. Kept
    <3> HIDE DEF Kept
    <3>1. \/ init_get(h, S) /\ UNCHANGED <<passwd, homeRead>>
          \/ init_get(h, crpref_docroot(t)) /\ UNCHANGED <<passwd, homeRead>>
          \/ \E u, home : /\ get_home_dir(u, home)
                          /\ IF home = Unset THEN Stamps(t) /\ UNCHANGED access ELSE init_get(h, t)
      BY <2>1 DEF translate_uri, S
    <3>2. QED BY <2>6, <2>7, <2>8, <3>1
  <2>10. RestOK'
    BY <1>13, <2>9 DEF RestOK, Request, globals
  <2>11. QED BY <2>9, <2>10
<1>14. CASE Tick
  <2>1. RestOK'
    BY <1>14, NumbersAssumption DEF RestOK, Tick, globals, tables, access
  <2>2. QED BY <1>14, <2>1, SameStamps DEF Tick
<1>15. CASE Exited \/ UNCHANGED vars
  <2>1. RestOK'
    BY <1>15 DEF Exited, vars, RestOK, globals, tables, access
  <2>2. QED BY <1>15, <2>1, SameStamps DEF Exited, vars
<1>16. QED
  BY <1>1, <1>2, <1>3, <1>4, <1>5, <1>6, <1>7, <1>8, <1>9, <1>10, <1>11, <1>12, <1>13,
     <1>14, <1>15 DEF Next

LEMMA InvAlways == Spec => []Inv
BY InvInit, InvNext, PTL DEF Spec

\* In every run, with any files, hosts and users, the tables, copies and
\* numbers config.c and its caches keep have the values they are typed for:
\* also a negative KeepAliveMax ends up in an unsigned variable.
THEOREM TypeCorrect == Spec => []TypeOK
<1>1. Inv => TypeOK
  BY InvImplies
<1>2. QED BY <1>1, InvAlways, PTL

\* However the lines, requests and reloads of crpref_docroot's clock second
\* interleave, the copy it would hand out is the preference in force.
THEOREM DocrootFresh == Spec => []DocrootIsFresh
<1>1. Inv => DocrootIsFresh
  BY InvImplies
<1>2. QED BY <1>1, InvAlways, PTL

-----------------------------------------------------------------------------
(***************************************************************************)
(* What the last load left in the tables.  The properties speak of a whole *)
(* file; while it is read they hold of the lines before the next one.      *)
(***************************************************************************)
\* What a line that was read leaves behind.
LEMMA LineRead ==
  ASSUME Inv, NEW key, Reading(key)
  PROVE  /\ pc = "parse" /\ pc' = "parse" /\ file' = file /\ line' = line + 1
         /\ line \in Nat /\ line \in 1..Len(file) /\ file[line][1] = key
         /\ file \in Files /\ Len(file) \in Nat /\ Arg = file[line][2]
  BY LinesAssumption DEF Inv, RestOK, Reading, Arg

\* The lines that neither fill a table nor set a number or a name.
PlainLine == c_set_preference \/ c_set_unity

LEMMA PlainRead ==
  ASSUME Inv, PlainLine
  PROVE  /\ UNCHANGED <<ka_max, max_connections, server_name, tables, access, homeRead>>
         /\ \E key \in PrefKeys \cup {"VirtualHost"} : Reading(key)
  BY DEF PlainLine, c_set_preference, c_set_unity, globals, tables, access, Reading

\* Steps that change nothing but a clock, the copies of preferences, or
\* pc to "exited".
Idle ==
  UNCHANGED <<pc, file, line, prefs, globals, tables, access, homeRead>>

LEMMA Steps ==
  ASSUME [Next]_vars
  PROVE  \/ Sighup \/ apply_inline_preferences \/ Loaded \/ Request \/ Idle
         \/ pc' = "exited" /\ UNCHANGED <<alias, passwd, access, homeRead>>
         \/ PlainLine \/ c_set_int \/ c_set_string
         \/ c_add_mime_type \/ c_add_alias \/ c_add_access
  BY DEF Next, vars, Tick, Exited, UnknownKeyword, MutuallyExclusive, PlainLine, Idle, tables

\* The end of the file.
LEMMA AtEnd ==
  ASSUME Inv, EndOfFile
  PROVE  pc = "parse" /\ line = Len(file) + 1 /\ Len(file) \in Nat /\ file \in Files
         /\ 1..line - 1 = 1..Len(file)
<1>1. pc = "parse" /\ line > Len(file) /\ line \in 1..Len(file) + 1 /\ Len(file) \in Nat
      /\ file \in Files
  BY LinesAssumption DEF Inv, RestOK, EndOfFile
<1>2. line = Len(file) + 1 /\ line - 1 = Len(file)
  BY <1>1
<1> QED
  BY <1>1, <1>2

-----------------------------------------------------------------------------
\* MIME types

AddsType(f, i, e) == f[i][1] = "AddType" /\ f[i][3] = e

FirstType(f, i, e) == AddsType(f, i, e) /\ \A j \in 1..i - 1 : ~AddsType(f, j, e)

\* The types after the lines of f before line l.
MimeBefore(m, f, l) ==
  \A e \in DOMAIN MimeFile :
    /\ MimeFile[e] # Unset => m[e] = MimeFile[e]
    /\ MimeFile[e] = Unset =>
         \/ m[e] = Unset /\ \A i \in 1..l - 1 : ~AddsType(f, i, e)
         \/ \E i \in 1..l - 1 : FirstType(f, i, e) /\ m[e] = f[i][2]

MimeInv ==
  /\ pc = "inline" => mime = Empty(DOMAIN MimeFile)
  /\ pc = "parse" => MimeBefore(mime, file, line)
  /\ MimeFollowsFile

\* The type a whole file f gives to extension e, as MimeFollowsFile has it.
TypeLine(f, e) == FirstOf(f, LAMBDA l : l[1] = "AddType" /\ l[3] = e)

TypeIn(f, e) ==
  CASE MimeFile[e] # Unset -> MimeFile[e]
    [] MimeFile[e] = Unset /\ TypeLine(f, e) # Unset -> TypeLine(f, e)[2]
    [] OTHER -> BuiltinMime[e]

LEMMA MimeMeans ==
  /\ MimeFollowsFile
       <=> (pc = "serve" => \A e \in DOMAIN MimeFile : mime[e] = TypeIn(file, e))
  /\ MimeFollowsFile'
       <=> (pc' = "serve" => \A e \in DOMAIN MimeFile : mime'[e] = TypeIn(file', e))
<1>1. MimeFollowsFile
        <=> (pc = "serve" => \A e \in DOMAIN MimeFile : mime[e] = TypeIn(file, e))
  BY DEF MimeFollowsFile, TypeIn, TypeLine, LineOf, FirstOf
<1>2. MimeFollowsFile'
        <=> (pc' = "serve" => \A e \in DOMAIN MimeFile : mime'[e] = TypeIn(file', e))
  BY DEF MimeFollowsFile, TypeIn, TypeLine, LineOf, FirstOf
<1> QED
  BY <1>1, <1>2

LEMMA TypeLineOK ==
  ASSUME NEW f, NEW e, Len(f) \in Nat
  PROVE  /\ (\A i \in 1..Len(f) : ~AddsType(f, i, e)) => TypeLine(f, e) = Unset
         /\ \A i \in 1..Len(f) : FirstType(f, i, e) => TypeLine(f, e) = f[i]
<1> DEFINE c == CHOOSE i \in 1..Len(f) :
                  /\ f[i][1] = "AddType" /\ f[i][3] = e
                  /\ \A j \in 1..i - 1 : ~(f[j][1] = "AddType" /\ f[j][3] = e)
<1>1. TypeLine(f, e) = IF \E i \in 1..Len(f) : f[i][1] = "AddType" /\ f[i][3] = e
                       THEN f[c] ELSE Unset
  BY DEF TypeLine, FirstOf
<1>2. (\A i \in 1..Len(f) : ~AddsType(f, i, e)) => TypeLine(f, e) = Unset
  BY <1>1 DEF AddsType
<1>3. ASSUME NEW i \in 1..Len(f), FirstType(f, i, e) PROVE TypeLine(f, e) = f[i]
  <2>1. /\ f[i][1] = "AddType" /\ f[i][3] = e
        /\ \A j \in 1..i - 1 : ~(f[j][1] = "AddType" /\ f[j][3] = e)
    BY <1>3 DEF FirstType, AddsType
  <2>2. /\ c \in 1..Len(f)
        /\ f[c][1] = "AddType" /\ f[c][3] = e
        /\ \A j \in 1..c - 1 : ~(f[j][1] = "AddType" /\ f[j][3] = e)
    BY <2>1, Zenon
  <2> HIDE DEF c
  <2>3. ~(i < c) /\ ~(c < i)
    BY <2>1, <2>2
  <2>4. i = c
    BY <2>2, <2>3
  <2> QED
    BY <1>1, <2>1, <2>4
<1> QED
  BY <1>2, <1>3

LEMMA TypeInOK ==
  ASSUME NEW f \in Files, NEW e
  PROVE  /\ MimeFile[e] # Unset => TypeIn(f, e) = MimeFile[e]
         /\ MimeFile[e] = Unset /\ (\A i \in 1..Len(f) : ~AddsType(f, i, e))
              => TypeIn(f, e) = BuiltinMime[e]
         /\ \A i \in 1..Len(f) : MimeFile[e] = Unset /\ FirstType(f, i, e)
              => TypeIn(f, e) = f[i][2] /\ f[i][2] # Unset
<1>1. Len(f) \in Nat
  BY LinesAssumption
<1>2. MimeFile[e] # Unset => TypeIn(f, e) = MimeFile[e]
  BY DEF TypeIn
<1>3. ASSUME MimeFile[e] = Unset, \A i \in 1..Len(f) : ~AddsType(f, i, e)
      PROVE  TypeIn(f, e) = BuiltinMime[e]
  <2>1. TypeLine(f, e) = Unset
    BY <1>1, <1>3, TypeLineOK
  <2> QED
    BY <1>3, <2>1 DEF TypeIn
<1>4. ASSUME NEW i \in 1..Len(f), MimeFile[e] = Unset, FirstType(f, i, e)
      PROVE  TypeIn(f, e) = f[i][2] /\ f[i][2] # Unset
  <2>1. TypeLine(f, e) = f[i]
    BY <1>1, <1>4, TypeLineOK
  <2>2. f[i] # Unset /\ f[i][2] # Unset
    BY <1>4, LinesAssumption DEF FirstType, AddsType
  <2> QED
    BY <1>4, <2>1, <2>2 DEF TypeIn
<1> QED
  BY <1>2, <1>3, <1>4

LEMMA MimeInit == Init => MimeInv
  BY DEF Init, MimeInv, MimeFollowsFile

LEMMA MimeNext == Inv /\ MimeInv /\ [Next]_vars => MimeInv'
<1> SUFFICES ASSUME Inv, MimeInv, [Next]_vars PROVE MimeInv'
  OBVIOUS
\* Lines that add no type.
<1>1. ASSUME NEW key, Reading(key), key # "AddType", mime' = mime PROVE MimeInv'
  <2>1. /\ pc = "parse" /\ pc' = "parse" /\ file' = file /\ line' = line + 1
        /\ line \in Nat /\ line \in 1..Len(file) /\ file[line][1] = key
    BY <1>1, LineRead
  <2>2. MimeBefore(mime, file, line)
    BY <2>1 DEF MimeInv
  <2>3. \A e : ~AddsType(file, line, e)
    BY <1>1, <2>1 DEF AddsType
  <2>4. \A i \in 1..line' - 1 : i \in 1..line - 1 \/ i = line
    BY <2>1
  <2>5. \A i \in 1..line - 1 : i \in 1..line' - 1
    BY <2>1
  <2>6. MimeBefore(mime, file, line')
    BY <2>2, <2>3, <2>4, <2>5 DEF MimeBefore
  <2> QED
    BY <1>1, <2>1, <2>6 DEF MimeInv, MimeFollowsFile
<1>2. CASE c_add_mime_type
  <2>1. /\ pc = "parse" /\ pc' = "parse" /\ file' = file /\ line' = line + 1
        /\ line \in Nat /\ line \in 1..Len(file) /\ file[line][1] = "AddType"
        /\ file \in Files /\ Arg = file[line][2]
    BY <1>2, LineRead DEF c_add_mime_type
  <2>2. MimeBefore(mime, file, line) /\ DOMAIN mime = DOMAIN MimeFile
    BY <2>1 DEF MimeInv, Inv, RestOK
  <2>3. /\ \A i \in 1..line' - 1 : i \in 1..line - 1 \/ i = line
        /\ \A i \in 1..line - 1 : i \in 1..line' - 1
        /\ line \in 1..line' - 1
    BY <2>1
  <2>4. file[line][2] # Unset
    BY <2>1, LinesAssumption
  <2>5. ASSUME NEW e \in DOMAIN MimeFile
        PROVE  mime'[e] = IF e = file[line][3] /\ mime[e] = Unset THEN file[line][2] ELSE mime[e]
    BY <1>2, <2>1, <2>2 DEF c_add_mime_type, hash_insert
  <2>6. ASSUME NEW e \in DOMAIN MimeFile, MimeFile[e] # Unset PROVE mime'[e] = MimeFile[e]
    BY <2>2, <2>5, <2>6 DEF MimeBefore
  <2>7. ASSUME NEW e \in DOMAIN MimeFile, MimeFile[e] = Unset
        PROVE  \/ mime'[e] = Unset /\ \A i \in 1..line' - 1 : ~AddsType(file, i, e)
               \/ \E i \in 1..line' - 1 : FirstType(file, i, e) /\ mime'[e] = file[i][2]
    <3>1. CASE mime[e] = Unset /\ \A i \in 1..line - 1 : ~AddsType(file, i, e)
      <4>1. CASE e = file[line][3]
        <5>1. FirstType(file, line, e) /\ mime'[e] = file[line][2]
          BY <2>1, <2>5, <3>1, <4>1 DEF FirstType, AddsType
        <5> QED
          BY <2>3, <5>1
      <4>2. CASE e # file[line][3]
        <5>1. ~AddsType(file, line, e)
          BY <4>2 DEF AddsType
        <5> QED
          BY <2>3, <2>5, <3>1, <4>2, <5>1
      <4> QED
        BY <4>1, <4>2
    <3>2. ASSUME NEW i \in 1..line - 1, FirstType(file, i, e), mime[e] = file[i][2]
          PROVE  \E k \in 1..line' - 1 : FirstType(file, k, e) /\ mime'[e] = file[k][2]
      <4>1. file[i][2] # Unset
        <5>1. i \in 1..Len(file)
          BY <2>1, LinesAssumption
        <5> QED
          BY <2>1, <3>2, <5>1, LinesAssumption DEF FirstType, AddsType
      <4>2. mime'[e] = file[i][2]
        BY <2>5, <3>2, <4>1
      <4> QED
        BY <2>3, <3>2, <4>2
    <3> QED
      BY <2>2, <2>7, <3>1, <3>2 DEF MimeBefore
  <2>8. MimeBefore(mime', file, line')
    BY <2>6, <2>7 DEF MimeBefore
  <2> QED
    BY <2>1, <2>8 DEF MimeInv, MimeFollowsFile
<1>3. CASE PlainLine
  <2>1. PICK key \in PrefKeys \cup {"VirtualHost"} : Reading(key)
    BY <1>3, PlainRead
  <2> QED
    BY <1>1, <1>3, <2>1, PlainRead, KeywordsAssumption DEF tables
<1>4. CASE c_set_int \/ c_set_string \/ c_add_alias \/ c_add_access
  <2>1. mime' = mime
    BY <1>4 DEF c_set_int, c_set_string, c_add_alias, c_add_access, tables
  <2>2. \E key \in {"KeepAliveMax", "MaxConnections", "VHostRoot", "ServerName", "Alias",
                    "Allow", "Deny"} : Reading(key)
    BY <1>4 DEF c_set_int, c_set_string, c_add_alias, c_add_access
  <2> QED
    BY <1>1, <2>1, <2>2
<1>5. CASE Sighup
  BY <1>5 DEF Sighup, dump_mime, MimeInv, MimeFollowsFile
<1>6. CASE apply_inline_preferences
  <2>1. /\ pc = "inline" /\ pc' \in {"parse", "exited"} /\ line' = 1
        /\ mime = Empty(DOMAIN MimeFile) /\ mime' = Added(mime, MimeFile)
    BY <1>6 DEF apply_inline_preferences, MimeInv
  <2>2. \A e \in DOMAIN MimeFile : mime'[e] = MimeFile[e]
    BY <2>1 DEF Empty, Added
  <2>3. 1..line' - 1 = {}
    BY <2>1
  <2>4. MimeBefore(mime', file', line')
    BY <2>2, <2>3 DEF MimeBefore
  <2> QED
    BY <2>1, <2>4 DEF MimeInv, MimeFollowsFile
<1>7. CASE Loaded
  <2>1. /\ EndOfFile /\ mime' = Added(mime, BuiltinMime) /\ pc' = "serve" /\ file' = file
    BY <1>7 DEF Loaded
  <2>2. pc = "parse" /\ Len(file) \in Nat /\ file \in Files /\ 1..line - 1 = 1..Len(file)
    BY <2>1, AtEnd
  <2>3. MimeBefore(mime, file, line) /\ DOMAIN mime = DOMAIN MimeFile
    BY <2>2 DEF MimeInv, Inv, RestOK
  <2>4. ASSUME NEW e \in DOMAIN MimeFile PROVE mime'[e] = TypeIn(file, e)
    <3>1. mime'[e] = IF mime[e] = Unset THEN BuiltinMime[e] ELSE mime[e]
      BY <2>1, <2>3 DEF Added
    <3>2. CASE MimeFile[e] # Unset
      BY <2>2, <2>3, <3>1, <3>2, TypeInOK DEF MimeBefore
    <3>3. CASE MimeFile[e] = Unset
      <4>1. \/ mime[e] = Unset /\ \A i \in 1..Len(file) : ~AddsType(file, i, e)
            \/ \E i \in 1..Len(file) : FirstType(file, i, e) /\ mime[e] = file[i][2]
        BY <2>2, <2>3, <3>3 DEF MimeBefore
      <4> QED
        BY <2>2, <3>1, <3>3, <4>1, TypeInOK
    <3> QED
      BY <3>2, <3>3
  <2>5. MimeFollowsFile'
    BY <2>1, <2>4, MimeMeans
  <2> QED
    BY <2>1, <2>5 DEF MimeInv
<1>8. CASE pc' = "exited"
  BY <1>8 DEF MimeInv, MimeFollowsFile
<1>9. CASE Request \/ Idle
  <2>1. pc' = pc /\ file' = file /\ line' = line /\ mime' = mime
    BY <1>9 DEF Request, Idle, tables
  <2> QED
    BY <2>1, MimeMeans DEF MimeInv
<1> QED
  BY <1>2, <1>3, <1>4, <1>5, <1>6, <1>7, <1>8, <1>9, Steps

-----------------------------------------------------------------------------
\* Numbers

SetsKa(f, i) == f[i][1] = "KeepAliveMax" /\ f[i][2] # Unset

\* KeepAliveMax after the lines of f before line l.
KaBefore(k, f, l) ==
  \/ \A i \in 1..l - 1 : ~SetsKa(f, i)
  \/ \E i \in 1..l - 1 :
       SetsKa(f, i) /\ (\A j \in 1..l - 1 : SetsKa(f, j) => j <= i) /\ k = Stored(f[i][2], 0)

\* KeepAliveMax k after all of f, as NumbersAfterLoad has it.
KaIn(k, f) ==
  LET own == {i \in 1..Len(f) : f[i][1] = "KeepAliveMax" /\ f[i][2] # Unset}
  IN  own # {} => k = f[Latest(own)][2] % (UIntMax + 1)

NumbersInv ==
  /\ pc = "parse" => KaBefore(ka_max, file, line)
  /\ NumbersAfterLoad

LEMMA NumbersMean ==
  /\ NumbersAfterLoad
       <=> (pc = "serve" => max_connections \in 1..FdLimit /\ KaIn(ka_max, file))
  /\ NumbersAfterLoad'
       <=> (pc' = "serve" => max_connections' \in 1..FdLimit /\ KaIn(ka_max', file'))
<1>1. NumbersAfterLoad
        <=> (pc = "serve" => max_connections \in 1..FdLimit /\ KaIn(ka_max, file))
  BY DEF NumbersAfterLoad, KaIn
<1>2. NumbersAfterLoad'
        <=> (pc' = "serve" => max_connections' \in 1..FdLimit /\ KaIn(ka_max', file'))
  BY DEF NumbersAfterLoad, KaIn
<1> QED
  BY <1>1, <1>2

\* The last of a set of line numbers.
LEMMA LatestOK ==
  ASSUME NEW set \in SUBSET Nat, NEW i \in set, \A j \in set : j <= i
  PROVE  Latest(set) = i
<1>1. Latest(set) \in set /\ \A j \in set : j <= Latest(set)
  BY DEF Latest
<1>2. Latest(set) <= i /\ i <= Latest(set) /\ Latest(set) \in Nat /\ i \in Nat
  BY <1>1
<1> QED
  BY <1>2

LEMMA KaInOK ==
  ASSUME NEW f, Len(f) \in Nat, NEW k, NEW l, 1..l - 1 = 1..Len(f), KaBefore(k, f, l)
  PROVE  KaIn(k, f)
<1> DEFINE own == {i \in 1..Len(f) : f[i][1] = "KeepAliveMax" /\ f[i][2] # Unset}
<1>1. \A i \in 1..Len(f) : i \in own <=> SetsKa(f, i)
  BY DEF SetsKa
<1>2. KaIn(k, f) <=> (own # {} => k = f[Latest(own)][2] % (UIntMax + 1))
  BY DEF KaIn
<1>3. own \in SUBSET Nat /\ own \subseteq 1..Len(f)
  OBVIOUS
<1> HIDE DEF own
<1>4. CASE \A i \in 1..l - 1 : ~SetsKa(f, i)
  BY <1>1, <1>2, <1>3, <1>4
<1>5. ASSUME NEW i \in 1..l - 1, SetsKa(f, i), \A j \in 1..l - 1 : SetsKa(f, j) => j <= i,
             k = Stored(f[i][2], 0)
      PROVE  KaIn(k, f)
  <2>1. i \in own /\ \A j \in own : j <= i
    BY <1>1, <1>3, <1>5
  <2>2. Latest(own) = i
    BY <1>3, <2>1, LatestOK
  <2> QED
    BY <1>2, <1>5, <2>1, <2>2 DEF SetsKa, Stored
<1> QED
  BY <1>4, <1>5 DEF KaBefore

LEMMA NumbersInit == Init => NumbersInv
  BY DEF Init, NumbersInv, NumbersAfterLoad

LEMMA NumbersNext == Inv /\ NumbersInv /\ [Next]_vars => NumbersInv'
<1> SUFFICES ASSUME Inv, NumbersInv, [Next]_vars PROVE NumbersInv'
  OBVIOUS
\* Lines that do not set KeepAliveMax.
<1>1. ASSUME NEW key, Reading(key), ~SetsKa(file, line), ka_max' = ka_max PROVE NumbersInv'
  <2>1. /\ pc = "parse" /\ pc' = "parse" /\ file' = file /\ line' = line + 1
        /\ line \in Nat
    BY <1>1, LineRead
  <2>2. KaBefore(ka_max, file, line)
    BY <2>1 DEF NumbersInv
  <2>4. \A i \in 1..line' - 1 : i \in 1..line - 1 \/ i = line
    BY <2>1
  <2>5. \A i \in 1..line - 1 : i \in 1..line' - 1
    BY <2>1
  <2>6. KaBefore(ka_max, file, line')
    <3>1. CASE \A i \in 1..line - 1 : ~SetsKa(file, i)
      BY <1>1, <2>4, <3>1 DEF KaBefore
    <3>2. ASSUME NEW i \in 1..line - 1, SetsKa(file, i),
                 \A j \in 1..line - 1 : SetsKa(file, j) => j <= i,
                 ka_max = Stored(file[i][2], 0)
          PROVE  KaBefore(ka_max, file, line')
      BY <1>1, <2>4, <2>5, <3>2 DEF KaBefore
    <3> QED
      BY <2>2, <3>1, <3>2 DEF KaBefore
  <2> QED
    BY <1>1, <2>1, <2>6 DEF NumbersInv, NumbersAfterLoad
<1>2. CASE c_set_int
  <2>1. CASE Reading("KeepAliveMax") /\ ka_max' = Stored(Arg, ka_max)
    <3>1. /\ pc' = "parse" /\ file' = file /\ line' = line + 1 /\ line \in Nat
          /\ line \in 1..Len(file) /\ file[line][1] = "KeepAliveMax" /\ Arg = file[line][2]
      BY <2>1, LineRead
    <3>2. CASE Arg = Unset
      <4>1. ~SetsKa(file, line) /\ ka_max' = ka_max
        BY <2>1, <3>1, <3>2 DEF SetsKa, Stored
      <4> QED
        BY <1>1, <2>1, <4>1
    <3>3. CASE Arg # Unset
      <4>1. SetsKa(file, line) /\ ka_max' = Stored(file[line][2], 0)
        BY <2>1, <3>1, <3>3 DEF SetsKa, Stored
      <4>2. line \in 1..line' - 1 /\ \A j \in 1..line' - 1 : j <= line
        BY <3>1
      <4>3. KaBefore(ka_max', file, line')
        BY <4>1, <4>2 DEF KaBefore
      <4> QED
        BY <3>1, <4>3 DEF NumbersInv, NumbersAfterLoad
    <3> QED
      BY <3>2, <3>3
  <2>2. CASE Reading("MaxConnections") /\ ka_max' = ka_max
    <3>1. file[line][1] = "MaxConnections"
      BY <2>2, LineRead
    <3> QED
      BY <1>1, <2>2, <3>1 DEF SetsKa
  <2> QED
    BY <1>2, <2>1, <2>2 DEF c_set_int
<1>3. CASE PlainLine
  <2>1. PICK key \in PrefKeys \cup {"VirtualHost"} : Reading(key)
    BY <1>3, PlainRead
  <2>2. file[line][1] = key
    BY <2>1, LineRead
  <2>3. ~SetsKa(file, line)
    BY <2>2, KeywordsAssumption DEF SetsKa
  <2> QED
    BY <1>1, <1>3, <2>1, <2>3, PlainRead
<1>4. CASE c_set_string \/ c_add_mime_type \/ c_add_alias \/ c_add_access
  <2>1. ka_max' = ka_max
    BY <1>4 DEF c_set_string, c_add_mime_type, c_add_alias, c_add_access, globals
  <2>2. PICK key \in {"VHostRoot", "ServerName", "AddType", "Alias", "Allow", "Deny"} :
          Reading(key)
    BY <1>4 DEF c_set_string, c_add_mime_type, c_add_alias, c_add_access
  <2>3. file[line][1] = key
    BY <2>2, LineRead
  <2> QED
    BY <1>1, <2>1, <2>2, <2>3 DEF SetsKa
<1>5. CASE Sighup
  BY <1>5 DEF Sighup, NumbersInv, NumbersAfterLoad
<1>6. CASE apply_inline_preferences
  <2>1. pc' \in {"parse", "exited"} /\ line' = 1
    BY <1>6 DEF apply_inline_preferences
  <2>2. 1..line' - 1 = {}
    BY <2>1
  <2>3. KaBefore(ka_max', file', line')
    BY <2>2 DEF KaBefore
  <2> QED
    BY <2>1, <2>3 DEF NumbersInv, NumbersAfterLoad
<1>7. CASE Loaded
  <2>1. /\ EndOfFile /\ pc' = "serve" /\ file' = file /\ ka_max' = ka_max
        /\ max_connections' = Usable(max_connections)
    BY <1>7 DEF Loaded
  <2>2. pc = "parse" /\ Len(file) \in Nat /\ 1..line - 1 = 1..Len(file)
    BY <2>1, AtEnd
  <2>3. KaIn(ka_max, file)
    BY <2>2, KaInOK DEF NumbersInv
  <2>4. Usable(max_connections) \in 1..FdLimit
    BY NumbersAssumption DEF Inv, RestOK, Usable
  <2> QED
    BY <2>1, <2>3, <2>4, NumbersMean DEF NumbersInv
<1>8. CASE pc' = "exited"
  BY <1>8 DEF NumbersInv, NumbersAfterLoad
<1>9. CASE Request \/ Idle
  <2>1. pc' = pc /\ file' = file /\ line' = line /\ ka_max' = ka_max
        /\ max_connections' = max_connections
    BY <1>9 DEF Request, Idle, globals
  <2> QED
    BY <2>1, NumbersMean DEF NumbersInv
<1> QED
  BY <1>2, <1>3, <1>4, <1>5, <1>6, <1>7, <1>8, <1>9, Steps

-----------------------------------------------------------------------------
\* Aliases

LineCovers(f, i, u) == f[i][1] = "Alias" /\ Covers(f[i][2], u)

FirstCover(f, i, u) == LineCovers(f, i, u) /\ \A j \in 1..i - 1 : ~LineCovers(f, j, u)

Entry(f, i) == [fake |-> f[i][2], real |-> f[i][3]]

Entries == UNION {{Entry(f, i) : i \in 1..Len(f)} : f \in Files}

\* The first entry of chain c that covers path u is the one of line i of f.
FirstEntry(c, f, i, u) ==
  \E k \in 1..Len(c) : c[k] = Entry(f, i) /\ \A m \in 1..k - 1 : ~Covers(c[m].fake, u)

\* No alias is for "/" itself.
NoRoot(f) == \A i \in 1..Len(f) : f[i][1] = "Alias" => f[i][2].comps # <<>>

Chain(a, u) == a[get_alias_hash_value(u)]

\* The table after the lines of f before line l.
AliasBefore(a, f, l) ==
  \A u \in Uris :
    \/ /\ \A i \in 1..l - 1 : ~LineCovers(f, i, u)
       /\ \A k \in 1..Len(Chain(a, u)) : ~Covers(Chain(a, u)[k].fake, u)
    \/ \E i \in 1..l - 1 : FirstCover(f, i, u) /\ FirstEntry(Chain(a, u), f, i, u)

\* What is found in a table and what a whole file says, as AliasesFollowFile
\* has them.
Found(a, u) == FirstOf(Chain(a, u), LAMBDA e : Covers(e.fake, u))

CoverLine(f, u) == FirstOf(f, LAMBDA l : l[1] = "Alias" /\ Covers(l[2], u))

AliasIn(f, u) ==
  IF CoverLine(f, u) = Unset THEN Unset
  ELSE [fake |-> CoverLine(f, u)[2], real |-> CoverLine(f, u)[3]]

AliasInv ==
  /\ alias \in [Buckets -> Seq(Entries)]
  /\ pc = "inline" => alias = [b \in Buckets |-> <<>>]
  /\ pc = "parse" /\ NoRoot(file) => AliasBefore(alias, file, line)
  /\ AliasesFollowFile

LEMMA AliasesMean ==
  /\ AliasesFollowFile
       <=> (pc = "serve" /\ NoRoot(file) => \A u \in Uris : Found(alias, u) = AliasIn(file, u))
  /\ AliasesFollowFile'
       <=> (pc' = "serve" /\ NoRoot(file')
              => \A u \in Uris : Found(alias', u) = AliasIn(file', u))
<1>1. AliasesFollowFile
       <=> (pc = "serve" /\ NoRoot(file) => \A u \in Uris : Found(alias, u) = AliasIn(file, u))
  BY DEF AliasesFollowFile, Found, AliasIn, CoverLine, Chain, LineOf, find_alias, NoRoot, FirstOf
<1>2. AliasesFollowFile'
       <=> (pc' = "serve" /\ NoRoot(file')
              => \A u \in Uris : Found(alias', u) = AliasIn(file', u))
  BY DEF AliasesFollowFile, Found, AliasIn, CoverLine, Chain, LineOf, find_alias, NoRoot, FirstOf
<1> QED
  BY <1>1, <1>2

\* A covered path is hashed to the bucket of the alias.
LEMMA SameBucket ==
  ASSUME NEW f \in Files, NEW i \in 1..Len(f), NEW u \in Uris, LineCovers(f, i, u),
         f[i][2].comps # <<>>
  PROVE  get_alias_hash_value(f[i][2]) = get_alias_hash_value(u)
<1> DEFINE s == f[i][2].comps
           t == u.comps
<1>1. s \in Seq(DOMAIN Hash) /\ t \in Seq(DOMAIN Hash) /\ s # <<>>
  BY LinesAssumption, PathsAssumption DEF LineCovers
<1>2. Len(s) <= Len(t) /\ \A j \in 1..Len(s) : s[j] = t[j]
  BY DEF LineCovers, Covers, IsPrefix
<1>3. s = f[i][2].comps /\ t = u.comps
  OBVIOUS
<1> HIDE DEF s, t
<1>4. t # <<>> /\ Head(s) = Head(t)
  <2>1. Len(s) \in Nat /\ Len(s) # 0 /\ Len(t) \in Nat
    BY <1>1
  <2>2. s[1] = t[1] /\ Len(t) # 0
    BY <1>2, <2>1
  <2> QED
    BY <1>1, <2>2
<1> QED
  BY <1>1, <1>3, <1>4 DEF get_alias_hash_value

LEMMA InBuckets ==
  ASSUME NEW u, u.comps \in Seq(DOMAIN Hash)
  PROVE  get_alias_hash_value(u) \in Buckets
<1> DEFINE h == IF u.comps = <<>> THEN Hash["/"] ELSE Hash[Head(u.comps)]
<1>1. h \in Nat
  BY PathsAssumption
<1>2. get_alias_hash_value(u) = h % AliasSize
  BY DEF get_alias_hash_value
<1> HIDE DEF h
<1>3. h % AliasSize \in 0..AliasSize - 1
  BY <1>1, NumbersAssumption
<1> QED
  BY <1>2, <1>3 DEF Buckets

LEMMA FoundOK ==
  ASSUME NEW c, Len(c) \in Nat, NEW u, NEW a, Chain(a, u) = c
  PROVE  /\ (\A k \in 1..Len(c) : ~Covers(c[k].fake, u)) => Found(a, u) = Unset
         /\ \A k \in 1..Len(c) :
              Covers(c[k].fake, u) /\ (\A m \in 1..k - 1 : ~Covers(c[m].fake, u))
                => Found(a, u) = c[k]
<1> DEFINE x == CHOOSE k \in 1..Len(c) :
                  Covers(c[k].fake, u) /\ \A m \in 1..k - 1 : ~Covers(c[m].fake, u)
<1>1. Found(a, u) = IF \E k \in 1..Len(c) : Covers(c[k].fake, u) THEN c[x] ELSE Unset
  BY DEF Found, FirstOf
<1>2. ASSUME NEW k \in 1..Len(c), Covers(c[k].fake, u), \A m \in 1..k - 1 : ~Covers(c[m].fake, u)
      PROVE  Found(a, u) = c[k]
  <2>1. x \in 1..Len(c) /\ Covers(c[x].fake, u) /\ \A m \in 1..x - 1 : ~Covers(c[m].fake, u)
    BY <1>2, Zenon
  <2> HIDE DEF x
  <2>2. ~(k < x) /\ ~(x < k)
    BY <1>2, <2>1
  <2>3. k = x
    BY <2>1, <2>2
  <2> QED
    BY <1>1, <1>2, <2>3
<1> QED
  BY <1>1, <1>2

LEMMA CoverLineOK ==
  ASSUME NEW f, NEW u, Len(f) \in Nat
  PROVE  /\ (\A i \in 1..Len(f) : ~LineCovers(f, i, u)) => CoverLine(f, u) = Unset
         /\ \A i \in 1..Len(f) : FirstCover(f, i, u) => CoverLine(f, u) = f[i]
<1> DEFINE x == CHOOSE i \in 1..Len(f) :
                  /\ f[i][1] = "Alias" /\ Covers(f[i][2], u)
                  /\ \A j \in 1..i - 1 : ~(f[j][1] = "Alias" /\ Covers(f[j][2], u))
<1>1. CoverLine(f, u) = IF \E i \in 1..Len(f) : f[i][1] = "Alias" /\ Covers(f[i][2], u)
                        THEN f[x] ELSE Unset
  BY DEF CoverLine, FirstOf
<1>2. (\A i \in 1..Len(f) : ~LineCovers(f, i, u)) => CoverLine(f, u) = Unset
  BY <1>1 DEF LineCovers
<1>3. ASSUME NEW i \in 1..Len(f), FirstCover(f, i, u) PROVE CoverLine(f, u) = f[i]
  <2>1. /\ f[i][1] = "Alias" /\ Covers(f[i][2], u)
        /\ \A j \in 1..i - 1 : ~(f[j][1] = "Alias" /\ Covers(f[j][2], u))
    BY <1>3 DEF FirstCover, LineCovers
  <2>2. /\ x \in 1..Len(f) /\ f[x][1] = "Alias" /\ Covers(f[x][2], u)
        /\ \A j \in 1..x - 1 : ~(f[j][1] = "Alias" /\ Covers(f[j][2], u))
    BY <2>1, Zenon
  <2> HIDE DEF x
  <2>3. ~(i < x) /\ ~(x < i)
    BY <2>1, <2>2
  <2>4. i = x
    BY <2>2, <2>3
  <2> QED
    BY <1>1, <2>1, <2>4
<1> QED
  BY <1>2, <1>3

\* Once all lines are read, what is found is what the file says.
LEMMA FoundInFile ==
  ASSUME NEW f \in Files, NEW a \in [Buckets -> Seq(Entries)], NEW l, 1..l - 1 = 1..Len(f),
         AliasBefore(a, f, l), NEW u \in Uris
  PROVE  Found(a, u) = AliasIn(f, u)
<1> DEFINE c == Chain(a, u)
<1>1. c \in Seq(Entries)
  BY InBuckets, PathsAssumption DEF Chain
<1>2. Len(c) \in Nat /\ Len(f) \in Nat /\ Chain(a, u) = c
  BY <1>1, LinesAssumption
<1>3. \/ /\ \A i \in 1..Len(f) : ~LineCovers(f, i, u)
         /\ \A k \in 1..Len(c) : ~Covers(c[k].fake, u)
      \/ \E i \in 1..Len(f) : FirstCover(f, i, u) /\ FirstEntry(c, f, i, u)
  BY DEF AliasBefore
<1> HIDE DEF c
<1>4. CASE /\ \A i \in 1..Len(f) : ~LineCovers(f, i, u)
           /\ \A k \in 1..Len(c) : ~Covers(c[k].fake, u)
  BY <1>2, <1>4, FoundOK, CoverLineOK DEF AliasIn
<1>5. ASSUME NEW i \in 1..Len(f), FirstCover(f, i, u), FirstEntry(c, f, i, u)
      PROVE  Found(a, u) = AliasIn(f, u)
  <2>1. PICK k \in 1..Len(c) : c[k] = Entry(f, i) /\ \A m \in 1..k - 1 : ~Covers(c[m].fake, u)
    BY <1>5 DEF FirstEntry
  <2>2. Covers(c[k].fake, u)
    BY <1>5, <2>1 DEF FirstCover, LineCovers, Entry
  <2>3. Found(a, u) = Entry(f, i)
    BY <1>2, <2>1, <2>2, FoundOK
  <2>4. CoverLine(f, u) = f[i] /\ f[i] # Unset
    BY <1>2, <1>5, CoverLineOK, LinesAssumption
  <2> QED
    BY <2>3, <2>4 DEF AliasIn, Entry
<1> QED
  BY <1>3, <1>4, <1>5

LEMMA AliasInit == Init => AliasInv
<1> SUFFICES ASSUME Init PROVE AliasInv
  OBVIOUS
<1>1. alias = [b \in Buckets |-> <<>>] /\ pc = "inline"
  BY DEF Init
<1>2. <<>> \in Seq(Entries)
  OBVIOUS
<1> QED
  BY <1>1, <1>2 DEF AliasInv, AliasesFollowFile

\* One more line: the chain stays, or gets the line's entry at its end.
LEMMA ChainStep ==
  ASSUME NEW f, NEW l \in Nat, l >= 1, NEW u, NEW c \in Seq(Entries), NEW d,
         f[l][1] = "Alias",
         \/ d = c /\ (LineCovers(f, l, u) => \E k \in 1..Len(c) : Covers(c[k].fake, u))
         \/ d = Append(c, Entry(f, l)),
         \/ /\ \A i \in 1..l - 1 : ~LineCovers(f, i, u)
            /\ \A k \in 1..Len(c) : ~Covers(c[k].fake, u)
         \/ \E i \in 1..l - 1 : FirstCover(f, i, u) /\ FirstEntry(c, f, i, u)
  PROVE  \/ /\ \A i \in 1..l : ~LineCovers(f, i, u)
            /\ \A k \in 1..Len(d) : ~Covers(d[k].fake, u)
         \/ \E i \in 1..l : FirstCover(f, i, u) /\ FirstEntry(d, f, i, u)
<1> DEFINE e == Entry(f, l)
<1>1. /\ \A i \in 1..l : i \in 1..l - 1 \/ i = l
      /\ \A i \in 1..l - 1 : i \in 1..l
      /\ l \in 1..l
  OBVIOUS
<1>2. e.fake = f[l][2]
  BY DEF Entry
<1>3. Covers(e.fake, u) <=> LineCovers(f, l, u)
  BY <1>2 DEF LineCovers
<1> DEFINE n == Len(c)
<1>4. n \in Nat
  OBVIOUS
<1>5. CASE d = Append(c, e)
  <2>1. d = Append(c, e) /\ Len(d) = n + 1 /\ d[n + 1] = e /\ \A k \in 1..n : d[k] = c[k]
    BY <1>5
  <2>2. /\ \A k \in 1..n + 1 : k \in 1..n \/ k = n + 1
        /\ \A k \in 1..n : k \in 1..Len(d) /\ \A m \in 1..k - 1 : m \in 1..n
        /\ n + 1 \in 1..Len(d) /\ \A m \in 1..(n + 1) - 1 : m \in 1..n
    BY <1>4, <2>1
  <2> HIDE DEF e, n
  <2>3. ASSUME \A i \in 1..l - 1 : ~LineCovers(f, i, u),
               \A k \in 1..n : ~Covers(c[k].fake, u)
        PROVE  \/ /\ \A i \in 1..l : ~LineCovers(f, i, u)
                  /\ \A k \in 1..Len(d) : ~Covers(d[k].fake, u)
               \/ \E i \in 1..l : FirstCover(f, i, u) /\ FirstEntry(d, f, i, u)
    <3>1. CASE ~LineCovers(f, l, u)
      <4>1. \A i \in 1..l : ~LineCovers(f, i, u)
        BY <1>1, <2>3, <3>1
      <4>2. \A k \in 1..Len(d) : ~Covers(d[k].fake, u)
        BY <1>3, <2>1, <2>2, <2>3, <3>1
      <4> QED
        BY <4>1, <4>2
    <3>2. CASE LineCovers(f, l, u)
      <4>1. FirstCover(f, l, u)
        BY <2>3, <3>2 DEF FirstCover
      <4>2. \A m \in 1..(n + 1) - 1 : ~Covers(d[m].fake, u)
        BY <2>1, <2>2, <2>3
      <4>3. FirstEntry(d, f, l, u)
        BY <2>1, <2>2, <4>2 DEF FirstEntry, e
      <4> QED
        BY <1>1, <4>1, <4>3
    <3> QED
      BY <3>1, <3>2
  <2>4. ASSUME NEW i \in 1..l - 1, FirstCover(f, i, u), FirstEntry(c, f, i, u)
        PROVE  \E j \in 1..l : FirstCover(f, j, u) /\ FirstEntry(d, f, j, u)
    <3>1. PICK k \in 1..n : c[k] = Entry(f, i) /\ \A m \in 1..k - 1 : ~Covers(c[m].fake, u)
      BY <2>4 DEF FirstEntry, n
    <3>2. d[k] = Entry(f, i) /\ k \in 1..Len(d)
      BY <2>1, <2>2, <3>1
    <3>3. \A m \in 1..k - 1 : ~Covers(d[m].fake, u)
      BY <2>1, <2>2, <3>1
    <3>4. FirstEntry(d, f, i, u)
      BY <3>2, <3>3 DEF FirstEntry
    <3> QED
      BY <1>1, <2>4, <3>4
  <2> QED
    BY <2>3, <2>4 DEF n
<1>6. CASE d = c /\ (LineCovers(f, l, u) => \E k \in 1..Len(c) : Covers(c[k].fake, u))
  BY <1>1, <1>6
<1> QED
  BY <1>5, <1>6

LEMMA AliasNext == Inv /\ AliasInv /\ [Next]_vars => AliasInv'
<1> SUFFICES ASSUME Inv, AliasInv, [Next]_vars PROVE AliasInv'
  OBVIOUS
\* Lines that add no alias.
<1>1. ASSUME NEW key, Reading(key), key # "Alias", alias' = alias PROVE AliasInv'
  <2>1. /\ pc = "parse" /\ pc' = "parse" /\ file' = file /\ line' = line + 1
        /\ line \in Nat /\ line \in 1..Len(file) /\ file[line][1] = key
    BY <1>1, LineRead
  <2>2. \A u : ~LineCovers(file, line, u)
    BY <1>1, <2>1 DEF LineCovers
  <2>3. \A i \in 1..line' - 1 : i \in 1..line - 1 \/ i = line
    BY <2>1
  <2>4. \A i \in 1..line - 1 : i \in 1..line' - 1
    BY <2>1
  <2>5. NoRoot(file) => AliasBefore(alias, file, line')
    BY <2>1, <2>2, <2>3, <2>4 DEF AliasBefore, AliasInv
  <2> QED
    BY <1>1, <2>1, <2>5 DEF AliasInv, AliasesFollowFile
<1>2. CASE c_add_alias
  <2>1. /\ pc = "parse" /\ pc' = "parse" /\ file' = file /\ line' = line + 1
        /\ line \in Nat /\ line \in 1..Len(file) /\ file[line][1] = "Alias"
        /\ file \in Files /\ Arg = file[line][2]
    BY <1>2, LineRead DEF c_add_alias
  <2> DEFINE fake == file[line][2]
             b    == get_alias_hash_value(fake)
             c    == alias[b]
  <2>2. b \in Buckets
    BY <2>1, LinesAssumption, InBuckets
  <2>3. alias \in [Buckets -> Seq(Entries)] /\ c \in Seq(Entries)
    BY <2>2 DEF AliasInv
  <2>4. Entry(file, line) \in Entries
    BY <2>1 DEF Entries
  <2>5. \/ alias' = alias /\ \E i \in 1..Len(c) : c[i].fake = fake
        \/ alias' = [alias EXCEPT ![b] = Append(c, Entry(file, line))]
    <3>1. alias' = IF \E i \in 1..Len(c) - 1 : c[i].fake = fake THEN alias
                   ELSE [alias EXCEPT ![b] = Append(c, Entry(file, line))]
      BY <1>2, <2>1 DEF c_add_alias, add_alias, Entry
    <3>2. Len(c) \in Nat
      BY <2>3
    <3> HIDE DEF c, b, fake
    <3>3. \A i \in 1..Len(c) - 1 : i \in 1..Len(c)
      BY <3>2
    <3> QED
      BY <3>1, <3>3
  <2>6. Append(c, Entry(file, line)) \in Seq(Entries)
    BY <2>3, <2>4
  <2>7. alias' \in [Buckets -> Seq(Entries)]
    <3> HIDE DEF b, c
    <3> QED
      BY <2>3, <2>5, <2>6
  <2>8. ASSUME NoRoot(file), NEW u \in Uris
        PROVE  \/ /\ \A i \in 1..line : ~LineCovers(file, i, u)
                  /\ \A k \in 1..Len(Chain(alias', u)) : ~Covers(Chain(alias', u)[k].fake, u)
               \/ \E i \in 1..line : FirstCover(file, i, u) /\ FirstEntry(Chain(alias', u), file, i, u)
    <3> DEFINE bu == get_alias_hash_value(u)
               cu == Chain(alias, u)
               d  == Chain(alias', u)
    <3>1. bu \in Buckets /\ cu = alias[bu] /\ d = alias'[bu] /\ cu \in Seq(Entries)
      BY <2>3, InBuckets, PathsAssumption DEF Chain
    <3>2. fake.comps # <<>>
      BY <2>1, <2>8 DEF NoRoot
    <3>3. LineCovers(file, line, u) => b = bu
      BY <2>1, <3>2, SameBucket
    <3>4. \/ /\ \A i \in 1..line - 1 : ~LineCovers(file, i, u)
             /\ \A k \in 1..Len(cu) : ~Covers(cu[k].fake, u)
          \/ \E i \in 1..line - 1 : FirstCover(file, i, u) /\ FirstEntry(cu, file, i, u)
      BY <2>1, <2>8 DEF AliasInv, AliasBefore
    <3> HIDE DEF b, c, bu, cu, d
    <3>5. \/ d = cu /\ (LineCovers(file, line, u) => \E k \in 1..Len(cu) : Covers(cu[k].fake, u))
          \/ d = Append(cu, Entry(file, line))
      <4>1. CASE alias' = alias /\ \E i \in 1..Len(c) : c[i].fake = fake
        <5>1. LineCovers(file, line, u) => \E k \in 1..Len(c) : Covers(c[k].fake, u)
          BY <4>1 DEF LineCovers
        <5>2. LineCovers(file, line, u) => cu = c
          BY <3>1, <3>3 DEF c
        <5> QED
          BY <3>1, <4>1, <5>1, <5>2
      <4>2. CASE alias' = [alias EXCEPT ![b] = Append(c, Entry(file, line))]
        <5>1. d = IF b = bu THEN Append(c, Entry(file, line)) ELSE cu
          BY <2>2, <2>3, <3>1, <4>2
        <5>2. CASE b = bu
          BY <3>1, <5>1, <5>2 DEF c
        <5>3. CASE b # bu
          BY <3>3, <5>1, <5>3
        <5> QED
          BY <5>2, <5>3
      <4> QED
        BY <2>5, <4>1, <4>2
    <3>6. line >= 1
      BY <2>1
    <3>7. \/ /\ \A i \in 1..line : ~LineCovers(file, i, u)
             /\ \A k \in 1..Len(d) : ~Covers(d[k].fake, u)
          \/ \E i \in 1..line : FirstCover(file, i, u) /\ FirstEntry(d, file, i, u)
      BY <2>1, <3>1, <3>4, <3>5, <3>6, ChainStep
    <3> QED
      BY <3>7 DEF d
  <2>9. 1..line' - 1 = 1..line
    BY <2>1
  <2>10. NoRoot(file) => AliasBefore(alias', file, line')
    BY <2>8, <2>9 DEF AliasBefore
  <2> QED
    BY <2>1, <2>7, <2>10 DEF AliasInv, AliasesFollowFile
<1>3. CASE PlainLine
  <2>1. PICK key \in PrefKeys \cup {"VirtualHost"} : Reading(key)
    BY <1>3, PlainRead
  <2> QED
    BY <1>1, <1>3, <2>1, PlainRead, KeywordsAssumption DEF tables
<1>4. CASE c_set_int \/ c_set_string \/ c_add_mime_type \/ c_add_access
  <2>1. alias' = alias
    BY <1>4 DEF c_set_int, c_set_string, c_add_mime_type, c_add_access, tables
  <2>2. \E key \in {"KeepAliveMax", "MaxConnections", "VHostRoot", "ServerName", "AddType",
                    "Allow", "Deny"} : Reading(key)
    BY <1>4 DEF c_set_int, c_set_string, c_add_mime_type, c_add_access
  <2> QED
    BY <1>1, <2>1, <2>2
<1>5. CASE Sighup
  <2>1. alias' = [b \in Buckets |-> <<>>] /\ pc' = "inline"
    BY <1>5 DEF Sighup, dump_alias
  <2>2. <<>> \in Seq(Entries)
    OBVIOUS
  <2> QED
    BY <2>1, <2>2 DEF AliasInv, AliasesFollowFile
<1>6. CASE apply_inline_preferences
  <2>1. /\ pc = "inline" /\ pc' \in {"parse", "exited"} /\ line' = 1 /\ alias' = alias
        /\ alias = [b \in Buckets |-> <<>>]
    BY <1>6 DEF apply_inline_preferences, AliasInv
  <2>2. 1..line' - 1 = {}
    BY <2>1
  <2>3. ASSUME NEW u \in Uris PROVE 1..Len(Chain(alias, u)) = {}
    <3>1. Chain(alias, u) = <<>>
      BY <2>1, InBuckets, PathsAssumption DEF Chain
    <3> QED
      BY <3>1
  <2>4. AliasBefore(alias, file', line')
    BY <2>2, <2>3 DEF AliasBefore
  <2> QED
    BY <2>1, <2>4 DEF AliasInv, AliasesFollowFile
<1>7. CASE Loaded
  <2>1. /\ EndOfFile /\ pc' = "serve" /\ file' = file /\ alias' = alias
    BY <1>7 DEF Loaded
  <2>2. pc = "parse" /\ file \in Files /\ 1..line - 1 = 1..Len(file)
    BY <2>1, AtEnd
  <2>3. alias \in [Buckets -> Seq(Entries)]
    BY DEF AliasInv
  <2>4. ASSUME NoRoot(file), NEW u \in Uris PROVE Found(alias, u) = AliasIn(file, u)
    <3>1. AliasBefore(alias, file, line)
      BY <2>2, <2>4 DEF AliasInv
    <3> QED
      BY <2>2, <2>3, <3>1, FoundInFile
  <2>5. AliasesFollowFile'
    BY <2>1, <2>4, AliasesMean
  <2> QED
    BY <2>1, <2>3, <2>5 DEF AliasInv
<1>8. CASE pc' = "exited" /\ UNCHANGED <<alias, passwd, access, homeRead>>
  BY <1>8 DEF AliasInv, AliasesFollowFile
<1>9. CASE Request \/ Idle
  <2>1. pc' = pc /\ file' = file /\ line' = line /\ alias' = alias
    BY <1>9 DEF Request, Idle, tables
  <2> QED
    BY <2>1, AliasesMean DEF AliasInv
<1> QED
  BY <1>2, <1>3, <1>4, <1>5, <1>6, <1>7, <1>8, <1>9, Steps

-----------------------------------------------------------------------------
\* Caches

IsAccess(f, i) == f[i][1] \in {"Allow", "Deny"}

\* The name of the server below the first i - 1 lines, and the lines among
\* the first l that c_add_access adds to the list of h.
Named(f, i) == {j \in 1..i - 1 : f[j][1] = "ServerName"}

NameIn(f, i) == IF Named(f, i) = {} THEN DefaultName ELSE f[Latest(Named(f, i))][2]

Own(f, l, h) == {i \in 1..l : IsAccess(f, i) /\ NameIn(f, i) = h}

UpTo(set, i) == {j \in set : j <= i}

\* List s is the rules r of a .htaccess and then those of lines own.
Holds(s, r, f, own) ==
  /\ s \in Seq(Rules) /\ r \in Seq(Rules)
  /\ Len(s) = Len(r) + Cardinality(own)
  /\ \A i \in 1..Len(r) : s[i] = r[i]
  /\ \A i \in own : s[Len(r) + Cardinality(UpTo(own, i))] = <<f[i][1], f[i][2]>>

\* A list nobody has used has missed no line.
ListOK(s, r, f, own) ==
  /\ s = Unset => own = {}
  /\ s # Unset => Holds(s, r, f, own)

CachesInv ==
  /\ passwd = homeRead
  /\ pc \in {"parse", "serve"} => server_name = NameIn(file, line)
  /\ pc = "serve" => line = Len(file) + 1
  /\ pc \in {"parse", "serve"} =>
       \A h \in Hosts : ListOK(lists[h], htRead[h], file, Own(file, line - 1, h))

LEMMA CachesMean ==
  ASSUME Inv, CachesInv
  PROVE  CachesReread
<1> SUFFICES ASSUME pc = "serve", NameFirst, NEW h \in Hosts, lists[h] # Unset
             PROVE  /\ htRead[h] # Unset
                    /\ Len(lists[h]) = Len(htRead[h]) + Cardinality(LinesFor(h))
                    /\ \A i \in 1..Len(htRead[h]) : lists[h][i] = htRead[h][i]
                    /\ \A i \in LinesFor(h) :
                         lists[h][Len(htRead[h]) + Cardinality({j \in LinesFor(h) : j <= i})]
                           = <<file[i][1], file[i][2]>>
  BY DEF CachesReread, CachesInv
<1>1. line = Len(file) + 1 /\ Len(file) \in Nat
  BY LinesAssumption DEF CachesInv, Inv, RestOK
<1>2. line - 1 = Len(file)
  BY <1>1
<1>3. LinesFor(h) = Own(file, Len(file), h)
  <2>1. server_name = NameIn(file, Len(file) + 1)
    BY <1>1 DEF CachesInv
  <2>2. \A i : i \in AccessLines <=> i \in 1..Len(file) /\ IsAccess(file, i)
    BY DEF AccessLines, IsAccess
  <2>3. ASSUME NEW i \in AccessLines PROVE NameIn(file, i) = server_name
    <3>1. i \in 1..Len(file)
      BY <2>2
    <3>2. \A j \in 1..(Len(file) + 1) - 1 : file[j][1] = "ServerName" => j \in 1..i - 1
      BY <1>1, <2>3, <3>1 DEF NameFirst
    <3>3. \A j \in 1..i - 1 : j \in 1..(Len(file) + 1) - 1
      BY <1>1, <3>1
    <3>4. Named(file, i) = Named(file, Len(file) + 1)
      BY <3>2, <3>3 DEF Named
    <3> QED
      BY <2>1, <3>4 DEF NameIn
  <2>4. Own(file, Len(file), h) = {i \in AccessLines : NameIn(file, i) = h}
    BY <2>2 DEF Own
  <2> QED
    BY <2>3, <2>4 DEF LinesFor
<1> DEFINE own == Own(file, Len(file), h)
<1>4. Holds(lists[h], htRead[h], file, own)
  BY <1>2 DEF CachesInv, ListOK
<1> HIDE DEF own
<1>5. \A i : UpTo(own, i) = {j \in own : j <= i}
  BY DEF UpTo
<1>6. LinesFor(h) = own
  BY <1>3 DEF own
<1>7. htRead[h] # Unset
  BY <1>4, RulesAssumption DEF Holds
<1> QED
  BY <1>4, <1>5, <1>6, <1>7 DEF Holds

\* What a list is before any line: the .htaccess.
LEMMA HoldsFirst ==
  ASSUME NEW c \in HtContents, NEW f
  PROVE  Holds(c.rules, c.rules, f, {})
<1>1. Cardinality({}) = 0
  BY FS_EmptySet
<1>2. c.rules \in Seq(Rules) /\ Len(c.rules) \in Nat
  BY RulesAssumption
<1> QED
  BY <1>1, <1>2 DEF Holds

\* A line n behind all the others of the list.
LEMMA HoldsNext ==
  ASSUME NEW s, NEW r, NEW f \in Files, NEW n \in 1..Len(f), NEW own \in SUBSET (1..n - 1),
         Holds(s, r, f, own)
  PROVE  Holds(s \o <<<<f[n][1], f[n][2]>>>>, r, f, own \cup {n})
<1> DEFINE x == <<f[n][1], f[n][2]>>
           t == s \o <<x>>
           new == own \cup {n}
<1>1. x \in Rules
  <2>1. x \in {<<f[i][1], f[i][2]>> : i \in 1..Len(f)}
    OBVIOUS
  <2> HIDE DEF x
  <2> QED
    BY <2>1 DEF Rules
<1>2. n \in Nat /\ Len(f) \in Nat
  BY LinesAssumption
<1>3. IsFiniteSet(own) /\ n \notin own
  <2>1. IsFiniteSet(1..n - 1)
    BY <1>2, FS_Interval
  <2>2. IsFiniteSet(own)
    BY <2>1, FS_Subset
  <2>3. n \notin 1..n - 1
    BY <1>2
  <2> QED
    BY <2>2, <2>3
<1>4. /\ Cardinality(new) = Cardinality(own) + 1
      /\ Cardinality(own) \in Nat
  BY <1>3, FS_AddElement, FS_CardinalityType
<1>5. s \in Seq(Rules) /\ r \in Seq(Rules) /\ Len(s) \in Nat /\ Len(r) \in Nat
      /\ Len(s) = Len(r) + Cardinality(own)
  BY DEF Holds
<1>6. /\ t \in Seq(Rules) /\ Len(t) = Len(s) + 1 /\ t[Len(s) + 1] = x
      /\ \A k \in 1..Len(s) : t[k] = s[k]
  <2> HIDE DEF x
  <2> QED
    BY <1>1, <1>5
<1> HIDE DEF x, t
<1>7. ASSUME NEW i \in own
      PROVE  t[Len(r) + Cardinality(UpTo(new, i))] = <<f[i][1], f[i][2]>>
  <2>1. UpTo(new, i) = UpTo(own, i)
    BY <1>2 DEF UpTo
  <2>2. i \in UpTo(own, i) /\ UpTo(own, i) \subseteq own
    BY <1>2 DEF UpTo
  <2>3. IsFiniteSet(UpTo(own, i)) /\ Cardinality(UpTo(own, i)) <= Cardinality(own)
    BY <1>3, <2>2, FS_Subset
  <2>4. Cardinality(UpTo(own, i)) \in Nat /\ Cardinality(UpTo(own, i)) # 0
    BY <2>2, <2>3, FS_CardinalityType, FS_EmptySet
  <2> DEFINE k == Cardinality(UpTo(own, i))
  <2>5. k \in Nat /\ k # 0 /\ k <= Cardinality(own)
    BY <2>3, <2>4
  <2>6. s[Len(r) + k] = <<f[i][1], f[i][2]>>
    BY DEF Holds
  <2> HIDE DEF k
  <2>7. Len(r) + k \in 1..Len(s)
    BY <1>4, <1>5, <2>5
  <2>8. t[Len(r) + k] = <<f[i][1], f[i][2]>>
    BY <1>6, <2>6, <2>7
  <2> QED
    BY <2>1, <2>8 DEF k
<1>8. t[Len(r) + Cardinality(UpTo(new, n))] = <<f[n][1], f[n][2]>>
  <2>1. UpTo(new, n) = new
    <3>1. \A j \in new : j <= n
      BY <1>2
    <3> QED
      BY <3>1 DEF UpTo
  <2>2. Len(r) + Cardinality(new) = Len(s) + 1
    BY <1>4, <1>5
  <2> QED
    BY <1>6, <2>1, <2>2 DEF x
<1>9. \A i \in 1..Len(r) : t[i] = r[i]
  <2>1. \A i \in 1..Len(r) : i \in 1..Len(s) /\ s[i] = r[i]
    BY <1>4, <1>5 DEF Holds
  <2> QED
    BY <1>6, <2>1
<1>10. Len(t) = Len(r) + Cardinality(new)
  BY <1>4, <1>5, <1>6
<1>11. \A i \in new : t[Len(r) + Cardinality(UpTo(new, i))] = <<f[i][1], f[i][2]>>
  BY <1>7, <1>8
<1>12. Holds(t, r, f, new)
  <2> HIDE DEF new
  <2> QED
    BY <1>5, <1>6, <1>9, <1>10, <1>11 DEF Holds
<1> QED
  BY <1>12 DEF t, x

\* One more line.
LEMMA OwnNext ==
  ASSUME NEW f, NEW l \in Nat, l >= 1, NEW h
  PROVE  /\ Own(f, l, h) = IF IsAccess(f, l) /\ NameIn(f, l) = h THEN Own(f, l - 1, h) \cup {l}
                           ELSE Own(f, l - 1, h)
         /\ Own(f, l - 1, h) \in SUBSET (1..l - 1)
<1>1. \A i : i \in 1..l <=> i \in 1..l - 1 \/ i = l
  OBVIOUS
<1> QED
  BY <1>1 DEF Own

LEMMA NameNext ==
  ASSUME NEW f, NEW l \in Nat, l >= 1
  PROVE  NameIn(f, l + 1) = IF f[l][1] = "ServerName" THEN f[l][2] ELSE NameIn(f, l)
<1>1. \A i : i \in 1..(l + 1) - 1 <=> i \in 1..l - 1 \/ i = l
  OBVIOUS
<1>2. CASE f[l][1] # "ServerName"
  <2>1. Named(f, l + 1) = Named(f, l)
    BY <1>1, <1>2 DEF Named
  <2> QED
    BY <1>2, <2>1 DEF NameIn
<1>3. CASE f[l][1] = "ServerName"
  <2> DEFINE named == Named(f, l + 1)
  <2>1. l \in named /\ \A j \in named : j <= l
    BY <1>1, <1>3 DEF Named
  <2>2. named \in SUBSET Nat
    BY DEF Named
  <2>3. NameIn(f, l + 1) = IF named = {} THEN DefaultName ELSE f[Latest(named)][2]
    BY DEF NameIn
  <2> HIDE DEF named
  <2>4. Latest(named) = l
    BY <2>1, <2>2, LatestOK
  <2> QED
    BY <1>3, <2>1, <2>3, <2>4
<1> QED
  BY <1>2, <1>3

LEMMA CachesInit == Init => CachesInv
  BY DEF Init, CachesInv

LEMMA AccessKeeps ==
  ASSUME NEW h \in Hosts, NEW extra, NEW f, NEW own, NEW new, NEW k \in Hosts,
         DOMAIN lists = Hosts, DOMAIN htRead = Hosts,
         WithList(h, extra), ListOK(lists[k], htRead[k], f, own),
         k # h => new = own,
         \A s, r : Holds(s, r, f, own) => Holds(s \o extra, r, f, new)
  PROVE  ListOK(lists'[k], htRead'[k], f, new)
<1>1. CASE k # h
  <2>1. lists'[k] = lists[k] /\ htRead'[k] = htRead[k]
    BY <1>1 DEF WithList
  <2> QED
    BY <1>1, <2>1
<1>2. CASE k = h /\ lists[h] # Unset
  <2>1. lists'[k] = lists[k] \o extra /\ htRead'[k] = htRead[k]
    BY <1>2 DEF WithList
  <2>2. Holds(lists[k] \o extra, htRead[k], f, new)
    BY <1>2 DEF ListOK
  <2>3. lists[k] \o extra # Unset
    BY <2>2, RulesAssumption DEF Holds
  <2> QED
    BY <2>1, <2>2, <2>3 DEF ListOK
<1>3. CASE k = h /\ lists[h] = Unset
  <2>1. PICK c \in HtContents : lists'[k] = c.rules \o extra /\ htRead'[k] = c.rules
    BY <1>3 DEF WithList
  <2>2. own = {}
    BY <1>3 DEF ListOK
  <2>3. Holds(c.rules \o extra, c.rules, f, new)
    BY <2>2, HoldsFirst
  <2>4. c.rules \o extra # Unset
    BY <2>3, RulesAssumption DEF Holds
  <2> QED
    BY <2>1, <2>3, <2>4 DEF ListOK
<1> QED
  BY <1>1, <1>2, <1>3

\* A use of a list that adds nothing to it.
LEMMA UseKeeps ==
  ASSUME NEW h \in Hosts, NEW f, NEW own, NEW k \in Hosts,
         DOMAIN lists = Hosts, DOMAIN htRead = Hosts,
         WithList(h, <<>>), ListOK(lists[k], htRead[k], f, own)
  PROVE  ListOK(lists'[k], htRead'[k], f, own)
<1>1. ASSUME NEW s, NEW r, Holds(s, r, f, own) PROVE Holds(s \o <<>>, r, f, own)
  <2>1. s \in Seq(Rules)
    BY <1>1 DEF Holds
  <2>2. s \o <<>> = s
    BY <2>1
  <2> QED
    BY <1>1, <2>2
<1> QED
  BY <1>1, AccessKeeps

LEMMA CachesNext == Inv /\ CachesInv /\ [Next]_vars => CachesInv'
<1> SUFFICES ASSUME Inv, CachesInv, [Next]_vars PROVE CachesInv'
  OBVIOUS
\* A line, whatever it does to the lists.
<1>1. ASSUME NEW key, Reading(key), passwd' = passwd,
             server_name' = IF key = "ServerName" THEN Arg ELSE server_name,
             \A h \in Hosts : ListOK(lists[h], htRead[h], file, Own(file, line - 1, h))
                                => ListOK(lists'[h], htRead'[h], file, Own(file, line, h))
      PROVE  CachesInv'
  <2>1. /\ pc = "parse" /\ pc' = "parse" /\ file' = file /\ line' = line + 1
        /\ line \in Nat /\ line \in 1..Len(file) /\ file[line][1] = key /\ Arg = file[line][2]
    BY <1>1, LineRead
  <2>2. homeRead' = homeRead
    BY <1>1 DEF Reading
  <2>3. line >= 1 /\ line' - 1 = line
    BY <2>1
  <2>4. server_name' = NameIn(file, line')
    <3>1. NameIn(file, line + 1) = IF file[line][1] = "ServerName" THEN file[line][2]
                                   ELSE NameIn(file, line)
      BY <2>1, <2>3, NameNext
    <3>2. server_name = NameIn(file, line)
      BY <2>1 DEF CachesInv
    <3> QED
      BY <1>1, <2>1, <3>1, <3>2
  <2>5. \A h \in Hosts : ListOK(lists'[h], htRead'[h], file, Own(file, line' - 1, h))
    BY <1>1, <2>1, <2>3 DEF CachesInv
  <2>6. \A h \in Hosts : ListOK(lists'[h], htRead'[h], file', Own(file', line' - 1, h))
    BY <2>1, <2>5
  <2> QED
    BY <1>1, <2>1, <2>2, <2>4, <2>6 DEF CachesInv
\* Lines that use no list.
<1>2. ASSUME NEW key, Reading(key), passwd' = passwd, key \notin {"Allow", "Deny"},
             server_name' = IF key = "ServerName" THEN Arg ELSE server_name,
             UNCHANGED access
      PROVE  CachesInv'
  <2>1. line \in Nat /\ line >= 1 /\ file[line][1] = key
    BY <1>2, LineRead
  <2>2. \A h : Own(file, line, h) = Own(file, line - 1, h)
    BY <1>2, <2>1, OwnNext DEF IsAccess
  <2> QED
    BY <1>1, <1>2, <2>2 DEF access
<1>3. CASE c_add_access
  <2>1. PICK key \in {"Allow", "Deny"} : Reading(key)
    BY <1>3 DEF c_add_access
  <2>2. /\ pc = "parse" /\ line \in Nat /\ line \in 1..Len(file) /\ file[line][1] = key
        /\ Arg = file[line][2] /\ file \in Files
    BY <2>1, LineRead
  <2>3. /\ server_name \in Hosts /\ server_name = NameIn(file, line) /\ IsAccess(file, line)
        /\ DOMAIN lists = Hosts /\ DOMAIN htRead = Hosts
    BY <2>2 DEF CachesInv, Inv, RestOK, IsAccess
  <2> DEFINE x == <<file[line][1], file[line][2]>>
  <2>4. WithList(server_name, <<x>>) /\ passwd' = passwd /\ server_name' = server_name
    BY <1>3, <2>2 DEF c_add_access, globals, tables
  <2>5. ASSUME NEW h \in Hosts,
               ListOK(lists[h], htRead[h], file, Own(file, line - 1, h))
        PROVE  ListOK(lists'[h], htRead'[h], file, Own(file, line, h))
    <3> DEFINE own == Own(file, line - 1, h)
               new == own \cup {line}
    <3>1. line >= 1
      BY <2>2
    <3>2. /\ Own(file, line, h) = IF server_name = h THEN new ELSE own
          /\ own \in SUBSET (1..line - 1)
      BY <2>2, <2>3, <3>1, OwnNext
    <3>3. ListOK(lists[h], htRead[h], file, own)
      BY <2>5
    <3>4. ASSUME NEW s, NEW r, Holds(s, r, file, own) PROVE Holds(s \o <<x>>, r, file, new)
      <4> HIDE DEF own
      <4> QED
        BY <2>2, <3>2, <3>4, HoldsNext
    <3> HIDE DEF own, x
    <3>5. CASE server_name = h
      <4> HIDE DEF new
      <4> QED
        BY <2>3, <2>4, <3>2, <3>3, <3>4, <3>5, AccessKeeps
    <3>6. CASE server_name # h
      <4>1. lists'[h] = lists[h] /\ htRead'[h] = htRead[h]
        BY <2>3, <2>4, <3>6 DEF WithList
      <4> QED
        BY <3>2, <3>3, <3>6, <4>1
    <3> QED
      BY <3>5, <3>6
  <2> QED
    BY <1>1, <2>1, <2>4, <2>5
<1>4. CASE PlainLine
  <2>1. PICK key \in PrefKeys \cup {"VirtualHost"} : Reading(key)
    BY <1>4, PlainRead
  <2>2. key \notin {"Allow", "Deny", "ServerName"}
    BY <2>1, KeywordsAssumption
  <2>3. passwd' = passwd /\ server_name' = server_name /\ UNCHANGED access
    BY <1>4, PlainRead DEF tables
  <2> QED
    BY <1>2, <2>1, <2>2, <2>3
<1>5. CASE c_set_int \/ c_add_mime_type \/ c_add_alias
  <2>1. passwd' = passwd /\ server_name' = server_name /\ UNCHANGED access
    BY <1>5 DEF c_set_int, c_add_mime_type, c_add_alias, tables, globals
  <2>2. PICK key \in {"KeepAliveMax", "MaxConnections", "AddType", "Alias"} : Reading(key)
    BY <1>5 DEF c_set_int, c_add_mime_type, c_add_alias
  <2> QED
    BY <1>2, <2>1, <2>2
<1>6. CASE c_set_string
  <2>1. passwd' = passwd /\ UNCHANGED access
    BY <1>6 DEF c_set_string, tables
  <2>2. \/ Reading("VHostRoot") /\ server_name' = server_name
        \/ Reading("ServerName") /\ server_name' = Arg
    BY <1>6 DEF c_set_string
  <2> QED
    BY <1>2, <2>1, <2>2
<1>7. CASE Sighup
  BY <1>7 DEF Sighup, dump_passwd, CachesInv
<1>8. CASE apply_inline_preferences
  <2>1. /\ pc' \in {"parse", "exited"} /\ line' = 1 /\ server_name' = DefaultName
        /\ lists' = Empty(Hosts) /\ passwd' = passwd /\ homeRead' = homeRead
    BY <1>8 DEF apply_inline_preferences, access_init
  <2>2. 1..line' - 1 = {}
    BY <2>1
  <2>3. NameIn(file', line') = DefaultName
    BY <2>2 DEF NameIn, Named
  <2>4. ASSUME NEW h \in Hosts
        PROVE  ListOK(lists'[h], htRead'[h], file', Own(file', line' - 1, h))
    <3>1. lists'[h] = Unset
      BY <2>1 DEF Empty
    <3>2. Own(file', line' - 1, h) = {}
      BY <2>2 DEF Own
    <3> QED
      BY <3>1, <3>2 DEF ListOK
  <2> QED
    BY <2>1, <2>3, <2>4 DEF CachesInv
<1>9. CASE Loaded
  <2>1. /\ EndOfFile /\ pc' = "serve" /\ file' = file /\ line' = line /\ passwd' = passwd
        /\ homeRead' = homeRead /\ server_name' = server_name /\ UNCHANGED access
    BY <1>9 DEF Loaded
  <2>2. pc = "parse" /\ line = Len(file) + 1
    BY <2>1, AtEnd
  <2> QED
    BY <2>1, <2>2 DEF CachesInv, access
<1>10. CASE pc' = "exited" /\ UNCHANGED <<alias, passwd, access, homeRead>>
  BY <1>10 DEF CachesInv
<1>11. CASE Request
  <2>1. PICK uri \in Uris, hh \in Hosts : translate_uri(uri, hh)
    BY <1>11 DEF Request
  <2>2. pc = "serve" /\ pc' = "serve" /\ file' = file /\ line' = line
        /\ server_name' = server_name
    BY <1>11 DEF Request, globals
  <2>3. \A u, home : get_home_dir(u, home) => passwd' = homeRead'
    BY DEF get_home_dir, CachesInv
  <2>4. passwd' = homeRead'
    BY <2>1, <2>3 DEF translate_uri, CachesInv
  <2>5. UNCHANGED access \/ WithList(AccessHost(hh), <<>>)
    <3>1. \A s : init_get(hh, s) => UNCHANGED access \/ WithList(AccessHost(hh), <<>>)
      BY DEF init_get
    <3> QED
      BY <2>1, <3>1 DEF translate_uri
  <2>6. /\ AccessHost(hh) \in Hosts /\ DOMAIN lists = Hosts /\ DOMAIN htRead = Hosts
    BY DEF AccessHost, Inv, RestOK
  <2>7. ASSUME NEW h \in Hosts
        PROVE  ListOK(lists'[h], htRead'[h], file', Own(file', line' - 1, h))
    <3> DEFINE own == Own(file, line - 1, h)
    <3>1. ListOK(lists[h], htRead[h], file, own)
      BY <2>2 DEF CachesInv
    <3> HIDE DEF own
    <3>2. ListOK(lists'[h], htRead'[h], file, own)
      <4>1. CASE UNCHANGED access
        BY <3>1, <4>1 DEF access
      <4>2. CASE WithList(AccessHost(hh), <<>>)
        BY <2>6, <3>1, <4>2, UseKeeps
      <4> QED
        BY <2>5, <4>1, <4>2
    <3> QED
      BY <2>2, <3>2 DEF own
  <2> QED
    BY <2>2, <2>4, <2>7 DEF CachesInv
<1>12. CASE Idle
  <2>1. pc' = pc /\ file' = file /\ line' = line /\ server_name' = server_name
        /\ passwd' = passwd /\ homeRead' = homeRead /\ lists' = lists /\ htRead' = htRead
    BY <1>12 DEF Idle, tables, globals, access
  <2> QED
    BY <2>1 DEF CachesInv
<1> QED
  BY <1>3, <1>4, <1>5, <1>6, <1>7, <1>8, <1>9, <1>10, <1>11, <1>12, Steps

-----------------------------------------------------------------------------
\* After a load of any file, first or after a SIGHUP, every extension has the
\* type of mime.types, else of its first AddType line, else the built-in one:
\* hash_insert keeps what came first and dump_mime forgets the last load.
THEOREM MimeFromFile == Spec => []MimeFollowsFile
<1>1. MimeInv => MimeFollowsFile
  BY DEF MimeInv
<1>2. Spec => []MimeInv
  BY InvAlways, MimeInit, MimeNext, PTL DEF Spec
<1> QED
  BY <1>1, <1>2, PTL

\* After a load of any file with a KeepAliveMax line the variable holds the
\* number of the last one as an unsigned int, and MaxConnections is from 1 to FD_SETSIZE - 20.
THEOREM NumbersFromFile == Spec => []NumbersAfterLoad
<1>1. NumbersInv => NumbersAfterLoad
  BY DEF NumbersInv
<1>2. Spec => []NumbersInv
  BY InvAlways, NumbersInit, NumbersNext, PTL DEF Spec
<1> QED
  BY <1>1, <1>2, PTL

\* After a load of any file, for any hash of names and any number of buckets,
\* find_alias gives a path the alias of the first line that covers it, though
\* add_alias does not compare with the last entry of a chain.
THEOREM AliasesFromFile == Spec => []AliasesFollowFile
<1>1. AliasInv => AliasesFollowFile
  BY DEF AliasInv
<1>2. Spec => []AliasInv
  BY InvAlways, AliasInit, AliasNext, PTL DEF Spec
<1> QED
  BY <1>1, <1>2, PTL

\* While requests are served, get_home_dir's cache holds answers since the
\* last SIGHUP, and, for a file with the server's name above its rules, each
\* host's access list is its .htaccess as read since then and, for the
\* server's own host, every Allow and Deny line, once and in order.
THEOREM CachesFromLoad == Spec => []CachesReread
<1>1. Inv /\ CachesInv => CachesReread
  BY CachesMean
<1>2. Spec => []CachesInv
  BY InvAlways, CachesInit, CachesNext, PTL DEF Spec
<1> QED
  BY <1>1, <1>2, InvAlways, PTL

=============================================================================
