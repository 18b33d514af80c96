--------------------------- MODULE Configuration ---------------------------
(***************************************************************************)
(* What the server knows about itself: crotalus.conf and how it is read    *)
(* (config.c), the preferences and their cached copies (cr_pref.c), the    *)
(* alias table (alias.c), MIME types and home directories (cr_hash.c) and  *)
(* the access lists of the hosts (cr_access.c), through start-up, requests *)
(* that fill the caches, and reloads on SIGHUP.                            *)
(*                                                                         *)
(* Loading is one step per line of the file; requests are served between   *)
(* loads.  crotalus.conf, .htaccess and the user database may change at    *)
(* any time, so each read finds any contents; mime.types stays as it is.   *)
(* A line carries the arguments its keyword needs.  A table whose chains   *)
(* are searched by exact key is a function from keys; the alias table,     *)
(* searched by prefix, keeps its chains.                                   *)
(*                                                                         *)
(* UnwrappedInt, Unclamped, hash_replace, AliasKept, ListsKept and         *)
(* StampRemembered are the definitions they precede with a fault in them;  *)
(* nothing uses them.                                                      *)
(***************************************************************************)
EXTENDS Integers, Sequences, FiniteSets

CONSTANTS
  Files,         \* what crotalus.conf may hold: sequences of lines
                 \* <<keyword, argument, second argument>>
  PrefKeys,      \* preferences with a cached copy, "DocumentRoot" among them
  PrefDefault,   \* their built-in values
  DefaultKa,     \* built-in KeepAliveMax
  RLimit,        \* RLIMIT_NOFILE
  FdLimit,       \* FD_SETSIZE - 20
  UIntMax,       \* the largest unsigned int
  MimeFile,      \* mime.types: the type of each extension, or Unset
  BuiltinMime,   \* types added after the files, or Unset
  AliasSize,     \* ALIAS_HASHTABLE_SIZE
  Hash,          \* sum of the characters of a first path component
  Uris,          \* paths clients ask for
  Users, Homes,  \* users of ~user paths and their home directories
  Hosts,         \* names of hosts
  DefaultName,   \* the built-in name of the server
  HtContents,    \* what a .htaccess file may hold: its rules, and for each
                 \* output filter its first type, or Unset
  MaxTime,       \* bound: seconds
  Unset          \* no value

DOC == "DocumentRoot"

ASSUME KeysAssumption == DOC \in PrefKeys /\ DOMAIN PrefDefault = PrefKeys
ASSUME DefaultsAssumption == \A k \in PrefKeys : PrefDefault[k] # Unset
ASSUME NumbersAssumption ==
  /\ UIntMax \in Nat /\ FdLimit \in 1..UIntMax /\ RLimit \in 1..UIntMax
  /\ DefaultKa \in 0..UIntMax /\ AliasSize \in Nat \ {0} /\ MaxTime \in Nat
ASSUME LinesAssumption ==
  /\ <<>> \in Files
  /\ \A f \in Files :
       /\ Len(f) \in Nat
       /\ \A i \in 1..Len(f) :
            /\ f[i] # Unset
            /\ f[i][1] \in PrefKeys \cup {"AddType"} => f[i][2] # Unset
            /\ f[i][1] = "ServerName" => f[i][2] \in Hosts
            /\ f[i][1] \in {"KeepAliveMax", "MaxConnections"} => f[i][2] \in Int \cup {Unset}
            /\ f[i][1] = "Alias" => f[i][2].comps \in Seq(DOMAIN Hash)
ASSUME KeywordsAssumption ==
  PrefKeys \cap {"KeepAliveMax", "MaxConnections", "ServerName", "AddType", "Alias", "Allow",
                 "Deny"} = {}
ASSUME ServerAssumption == DefaultName \in Hosts
ASSUME PathsAssumption ==
  /\ \A c \in DOMAIN Hash : Hash[c] \in Nat
  /\ "/" \in DOMAIN Hash
  /\ \A uri \in Uris : uri.comps \in Seq(DOMAIN Hash)

\* the rules of .htaccess files and of Allow and Deny lines
Rules == (UNION {{c.rules[i] : i \in 1..Len(c.rules)} : c \in HtContents})
         \cup (UNION {{<<f[i][1], f[i][2]>> : i \in 1..Len(f)} : f \in Files})

\* OUTPUT_FILTER_DEFLATE, OUTPUT_FILTER_GZIP
FilterNames == {"deflate", "gzip"}

ASSUME RulesAssumption ==
  /\ \A c \in HtContents : c.rules \in Seq(Rules) /\ DOMAIN c.filters = FilterNames
  /\ Unset \notin Seq(Rules)

VARIABLES
  pc,          \* "inline", "parse", "serve", "exited"
  file,        \* the lines of the file being read, or read last
  line,        \* the next line
  prefs,       \* pref_hashtable
  pref_stamp,  \* pref_stamp
  cache,       \* ret_str and ret_stamp of crpref_docroot and its like
  ka_max, max_connections, virtualhost, vhost_root, server_name,
  alias,       \* alias_hashtable: the chain of each bucket
  mime,        \* mime_hashtable
  passwd,      \* passwd_hashtable
  lists,       \* _access_host_list: the rules of each host, or Unset
  filters,     \* access_hashtable: the type each output filter is used for
  homeRead,    \* history: getpwnam answers since the last SIGHUP
  htRead,      \* history: rules of .htaccess files read since the last SIGHUP
  now          \* time(NULL)

globals == <<ka_max, max_connections, virtualhost, vhost_root, server_name>>
stamps  == <<pref_stamp, cache>>
tables  == <<alias, mime, passwd>>
access  == <<lists, filters, htRead>>
vars == <<pc, file, line, prefs, stamps, globals, tables, access, homeRead, now>>

Buckets == 0..AliasSize - 1

TypeOK ==
  /\ pc \in {"inline", "parse", "serve", "exited"}
  /\ file \in Files
  /\ line \in 1..Len(file) + 1
  /\ DOMAIN prefs = PrefKeys
  /\ pref_stamp \in 0..MaxTime + 1
  /\ DOMAIN cache = PrefKeys
  /\ \A k \in PrefKeys : DOMAIN cache[k] = {"str", "stamp"} /\ cache[k].stamp \in 0..MaxTime + 1
  /\ ka_max \in 0..UIntMax
  /\ max_connections \in 0..UIntMax
  /\ virtualhost \in BOOLEAN /\ vhost_root \in BOOLEAN
  /\ server_name \in Hosts
  /\ DOMAIN alias = Buckets
  /\ DOMAIN mime = DOMAIN MimeFile
  /\ DOMAIN passwd = Users /\ DOMAIN homeRead = Users
  /\ DOMAIN lists = Hosts /\ DOMAIN htRead = Hosts
  /\ DOMAIN filters = FilterNames
  /\ now \in 1..MaxTime + 1

Empty(keys) == [k \in keys |-> Unset]

Init ==
  /\ pc = "inline"
  /\ file = <<>> /\ line = 1
  /\ prefs = Empty(PrefKeys)
  /\ pref_stamp = 0
  /\ cache = [k \in PrefKeys |-> [str |-> Unset, stamp |-> 0]]
  /\ ka_max = 0 /\ max_connections = 0
  /\ virtualhost = FALSE /\ vhost_root = FALSE
  /\ server_name = DefaultName
  /\ alias = [b \in Buckets |-> <<>>]
  /\ mime = Empty(DOMAIN MimeFile)
  /\ passwd = Empty(Users) /\ homeRead = Empty(Users)
  /\ lists = Empty(Hosts) /\ htRead = Empty(Hosts)
  /\ filters = Empty(FilterNames)
  /\ now = 1

-----------------------------------------------------------------------------
\* hash_insert: a key that is there keeps its value
hash_replace(table, key, value) == [table EXCEPT ![key] = value]

hash_insert(table, key, value) ==
  IF table[key] = Unset THEN [table EXCEPT ![key] = value] ELSE table

\* several keys, each added if it is not there
Added(table, new) ==
  [e \in DOMAIN table |-> IF table[e] = Unset THEN new[e] ELSE table[e]]

cr_pref_get(k) == IF prefs[k] = Unset THEN PrefDefault[k] ELSE prefs[k]

(***************************************************************************)
(* crpref_docroot, crpref_userdir, ...: a copy of the preference is taken  *)
(* again when its stamp differs from pref_stamp.  crpref_docroot assigns   *)
(* the stamps the other way round: it resets pref_stamp to its own stamp.  *)
(* The operators map <<pref_stamp, cache>> to what a call makes of it.     *)
(***************************************************************************)
IsStale(s, k) == s[2][k].stamp # s[1] \/ s[2][k].str = Unset

StampRemembered(s) ==
  IF IsStale(s, DOC)
  THEN <<s[1], [s[2] EXCEPT ![DOC] = [str |-> cr_pref_get(DOC), stamp |-> s[1]]]>>
  ELSE s

crpref_docroot(s) ==
  IF IsStale(s, DOC)
  THEN <<s[2][DOC].stamp, [s[2] EXCEPT ![DOC] = [str |-> cr_pref_get(DOC), stamp |-> @.stamp]]>>
  ELSE s

crpref(s, k) ==
  IF IsStale(s, k)
  THEN <<s[1], [s[2] EXCEPT ![k] = [str |-> cr_pref_get(k), stamp |-> s[1]]]>>
  ELSE s

Stamps(s) == pref_stamp' = s[1] /\ cache' = s[2]

-----------------------------------------------------------------------------
\* A path "/a/b" or "/a/b/": its components, and whether it ends in "/".
get_alias_hash_value(p) ==
  (IF p.comps = <<>> THEN Hash["/"] ELSE Hash[Head(p.comps)]) % AliasSize

\* add_alias: the walk compares every entry of the chain but the last one
add_alias(fake, real) ==
  LET b     == get_alias_hash_value(fake)
      chain == alias[b]
  IN  alias' = IF \E i \in 1..Len(chain) - 1 : chain[i].fake = fake THEN alias
               ELSE [alias EXCEPT ![b] = Append(@, [fake |-> fake, real |-> real])]

IsPrefix(s, t) == Len(s) <= Len(t) /\ \A i \in 1..Len(s) : s[i] = t[i]

\* the name of an alias covers a path up to a "/" or to its end
Covers(fake, uri) ==
  /\ IsPrefix(fake.comps, uri.comps)
  /\ fake.slash => Len(uri.comps) > Len(fake.comps) \/ uri.slash

FirstOf(s, P(_)) ==
  IF \E i \in 1..Len(s) : P(s[i])
  THEN s[CHOOSE i \in 1..Len(s) : P(s[i]) /\ \A j \in 1..i - 1 : ~P(s[j])]
  ELSE Unset

find_alias(uri) ==
  FirstOf(alias[get_alias_hash_value(uri)], LAMBDA e : Covers(e.fake, uri))

-----------------------------------------------------------------------------
\* sighup_run unloads three tables and loads again.  Nothing empties
\* access_hashtable: an output filter lives as long as the program.
AliasKept  == UNCHANGED alias
dump_alias == alias' = [b \in Buckets |-> <<>>]

dump_mime   == mime' = Empty(DOMAIN MimeFile)
dump_passwd == passwd' = Empty(Users)

Sighup ==
  /\ pc = "serve"
  /\ dump_mime /\ dump_passwd /\ dump_alias
  /\ homeRead' = Empty(Users) /\ htRead' = Empty(Hosts)
  /\ pc' = "inline"
  /\ file' = <<>> /\ line' = 1
  /\ UNCHANGED <<prefs, stamps, globals, lists, filters, now>>

\* read_config_files: the built-in values and mime.types, then access_init
\* forgets the access lists, then the file is opened.  A user, a group or a
\* file that is missing ends the program.
ResetInts == ka_max' = DefaultKa

ListsKept   == UNCHANGED lists
access_init == lists' = Empty(Hosts)

apply_inline_preferences ==
  /\ pc = "inline"
  /\ pref_stamp' = now
  /\ ResetInts
  /\ server_name' = DefaultName
  /\ mime' = Added(mime, MimeFile)
  /\ access_init
  /\ \/ pc' = "parse" /\ file' \in Files
     \/ pc' = "exited" /\ UNCHANGED file
  /\ line' = 1
  /\ UNCHANGED <<prefs, cache, max_connections, virtualhost, vhost_root, alias,
                 passwd, filters, homeRead, htRead, now>>

-----------------------------------------------------------------------------
\* parse: one line, looked up in clist; the action depends on the keyword
Reading(key) ==
  /\ pc = "parse"
  /\ line <= Len(file)
  /\ file[line][1] = key
  /\ line' = line + 1
  /\ UNCHANGED <<pc, file, homeRead, now>>

Arg == file[line][2]

c_set_preference ==
  /\ \E k \in PrefKeys :
       /\ Reading(k)
       /\ prefs' = hash_insert(prefs, k, Arg)
  /\ pref_stamp' = now
  /\ UNCHANGED <<cache, globals, tables, access>>

\* c_set_int stores a signed number in an unsigned variable; an argument
\* that is not a number (Unset) leaves it alone
UnwrappedInt(i, old) == IF i = Unset THEN old ELSE i
Stored(i, old) == IF i = Unset THEN old ELSE i % (UIntMax + 1)

c_set_int ==
  /\ \/ /\ Reading("KeepAliveMax")
        /\ ka_max' = Stored(Arg, ka_max)
        /\ UNCHANGED max_connections
     \/ /\ Reading("MaxConnections")
        /\ max_connections' = Stored(Arg, max_connections)
        /\ UNCHANGED ka_max
  /\ UNCHANGED <<prefs, stamps, virtualhost, vhost_root, server_name, tables, access>>

c_set_unity ==
  /\ Reading("VirtualHost")
  /\ virtualhost' = TRUE
  /\ UNCHANGED <<prefs, stamps, ka_max, max_connections, vhost_root, server_name, tables,
                 access>>

c_set_string ==
  /\ \/ Reading("VHostRoot") /\ vhost_root' = TRUE /\ UNCHANGED server_name
     \/ Reading("ServerName") /\ server_name' = Arg /\ UNCHANGED vhost_root
  /\ UNCHANGED <<prefs, stamps, ka_max, max_connections, virtualhost, tables, access>>

c_add_mime_type ==
  /\ Reading("AddType")
  /\ mime' = hash_insert(mime, file[line][3], Arg)
  /\ UNCHANGED <<prefs, stamps, globals, alias, passwd, access>>

c_add_alias ==
  /\ Reading("Alias")
  /\ add_alias(Arg, file[line][3])
  /\ UNCHANGED <<prefs, stamps, globals, mime, passwd, access>>

(***************************************************************************)
(* access_list_get: the first use of a host's list reads the .htaccess     *)
(* under the document root; its AddOutputFilterByType lines go through     *)
(* access_filter_add into a table all hosts share.  extra are rules added  *)
(* behind those of the file.                                               *)
(***************************************************************************)
AccessHost(h) == IF virtualhost THEN h ELSE server_name

WithList(h, extra) ==
  IF lists[h] # Unset
  THEN lists' = [lists EXCEPT ![h] = @ \o extra] /\ UNCHANGED <<filters, htRead>>
  ELSE \E c \in HtContents :
         /\ lists' = [lists EXCEPT ![h] = c.rules \o extra]
         /\ filters' = Added(filters, c.filters)
         /\ htRead' = [htRead EXCEPT ![h] = c.rules]

AfterList(h, s) == IF lists[h] # Unset THEN s ELSE crpref_docroot(s)

c_add_access ==
  /\ Reading("Allow") \/ Reading("Deny")
  /\ WithList(server_name, <<<<file[line][1], Arg>>>>)
  /\ Stamps(AfterList(server_name, <<pref_stamp, cache>>))
  /\ UNCHANGED <<prefs, globals, tables>>

\* The keywords files are made of here; the others of clist set variables
\* nothing in this module reads.
Keywords == PrefKeys \cup {"KeepAliveMax", "MaxConnections", "VirtualHost", "VHostRoot",
                           "ServerName", "AddType", "Alias", "Allow", "Deny"}

\* an unknown keyword ends the program, at start-up and on a reload
UnknownKeyword ==
  /\ pc = "parse"
  /\ line <= Len(file)
  /\ file[line][1] \notin Keywords
  /\ pc' = "exited"
  /\ UNCHANGED <<file, line, prefs, stamps, globals, tables, access, homeRead, now>>

(***************************************************************************)
(* The end of read_config_files.  VHostRoot excludes VirtualHost and a     *)
(* document root, which always has a value; MaxConnections is brought into *)
(* the range select() can handle.                                          *)
(***************************************************************************)
Unclamped(n) == IF n < 1 THEN RLimit ELSE n

Usable(n) ==
  LET set == IF n < 1 THEN RLimit ELSE n
  IN  IF set > FdLimit THEN FdLimit ELSE set

EndOfFile == pc = "parse" /\ line > Len(file)

MutuallyExclusive ==
  /\ EndOfFile
  /\ vhost_root
  /\ pc' = "exited"
  /\ IF virtualhost THEN UNCHANGED stamps
     ELSE Stamps(crpref_docroot(<<pref_stamp, cache>>))
  /\ UNCHANGED <<file, line, prefs, globals, tables, access, homeRead, now>>

Loaded ==
  /\ EndOfFile
  /\ ~vhost_root
  /\ max_connections' = Usable(max_connections)
  /\ mime' = Added(mime, BuiltinMime)
  /\ pc' = "serve"
  /\ UNCHANGED <<file, line, prefs, stamps, ka_max, virtualhost, vhost_root, server_name,
                 alias, passwd, access, homeRead, now>>

-----------------------------------------------------------------------------
(***************************************************************************)
(* A request: translate_uri looks for an alias, then asks for the user     *)
(* directory, then resolves ~user or takes the document root; when the     *)
(* file can be opened init_get asks the access list of the host.           *)
(***************************************************************************)
TildeUser(uri) == IF uri.comps # <<>> /\ Head(uri.comps) \in Users THEN Head(uri.comps) ELSE Unset

\* get_home_dir: the cached answer, or what getpwnam says now
get_home_dir(u, home) ==
  IF passwd[u] # Unset
  THEN home = passwd[u] /\ UNCHANGED <<passwd, homeRead>>
  ELSE /\ home \in Homes \cup {Unset}
       /\ passwd' = [passwd EXCEPT ![u] = home]
       /\ homeRead' = [homeRead EXCEPT ![u] = home]

\* init_get: the file cannot be opened, after get_parent_index if a search
\* for a parent index is on; or the access list is asked, and then a
\* directory (get_dir) or a program (DOCUMENT_ROOT) asks for preferences
init_get(h, s) ==
  \E v \in {s, crpref_docroot(s)} :
    \/ Stamps(v) /\ UNCHANGED access
    \/ LET t == AfterList(AccessHost(h), v)
       IN  /\ WithList(AccessHost(h), <<>>)
           /\ \/ Stamps(t)
              \/ Stamps(crpref_docroot(t))
              \/ \E k, j \in PrefKeys \ {DOC} : Stamps(crpref(crpref(t, k), j))

translate_uri(uri, h) ==
  LET s == <<pref_stamp, cache>>
      t == crpref(s, "UserDir")
      u == TildeUser(uri)
  IN  \/ /\ find_alias(uri) # Unset
         /\ init_get(h, s)
         /\ UNCHANGED <<passwd, homeRead>>
      \/ /\ find_alias(uri) = Unset /\ u # Unset
         /\ \E home \in Homes \cup {Unset} :
              /\ get_home_dir(u, home)
              /\ IF home = Unset THEN Stamps(t) /\ UNCHANGED access ELSE init_get(h, t)
      \/ /\ find_alias(uri) = Unset /\ u = Unset
         /\ init_get(h, crpref_docroot(t))
         /\ UNCHANGED <<passwd, homeRead>>

Request ==
  /\ pc = "serve"
  /\ \E uri \in Uris, h \in Hosts : translate_uri(uri, h)
  /\ UNCHANGED <<pc, file, line, prefs, globals, alias, mime, now>>

Tick ==
  /\ now <= MaxTime
  /\ now' = now + 1
  /\ UNCHANGED <<pc, file, line, prefs, stamps, globals, tables, access, homeRead>>

Exited == pc = "exited" /\ UNCHANGED vars

Next ==
  \/ Sighup \/ apply_inline_preferences
  \/ c_set_preference \/ c_set_int \/ c_set_unity \/ c_set_string
  \/ c_add_mime_type \/ c_add_alias \/ c_add_access \/ UnknownKeyword
  \/ MutuallyExclusive \/ Loaded \/ Request \/ Tick \/ Exited

Spec == Init /\ [][Next]_vars

-----------------------------------------------------------------------------
LineOf(P(_)) == FirstOf(file, P)
Latest(set) == CHOOSE i \in set : \A j \in set : j <= i

\* After every load, first or later, a path is translated by the first
\* Alias line of the file that covers it: chains, collisions, repeated
\* names and earlier files make no difference.  (An alias for "/" itself is
\* hashed apart from the paths it covers and is left out.)
AliasesFollowFile ==
  pc = "serve" /\ (\A i \in 1..Len(file) : file[i][1] = "Alias" => file[i][2].comps # <<>>) =>
    \A uri \in Uris :
      LET first == LineOf(LAMBDA l : l[1] = "Alias" /\ Covers(l[2], uri))
      IN  find_alias(uri) = IF first = Unset THEN Unset
                            ELSE [fake |-> first[2], real |-> first[3]]

\* The type of an extension is the one of mime.types, else of the first
\* AddType line, else the built-in one, after every load.
MimeFollowsFile ==
  pc = "serve" =>
    \A e \in DOMAIN MimeFile :
      LET first == LineOf(LAMBDA l : l[1] = "AddType" /\ l[3] = e)
      IN  mime[e] = CASE MimeFile[e] # Unset -> MimeFile[e]
                      [] MimeFile[e] = Unset /\ first # Unset -> first[2]
                      [] OTHER -> BuiltinMime[e]

\* KeepAliveMax is the number of its last line, as an unsigned int, whatever
\* was loaded before, and MaxConnections, from whatever line or signed
\* number, stays within what select() can watch.  (Of a file without a
\* KeepAliveMax line nothing is said: config.c takes the built-in value
\* where the manual has keepalive disabled.)
NumbersAfterLoad ==
  pc = "serve" =>
    LET own == {i \in 1..Len(file) : file[i][1] = "KeepAliveMax" /\ file[i][2] # Unset}
    IN  /\ max_connections \in 1..FdLimit
        /\ own # {} => ka_max = file[Latest(own)][2] % (UIntMax + 1)

\* Allow and Deny lines are rules of the server's own host, wherever in the
\* file its name stands.
AccessLines == {i \in 1..Len(file) : file[i][1] \in {"Allow", "Deny"}}
LinesFor(h) == IF h = server_name THEN AccessLines ELSE {}

\* c_add_access goes by the name set so far, so the manual's "they can occur
\* in any order" is true of files with the name above the rules.
NameFirst ==
  \A i \in AccessLines, j \in 1..Len(file) : file[j][1] = "ServerName" => j < i

\* Home directories and access rules in use were read after the last
\* SIGHUP: a home directory is getpwnam's answer, and a host's rules are
\* those of its .htaccess and then each Allow and Deny line meant for it
\* once, in order, whichever of a request and a line used the list first.
\* (Output filters of .htaccess files survive a SIGHUP and are left out.)
CachesReread ==
  pc = "serve" =>
    /\ \A u \in Users : passwd[u] = homeRead[u]
    /\ NameFirst => \A h \in Hosts : lists[h] # Unset =>
         /\ htRead[h] # Unset
         /\ Len(lists[h]) = Len(htRead[h]) + Cardinality(LinesFor(h))
         /\ \A i \in 1..Len(htRead[h]) : lists[h][i] = htRead[h][i]
         /\ \A i \in LinesFor(h) :
              lists[h][Len(htRead[h]) + Cardinality({j \in LinesFor(h) : j <= i})]
                = <<file[i][1], file[i][2]>>

\* The copy crpref_docroot hands out is the preference, although stamps are
\* seconds and several changes may share one.
DocrootIsFresh ==
  ~IsStale(<<pref_stamp, cache>>, DOC) => cache[DOC].str = cr_pref_get(DOC)

\* doc/crotalus.texi: after a SIGHUP "All other configuration changes
\* should take place smoothly."  A single DocumentRoot line takes effect.
DocrootFollowsFile ==
  pc = "serve" =>
    \A i \in 1..Len(file) :
      file[i][1] = DOC /\ (\A j \in 1..Len(file) : file[j][1] = DOC => j = i) =>
        cr_pref_get(DOC) = file[i][2]
=============================================================================
