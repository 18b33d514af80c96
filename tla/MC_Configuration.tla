-------------------------- MODULE MC_Configuration --------------------------
(* A server with two preferences, four paths and two hosts for TLC.        *)
EXTENDS Configuration

Path(c, s) == [comps |-> c, slash |-> s]

Lines ==
  { <<"DocumentRoot", "d1", "-">>,
    <<"KeepAliveMax", -1, "-">>, <<"KeepAliveMax", Unset, "-">>, <<"MaxConnections", -1, "-">>,
    <<"VirtualHost", "-", "-">>, <<"VHostRoot", "v", "-">>, <<"ServerName", "own", "-">>, <<"Misspelt", "-", "-">>,
    <<"Alias", Path(<<"a">>, FALSE), "x">>, <<"Alias", Path(<<"a">>, FALSE), "y">>,
    <<"Alias", Path(<<"a", "b">>, TRUE), "z">>, <<"Alias", Path(<<"c">>, TRUE), "w">>,
    <<"AddType", "t1", "cgi">>, <<"AddType", "t2", "cgi">>, <<"AddType", "t1", "txt">>,
    <<"Allow", "p", "-">>, <<"Deny", "q", "-">> }

AliasLines == {l \in Lines : l[1] = "Alias" /\ Len(l[2].comps) = 1}

\* every file of at most two lines, and three aliases, so that one of them
\* can meet its own name before the end of a chain
MCFiles == UNION {[1..n -> Lines] : n \in 0..2} \cup [1..3 -> AliasLines]

\* two document roots
RootFiles == {<<>>} \cup {<< <<"DocumentRoot", d, "-">> >> : d \in {"d1", "d2"}}

MCPrefDefault == [k \in {"DocumentRoot", "UserDir"} |-> "default"]
MCMimeFile    == [e \in {"cgi", "txt"} |-> IF e = "txt" THEN "plain" ELSE Unset]
MCBuiltinMime == [e \in {"cgi", "txt"} |-> IF e = "cgi" THEN "program" ELSE Unset]
MCHash        == [c \in {"/", "a", "b", "c", "~u"} |-> IF c = "~u" THEN 1 ELSE 2]
MCUris        == {Path(<<"a">>, FALSE), Path(<<"a", "b">>, TRUE),
                  Path(<<"c", "b">>, FALSE), Path(<<"~u">>, FALSE)}
NoFilters     == [f \in FilterNames |-> Unset]
MCHtContents  == {[rules |-> <<>>, filters |-> NoFilters],
                  [rules |-> <<<<"Deny", "p">>>>, filters |-> [NoFilters EXCEPT !["gzip"] = "plain"]]}
=============================================================================
