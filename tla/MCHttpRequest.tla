--------------------------- MODULE MCHttpRequest ---------------------------
\* Rules that overlap, hide one another or share a node under two names, and
\* requests with repeated, split and empty headers.
EXTENDS HttpRequest

Rule(path, method, handler) == [path |-> path, method |-> method, handler |-> handler]

MCRules == {Rule(<<Static("a"), Parameter("id")>>, "GET", "h1"),
            Rule(<<Static("a"), Static("b")>>, "POST", "h2"),
            Rule(<<Static("a"), Parameter("name"), Parameter("id")>>, "GET", "h3"),
            Rule(<<Parameter("id"), Static("b"), Parameter("id")>>, "GET", "h4"),
            Rule(<<Static("a"), Parameter("id")>>, "GET", "h5"),
            Rule(<<>>, "GET", "h6")}

Request(method, url, headers, body, flags) ==
    [method |-> method, url |-> url, headers |-> headers, body |-> body, flags |-> flags]

\* a / b; a double slash; the root; three tokens; another name first; a path
\* and a URL in the query; a "*" in the path; a URL with its scheme; "*" alone.
MCUrls == {<<"/", "a", "/", "b">>, <<"/", "a", "/", "/", "c">>, <<"/">>,
           <<"/", "a", "/", "b", "/", "c">>, <<"/", "c", "/", "b", "/", "a", "/">>,
           <<"/", "a", "?", "x", "/", "b", "/", "b">>,
           <<"/", "a", "?", "http:", "/", "/", "h", "/", "b", "?", "x">>,
           <<"/", "a", "/", "*", "/", "b">>, <<"http:", "/", "/", "h", "/", "a", "/", "b">>, <<"*">>}
MCSchemes == {"http:"}

MCRequests ==
    {Request("GET", url, <<>>, <<>>, {}) : url \in MCUrls}
    \cup {Request("POST", <<"/", "a", "/", "b">>,
                  <<<<<<"X", "-">>, <<"1", "2">>>>, <<<<"Y">>, <<"3">>>>, <<<<"X", "-">>, <<"4">>>>>>,
                  <<"5", "6">>, {"close"}),
          Request("GET", <<"/", "a", "/", "b">>, <<<<<<"X">>, <<>>>>, <<<<"Y">>, <<"1">>>>>>, <<>>, {}),
          Request("GET", <<"/", "a", "/", "c">>, <<<<<<"Y">>, <<"1">>>>, <<<<"X">>, <<>>>>>>, <<>>, {})}

=============================================================================
