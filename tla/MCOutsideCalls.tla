---------------------------- MODULE MCOutsideCalls ----------------------------
(* Names of up to six characters, small address spaces, outputs of two lines. *)
EXTENDS OutsideCalls

MCBits == [f \in {4, 6} |-> IF f = 4 THEN 2 ELSE 3]

Texts(alphabet, n) == BoundedSeq(alphabet, n)

AllTargets ==
    {NameOfHost(t) : t \in Texts({"a", "A", ".", "-", "_", "/"}, 3) \cup Texts({"a", "b", "."}, 5)
                           \cup Texts({"a", "."}, 6)}
    \cup {Address(4, n, <<"b">>) : n \in 0 .. 3} \cup {Address(6, n, <<"_">>) : n \in 0 .. 7}

AllEntries ==
    {NameEntry(t) : t \in Texts({"a", "A", ".", "-"}, 2)
                         \cup {<<"a", ".", "b">>, <<"a", "a", "a">>, <<"a", "a", "a", "a">>,
                               <<"a", ".", "a", ".", "a">>, <<"a", ".", "a", ".", "a", "a">>}}
    \cup {Network(4, n, p) : n \in 0 .. 3, p \in 0 .. 2}
    \cup {Network(6, n, p) : n \in 0 .. 7, p \in 0 .. 3}

\* Every entry alone, none, and several of which one may be no rule.
Authorizations ==
    {{e} : e \in AllEntries}
    \cup {{}, {NameEntry(<<"b">>), Network(4, 1, 1), NameEntry(<<"a", ".", "b">>)},
              {NameEntry(<<"a">>), NameEntry(<<"-">>)}}

Domain == <<"a", ".", "b">>

MCCalls ==
    [authorized : Authorizations, target : AllTargets, tool : {"gobuster"}, docker : {FALSE}]
    \cup [authorized : {{NameEntry(Domain)}}, target : {NameOfHost(<<"A", ".", "b">>)},
          tool : Tools, docker : BOOLEAN]
    \cup [authorized : {{Network(4, 1, 1)}}, target : {Address(4, 1, Domain)},
          tool : Tools, docker : {FALSE}]

\* The name itself, one below it in two spellings, one that only ends like it,
\* one that is no host name, one that is too long for one, and none.
Hosts == {Domain, <<"b", ".", "a", ".", "b">>, <<"b", ".", "A", ".", "b">>,
          <<"b", "a", ".", "b">>, <<"_", ".", "a", ".", "b">>,
          <<"b", "b", ".", "a", ".", "b">>, <<>>}

SubfinderLines ==
    [json : {"object"}, host : Hosts] \cup [json : {"none", "other"}, host : {<<>>}]

HarvesterMatches ==
    [kind : {"host", "email"}, host : Hosts \ {<<>>}]
    \cup [kind : {"address"}, host : {<<"127", "1">>, <<"10", "1">>}]

GobusterLines == [matches : {TRUE}, path : {"login", "long"}] \cup [matches : {FALSE}, path : {""}]

NucleiLines ==
    [json : {"object"}, template : {"", "t"}, at : {"", "here", "long"}, name : {"", "flaw"},
     severity : {"high", "odd"}]
    \cup [json : {"none", "other"}, template : {""}, at : {""}, name : {""}, severity : {""}]

Plugins == {[name |-> "nginx", versions |-> <<"", "2">>], [name |-> "php", versions |-> <<>>],
            [name |-> "", versions |-> <<>>]}

WhatWebRecords ==
    [json : {"object"}, url : {"", "page"}, status : BOOLEAN,
     plugins : {P \in SUBSET Plugins : Cardinality(P) # 2}]
    \cup [json : {"none", "other"}, url : {""}, status : {FALSE}, plugins : {{}}]

WafW00fRecords ==
    [json : {"object", "none", "other"}, detected : BOOLEAN, firewall : {"", "generic", "shield"}]

Ports ==
    {[open |-> TRUE, id |-> "80", service |-> "http", product |-> "nginx", version |-> "2"],
     [open |-> TRUE, id |-> "22", service |-> "", product |-> "", version |-> ""],
     [open |-> FALSE, id |-> "word", service |-> "http", product |-> "", version |-> ""],
     [open |-> TRUE, id |-> "", service |-> "http", product |-> "", version |-> ""],
     [open |-> TRUE, id |-> "word", service |-> "", product |-> "", version |-> ""]}

NmapHosts ==
    [addr : {"h"}, ports : {P \in SUBSET Ports : Cardinality(P) <= 2}]
    \cup [addr : {""}, ports : {{}, Ports}]

AnyOutput(shapes, lines) == [shape : shapes, lines : BoundedSeq(lines, 2)]

MCOutputs ==
    [t \in Tools |->
        CASE t = "subfinder" -> AnyOutput({"lines"}, SubfinderLines)
          [] t = "theharvester" -> AnyOutput({"lines"}, HarvesterMatches)
          [] t = "gobuster" -> AnyOutput({"lines"}, GobusterLines)
          [] t = "nuclei" -> AnyOutput({"lines"}, NucleiLines)
          [] t = "whatweb" -> AnyOutput({"lines", "document"}, WhatWebRecords)
          [] t = "wafw00f" -> AnyOutput({"lines", "document"}, WafW00fRecords)
          [] t = "nmap" -> AnyOutput({"lines", "document"}, NmapHosts)]

\* Around the cap of 25: in one type, and over two or seven.
Group(count, width) == [count |-> count, width |-> width]

Sections ==
    {<<Group(n, w)>> : n \in {1, 24, 25, 26}, w \in {1, 46, 512}}
    \cup {<<Group(m, 46), Group(n, w)>> : m \in {24, 25}, n \in {1, 2}, w \in {1, 46, 512}}
    \cup {[i \in 1 .. 7 |-> Group(n, 46)] : n \in {3, 4, 30}}
    \cup {<<>>}

MCComparisons ==
    [enabled : {TRUE}, baseline : BOOLEAN, head : {300, 420}, new : Sections, removed : Sections]
    \cup [enabled : {FALSE}, baseline : {FALSE}, head : {420}, new : Sections, removed : {<<>>}]

=============================================================================
