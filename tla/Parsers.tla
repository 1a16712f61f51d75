------------------------------- MODULE Parsers -------------------------------
(***************************************************************************)
(* What the tool wrappers (src/vanguard_x/tools) make of their tool's      *)
(* output: parse of SubfinderWrapper, HarvesterWrapper, GobusterWrapper,   *)
(* NucleiWrapper, WhatWebWrapper, WafW00fWrapper and NmapWrapper.          *)
(*                                                                         *)
(* An output is [shape, lines].  Its lines are lines of text, the records  *)
(* of a JSON document, the hosts of an XML document, or what theHarvester's*)
(* expressions find; each is a record of what the wrapper looks at.  The   *)
(* shape is "document" when the whole text parses, "lines" when it does    *)
(* not, which only some wrappers ask.  A value is a sequence of words, or  *)
(* of characters for a host name; the word "long" stands for one past 512. *)
(* Lists of results are sets here: the agents go through all of them.      *)
(***************************************************************************)
EXTENDS Scope

Tools == {"subfinder", "theharvester", "gobuster", "nuclei", "whatweb",
          "wafw00f", "nmap"}

AssetTypes == {"subdomain", "host", "email", "url", "technology", "port", "service"}

Severities == {"info", "low", "medium", "high", "critical"}

\* True of any literal, which the provers have to be told.
ASSUME WordsAreStrings == {"@", "WAF:"} \subseteq STRING

Asset(type, value) == [type |-> type, value |-> value]

\* Asset and Finding are validated as they are built: 1 to 512 characters.
IsValid(value) == value # <<>> /\ "long" \notin ToSet(value)

\* Two words with a space between them, as strip leaves them.
Word(word) == IF word = "" THEN <<>> ELSE <<word>>
Words(first, second) == Word(first) \o Word(second)

Nothing == [raised |-> FALSE, assets |-> {}, findings |-> {}]

Raise(found) == [found EXCEPT !.raised = TRUE]

Emit(found, assets) ==
    IF \A a \in assets : IsValid(a.value)
    THEN [found EXCEPT !.assets = @ \cup assets]
    ELSE Raise(found)

\* What a wrapper looks at in a line.
LinesOf(tool) ==
    CASE tool = "subfinder" -> [json : {"object", "none", "other"}, host : Seq(STRING)]
      [] tool = "theharvester" -> [kind : {"host", "email", "address"}, host : Seq(STRING)]
      [] tool = "gobuster" -> [matches : BOOLEAN, path : STRING]
      [] tool = "nuclei" -> [json : {"object", "none", "other"}, template : STRING,
                             at : STRING, name : STRING, severity : STRING]
      [] tool = "whatweb" -> [json : {"object", "none", "other"}, url : STRING, status : BOOLEAN,
                              plugins : SUBSET [name : STRING, versions : Seq(STRING)]]
      [] tool = "wafw00f" -> [json : {"object", "none", "other"}, detected : BOOLEAN,
                              firewall : STRING]
      [] tool = "nmap" -> [addr : STRING, ports : SUBSET [open : BOOLEAN, id : STRING,
                               service : STRING, product : STRING, version : STRING]]

OutputsOf(tool) == [shape : {"lines", "document"}, lines : Seq(LinesOf(tool))]

-----------------------------------------------------------------------------
(* One line of each tool.  line.json is "object", "none" for text that is  *)
(* no JSON, or "other" for JSON that is not the object the wrapper expects.*)

SubfinderLine(target, found, line) ==
    LET host == Lower(line.host)
        asset == Asset("subdomain", host) IN
    CASE line.json = "none" -> found
      [] line.json = "other" -> Raise(found)    \* no get, no strip
      [] line.json = "object" ->
            IF \/ host = <<>> \/ asset \in found.assets
               \/ ~IsUnder(host, Lower(target.text))
            THEN found ELSE Emit(found, {asset})

\* Mistake: what ends with the target's name is taken for its subdomain.
MatchBySuffix(target, found, match) ==
    LET host == Lower(match.host) IN
    IF match.kind = "host" /\ EndsWithDomain(host, Lower(target.text)) /\ host # Lower(target.text)
    THEN Emit(found, {Asset("subdomain", host)})
    ELSE found

\* A host, an address of mail (which names a host as well), or an IPv4 address.
HarvesterMatch(target, found, match) ==
    LET domain == Lower(target.text)
        host == Lower(match.host) IN
    IF match.kind = "address"
    THEN IF match.host[1] \in {"0", "127", "255"} THEN found
         ELSE Emit(found, {Asset("host", match.host)})
    ELSE Emit(found,
            (IF IsUnder(host, domain) THEN {Asset("subdomain", host)} ELSE {})
            \cup (IF match.kind = "email" /\ (host = domain \/ IsUnder(host, domain))
                  THEN {Asset("email", <<"@">> \o host)} ELSE {}))

GobusterLine(target, found, line) ==
    IF line.matches
    THEN Emit(found, {Asset("url", target.text \o <<line.path>>)})
    ELSE found

SeverityOf(word) ==
    IF word \in Severities THEN word ELSE "info"

NucleiLine(found, line) ==
    CASE line.json = "none" -> found
      [] line.json = "other" -> Raise(found)
      [] line.json = "object" ->
            IF line.template = "" \/ line.at = "" THEN found
            ELSE IF ~IsValid(Word(line.name)) THEN Raise(found)
            ELSE Emit([found EXCEPT !.findings =
                          @ \cup {[severity |-> SeverityOf(line.severity),
                                   title |-> line.name, at |-> line.at]}],
                      {Asset("url", <<line.at>>)})

\* _first_version: of the entries of a plugin, the first that has one
FirstVersion(versions) ==
    LET usable == {i \in DOMAIN versions : versions[i] # ""} IN
    IF usable = {} THEN "" ELSE versions[Min(usable)]

\* Plugins that are no mapping are no plugins.
WhatWebRecord(target, found, record) ==
    LET url == IF record.url = "" THEN target.text ELSE <<record.url>> IN
    IF record.json # "object" THEN found
    ELSE Emit(found,
            (IF record.status THEN {Asset("host", url)} ELSE {})
            \cup {Asset("technology", Words(p.name, FirstVersion(p.versions))) :
                      p \in record.plugins})

WafW00fRecord(found, record) ==
    CASE record.json = "none" -> found          \* not a dict: skipped
      [] record.json = "other" -> Raise(found)  \* a firewall that is no string
      [] record.json = "object" ->
            IF ~record.detected \/ record.firewall \in {"", "none", "generic"} THEN found
            ELSE Emit(found, {Asset("technology", <<"WAF:", record.firewall>>)})

\* The ports of a host that are open and numbered; what is no number raises.
PortAssets(ip, port) ==
    {Asset("port", <<ip, port.id>>)}
    \cup (IF port.service = "" THEN {} ELSE {Asset("service", <<port.service, ip, port.id>>)})
    \cup (IF port.product = "" THEN {} ELSE {Asset("technology", Words(port.product, port.version))})

NmapHost(found, host) ==
    LET ports == {p \in host.ports : p.open /\ p.id # ""} IN
    IF host.addr = "" THEN found
    ELSE IF \E p \in ports : p.id = "word" THEN Raise(found)
    ELSE Emit(found, {Asset("host", <<host.addr>>)}
                     \cup UNION {PortAssets(host.addr, p) : p \in ports})

-----------------------------------------------------------------------------

ParseLine(tool, target, found, line) ==
    CASE tool = "subfinder" -> SubfinderLine(target, found, line)
      [] tool = "theharvester" -> HarvesterMatch(target, found, line)
      [] tool = "gobuster" -> GobusterLine(target, found, line)
      [] tool = "nuclei" -> NucleiLine(found, line)
      [] tool = "whatweb" -> WhatWebRecord(target, found, line)
      [] tool = "wafw00f" -> WafW00fRecord(found, line)
      [] tool = "nmap" -> NmapHost(found, line)

\* whatweb reads what is no document line by line; wafw00f and nmap give up.
IsReadable(tool, output) ==
    output.shape = "document" \/ tool \notin {"wafw00f", "nmap"}

\* The loop over the lines, which an exception ends.
Parse(tool, target, output) ==
    FoldLeft(LAMBDA found, line :
                 IF found.raised THEN found ELSE ParseLine(tool, target, found, line),
             Nothing,
             IF IsReadable(tool, output) THEN output.lines ELSE <<>>)

=============================================================================
