-------------------------------- MODULE Scope --------------------------------
(***************************************************************************)
(* ScopeEnforcer (src/vanguard_x/core/scope.py), the list of authorised    *)
(* entries it is built from (config.py), and what its verdicts should be.  *)
(*                                                                         *)
(* A text is a sequence of characters, of which few kinds matter: "a" and  *)
(* "b" stand for [a-z0-9], "A" for an upper-case letter, "-" and "." for   *)
(* themselves, "_" for any character the expression for host names leaves  *)
(* out, "/" for those a target is refused for outright, white space        *)
(* included.  What reads as an address or a network is given as a number:  *)
(* a target is [family |-> 0, text] or an address of family 4 or 6, with   *)
(* the text it was written as, for the wrappers look at that; an entry is  *)
(* the same with the prefix length of a network.                           *)
(***************************************************************************)
EXTENDS Integers, Sequences, FiniteSets, SequencesExt

CONSTANTS
    Bits,       \* Bits[f]: the bits of an address of family f
    LabelMax,   \* the longest label of a host name, 63
    NameMax     \* the longest host name, 253

ASSUME BitsType == Bits \in [{4, 6} -> Nat \ {0}]
ASSUME LimitsType == LabelMax \in Nat \ {0} /\ NameMax \in Nat \ {0}

Letters == {"a", "b"}
Refused == {"/"}

\* True of any literal, which the provers have to be told.
ASSUME LettersAreStrings == Letters \subseteq STRING

NameOfHost(text) == [family |-> 0, number |-> 0, text |-> text]
Address(family, number, text) == [family |-> family, number |-> number, text |-> text]
NameEntry(text) == [family |-> 0, number |-> 0, prefix |-> 0, text |-> text]
Network(family, number, prefix) ==
    [family |-> family, number |-> number, prefix |-> prefix, text |-> <<>>]

\* What can be given: any text, and numbers of either family, however written.
TargetRecords ==
    [family : {0}, number : {0}, text : Seq(STRING)]
    \cup [family : {4, 6}, number : Nat, text : Seq(STRING)]

EntryRecords ==
    [family : {0}, number : {0}, prefix : {0}, text : Seq(STRING)]
    \cup {e \in [family : {4, 6}, number : Nat, prefix : Nat, text : {<<>>}] :
              e.prefix <= Bits[e.family]}

Lower(text) == [i \in DOMAIN text |-> IF text[i] = "A" THEN "a" ELSE text[i]]

\* _HOSTNAME_RE: labels of [a-z0-9-] between dots, each with a letter or digit
\* at either end; no run without a dot is longer than a label may be.
IsHostName(text) ==
    /\ text # <<>> /\ Len(text) <= NameMax
    /\ \A i \in 1 .. Len(text) - LabelMax : \E j \in i .. i + LabelMax : text[j] = "."
    /\ \A i \in DOMAIN text :
           /\ text[i] \in Letters \cup {"-", "."}
           /\ i = 1 \/ text[i - 1] = "." => text[i] \in Letters
           /\ i = Len(text) \/ text[i + 1] = "." => text[i] \in Letters

-----------------------------------------------------------------------------
(* Rules *)

\* An entry that is left out: authorized_targets_list drops it, and so does
\* the constructor.
IsBlank(entry) == entry.family = 0 /\ entry.text = <<>>

ParseRule(entry) == [entry EXCEPT !.text = Lower(@)]

ParsesAsRule(entry) == entry.family # 0 \/ IsHostName(Lower(entry.text))

\* The constructor raises on the first entry that is no rule.
Constructs(authorized) == \A e \in authorized : IsBlank(e) \/ ParsesAsRule(e)

Rules(authorized) == {ParseRule(e) : e \in {f \in authorized : ~IsBlank(f)}}

-----------------------------------------------------------------------------
(* The verdict *)

\* _classify_target: an address, a host name, or ValueError
IsClassified(target) ==
    \/ target.family # 0
    \/ /\ ToSet(target.text) \cap Refused = {}
       /\ IsHostName(Lower(target.text))

\* Mistake: the suffix is compared without the dot.
EndsWithDomain(host, domain) == IsSuffix(domain, host)

IsUnder(host, domain) == IsSuffix(<<".">> \o domain, host)

PowerOfTwo[k \in Nat] == IF k = 0 THEN 1 ELSE 2 * PowerOfTwo[k - 1]

\* The addresses of a network, whose first has all bits behind the prefix clear.
SizeOf(rule) == PowerOfTwo[Bits[rule.family] - rule.prefix]

\* ip_network(..., strict=False) clears the bits behind the prefix
InNetwork(target, rule) ==
    LET size == SizeOf(rule) IN
    /\ target.family = rule.family
    /\ target.number \div size = rule.number \div size

IsAuthorized(rules, target) ==
    /\ IsClassified(target)
    /\ \E rule \in rules :
           \/ rule.family # 0 /\ target.family # 0 /\ InNetwork(target, rule)
           \/ /\ rule.family = 0 /\ target.family = 0
              /\ \/ Lower(target.text) = rule.text
                 \/ IsUnder(Lower(target.text), rule.text)

-----------------------------------------------------------------------------
(* What a verdict should be, by the labels of names and the first and last *)
(* address of networks, from the entries as they were given                *)

\* A text is cut before it, behind it and at each dot.
Cuts(text) == {0, Len(text) + 1} \cup {i \in DOMAIN text : text[i] = "."}

PlaceOf(text, cut) == Cardinality({c \in Cuts(text) : c <= cut})

Cut(text, k) == CHOOSE cut \in Cuts(text) : PlaceOf(text, cut) = k

Labels(text) ==
    [k \in 1 .. Cardinality(Cuts(text)) - 1 |->
        SubSeq(text, Cut(text, k) + 1, Cut(text, k + 1) - 1)]

IsLabel(label) ==
    /\ label # <<>> /\ Len(label) <= LabelMax
    /\ ToSet(label) \subseteq Letters \cup {"A", "-"}
    /\ label[1] # "-" /\ label[Len(label)] # "-"

IsWellFormed(target) ==
    \/ target.family # 0
    \/ Len(target.text) <= NameMax /\ \A l \in ToSet(Labels(target.text)) : IsLabel(l)

\* The target is the entry's host or one below it, whatever the spelling, or
\* an address from the network's first to its last.
Covers(entry, target) ==
    /\ entry.family = target.family
    /\ IF entry.family = 0
       THEN /\ ~IsBlank(entry)
            /\ IsSuffix(Labels(Lower(entry.text)), Labels(Lower(target.text)))
       ELSE LET size == SizeOf(entry)
                first == entry.number - (entry.number % size) IN
            target.number \in first .. first + size - 1

Permitted(authorized, target) ==
    IsWellFormed(target) /\ \E e \in authorized : Covers(e, target)

=============================================================================
