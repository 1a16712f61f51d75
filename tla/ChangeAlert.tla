----------------------------- MODULE ChangeAlert -----------------------------
(***************************************************************************)
(* One call of TelegramNotifier.send_change_alert                          *)
(* (src/vanguard_x/notifications/telegram.py): the message a comparison is *)
(* rendered to, as far as its length goes, the cut, and the request.       *)
(*                                                                         *)
(* A comparison lists, for the new and the removed assets, a group per     *)
(* type in the order of the types: [count, width], the assets of the type  *)
(* and the characters of each one's value after html.escape; the head is   *)
(* the length of the first four lines, and enabled says whether there is a *)
(* token and a chat.  A newline counts with the line after it.             *)
(***************************************************************************)
EXTENDS Integers, Sequences, SequencesExt

CONSTANTS
    Comparisons,  \* what a call is given: [enabled, baseline, head, new, removed]
    Cap,          \* assets listed by one call of _render_asset_lines: 25
    MessageCap    \* characters of a message the server takes: 4096

\* One entry per type, in an order.
Groups == Seq([count : Nat \ {0}, width : Nat \ {0}])

ASSUME ComparisonsType ==
    \A c \in Comparisons :
        /\ c.enabled \in BOOLEAN /\ c.baseline \in BOOLEAN /\ c.head \in Nat
        /\ c.new \in Groups /\ c.removed \in Groups
ASSUME CapsArePositive == Cap \in Nat \ {0} /\ MessageCap \in Nat \ {0}

VARIABLES
    comparison,   \* the ScanDiff of this call, or NoComparison
    at,           \* where the call is
    message,      \* the length of the rendered text
    sent,         \* the length of the text posted, 0 before
    outcome       \* what the call returned, or "raised"

alertVars == <<comparison, at, message, sent, outcome>>

NoComparison ==
    [enabled |-> FALSE, baseline |-> TRUE, head |-> 0, new |-> <<>>, removed |-> <<>>]

AlertInit(c) ==
    /\ comparison = c
    /\ at = IF c = NoComparison THEN "idle" ELSE "render"
    /\ message = 0
    /\ sent = 0
    /\ outcome = "none"

-----------------------------------------------------------------------------
(* Rendering *)

CountOf(groups) == FoldLeft(LAMBDA n, g : n + g.count, 0, groups)

SmallerOf(m, n) == IF m < n THEN m ELSE n

\* The longest of each kind of line, for counts of up to four digits.
GroupLine == 27      \* "  <i>technology</i> (1000)"
ItemLine == 18       \* "  + <code></code>", the value left out
MoreLine == 20       \* "  ... and 1000 more"
SectionLines == 19   \* an empty line and "<b>- Removed:</b>"

Rendering == [listed |-> 0, more |-> 0, length |-> 0, stopped |-> FALSE]

\* Mistake: the cap is applied to each type by itself.
GroupCappedAlone(total, done, group) ==
    LET n == SmallerOf(group.count, Cap) IN
    [done EXCEPT !.listed = @ + n,
                 !.length = @ + GroupLine + n * (ItemLine + group.width)]

\* One type: its heading, then its assets until Cap of all types are listed;
\* at the next one "... and N more" ends the list.
RenderGroup(total, done, group) ==
    LET n == SmallerOf(group.count, Cap - done.listed)
        stops == n < group.count
        more == total - (done.listed + n) IN
    IF done.stopped THEN done
    ELSE [listed |-> done.listed + n,
          more |-> IF stops THEN more ELSE 0,
          length |-> done.length + GroupLine + n * (ItemLine + group.width)
                     + (IF stops THEN MoreLine ELSE 0),
          stopped |-> stops]

RenderAssets(groups) ==
    FoldLeft(LAMBDA done, g : RenderGroup(CountOf(groups), done, g), Rendering, groups)

Section(groups) ==
    IF groups = <<>> THEN 0 ELSE SectionLines + RenderAssets(groups).length

RenderChangeAlert(c) == c.head + Section(c.new) + Section(c.removed)

-----------------------------------------------------------------------------
(* The call *)

AlertReturns(how) == at' = "ended" /\ outcome' = how

\* A baseline and a comparison without changes are not sent, nor is anything
\* without a token and a chat.
Skip ==
    /\ at = "render"
    /\ \/ comparison.baseline
       \/ comparison.new = <<>> /\ comparison.removed = <<>>
       \/ ~comparison.enabled
    /\ AlertReturns("false")
    /\ UNCHANGED <<comparison, message, sent>>

\* html_text[:4096]
Render ==
    /\ at = "render" /\ comparison.enabled /\ ~comparison.baseline
    /\ comparison.new # <<>> \/ comparison.removed # <<>>
    /\ at' = "post"
    /\ message' = RenderChangeAlert(comparison)
    /\ sent' = SmallerOf(message', MessageCap)
    /\ UNCHANGED <<comparison, outcome>>

\* The server takes the message, or answers with a status of 400 and more, as
\* it may when a tag was cut; a transport error is httpx.HTTPError; what is
\* none, as from a client that is closed, leaves the call.
Post ==
    /\ at = "post"
    /\ \E how \in {"true", "false", "raised"} : AlertReturns(how)
    /\ UNCHANGED <<comparison, message, sent>>

AlertNext == Skip \/ Render \/ Post

-----------------------------------------------------------------------------
(* Properties *)

\* Every variable holds a value of its kind.
AlertTypeOK ==
    /\ at \in {"idle", "render", "post", "ended"}
    /\ message \in Nat /\ sent \in 0 .. MessageCap
    /\ outcome \in {"none", "true", "false", "raised"}
    /\ outcome # "none" <=> at = "ended"

NoneWider(groups, width) == \A g \in ToSet(groups) : g.width <= width

\* The assets a section lists and its "more" are all there are, the rest is only
\* counted once Cap are listed, whatever their types, and the section's length is
\* bounded by the types and the widest value, however many assets there are
\* (telegram.py 297-323).  The cap is that of a section, and a message has two.
AlertAddsUp ==
    at = "post" =>
        \A groups \in {comparison.new, comparison.removed} :
            LET list == RenderAssets(groups) IN
            /\ list.listed + list.more = CountOf(groups)
            /\ list.listed <= Cap /\ (list.more # 0 => list.listed = Cap)
            /\ \A g \in ToSet(groups) : NoneWider(groups, g.width) =>
                   list.length <= Len(groups) * GroupLine + Cap * (ItemLine + g.width) + MoreLine

=============================================================================
