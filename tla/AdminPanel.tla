------------------------------ MODULE AdminPanel ------------------------------
(***************************************************************************)
(* The administrators' page (web/admin/main.js with admin.js, views.js,       *)
(* access-requests.js and js/diagnosis.js): cards that are each fetched and   *)
(* drawn on their own, when the page opens, on a timer, on a button and after *)
(* an action, while the address and the key may change under them.           *)
(*                                                                          *)
(* Everything between two `await`s is one step.  What a card shows is the     *)
(* version of the server's data it was drawn from, or what it says instead.   *)
(***************************************************************************)
EXTENDS Naturals, FiniteSets

CONSTANTS
    Cards,         \* a subset of CARDS
    Keys,          \* keys the operator may hold, of those below
    Addresses,     \* addresses the operator may enter, of those below
    Hasty,         \* whether a second key is issued before the first is copied
    MaxFlows,      \* bound: calls under way
    MaxSteps,      \* bound: what the operator, the timer and others do
    MaxFails       \* bound: calls that time out

VARIABLES
    data,          \* per card: the version of the server's data
    page,          \* the address, the stored key, what the top bar says of it
    cards,         \* per card: what it shows
    banner,        \* the page-level messages that are shown
    kept,          \* _rail, _lastCacheStats: the last payloads, per card
    flows,         \* calls under way
    reveal,        \* the issued key on the screen, and the keys issued and never copied
    clean,         \* per card: its last call ran alone, and nothing changed since it began
    steps, fails

vars == <<data, page, cards, banner, kept, flows, reveal, clean, steps, fails>>

Capabilities(key) ==
    CASE key = "full" -> {"operations", "security"} [] key = "ops" -> {"operations"}
      [] key = "sec" -> {"security"} [] OTHER -> {}
Known(key) == key \notin {"none", "bad"}
\* CARDS_WHERE_403_IS_A_CAPABILITY_GAP.
GapOf(c) == CASE c = "keys" -> "operations" [] c = "accessRequests" -> "security" [] OTHER -> ""
Expensive == {"health", "schemaDrift"}
\* The calls of refreshOne for a card.
PartsOf(c) == CASE c = "feedback" -> {"stats", "list"} [] c = "keys" -> {"keys", "roles"} [] OTHER -> {"payload"}
Writable == {"feedback", "keys", "maintenance", "accessRequests", "cache"}
\* The cards where the operator writes something before pressing the button.
Drafted == {"feedback", "accessRequests", "maintenance"}

Blank == [shows |-> "loading", versions |-> {}, draft |-> FALSE]
Says(what) == [shows |-> what, versions |-> {}, draft |-> FALSE]
Drawn(versions) == [shows |-> "data", versions |-> versions, draft |-> FALSE]
NoKey == 0

TypeOK ==
    /\ data \in [Cards -> Nat] /\ page.base \in Addresses /\ page.key \in Keys \cup {"none"}
    /\ \A c \in Cards : cards[c].shows \in {"loading", "data", "gap", "forbidden", "unauthorized", "unreachable", "error"}
    /\ banner \subseteq {"forbidden", "diagnosis", "notice"}
    /\ \A f \in flows : f.card \in Cards /\ f.at \in {"sent", "probing"}
    /\ Cardinality(flows) <= MaxFlows /\ clean \in [Cards -> BOOLEAN]

(***************************************************************************)
(* Calls.                                                                  *)
(***************************************************************************)
Of(c) == {f \in flows : f.card = c}
Reading(c) == {f \in Of(c) : f.is = "read"}
Fresh(fs) == (CHOOSE n \in 1 .. 2 * MaxFlows : \A f \in fs : f.id # n)
\* _request, admin.js:330-381, reads the address and the key as it is called.
Sent(is, c, parts, p, fs) ==
    [id |-> Fresh(fs), is |-> is, card |-> c, at |-> "sent", base |-> p.base, key |-> p.key,
     got |-> {}, todo |-> parts, asks |-> ""]
\* refreshOne up to its first await: the card is emptied, with all that was typed in it.
RECURSIVE Started(_, _, _)
Started(cs, p, fs) ==
    IF cs = {} THEN fs
    ELSE LET c == CHOOSE c \in cs : TRUE IN Started(cs \ {c}, p, fs \cup {Sent("read", c, PartsOf(c), p, fs)})
Refreshed(cs, p, fs, free) ==
    /\ flows' = Started(cs, p, fs)
    /\ cards' = [c \in Cards |-> IF c \in cs THEN Blank ELSE cards[c]]
    /\ clean' = [c \in Cards |-> IF c \in cs THEN {f \in fs : f.card = c} = {} ELSE free[c]]

\* What the server makes of a call.
Outcome(f) ==
    CASE f.base = "down" -> "network"
      [] f.base = "other" -> "http 404"
      [] ~Known(f.key) -> "401"
      [] Capabilities(f.key) = {} \/ (GapOf(f.card) # "" /\ GapOf(f.card) \notin Capabilities(f.key)) -> "403"
      [] OTHER -> "ok"
Failed(f) == f.got \cap ({"network", "http 404", "401", "403"} \X {0}) # {}
Failure(f) == (CHOOSE r \in f.got : r[1] # "ok")[1]
\* The server answers one of the calls.
Answer(f, part) ==
    /\ f.at = "sent" /\ part \in f.todo
    /\ LET ok == Outcome(f) = "ok"
           now == IF f.is # "read" /\ ok THEN data[f.card] + 1 ELSE data[f.card]
       IN /\ data' = [data EXCEPT ![f.card] = now]
          /\ clean' = [clean EXCEPT ![f.card] = @ /\ now = data[f.card]]
          /\ flows' = (flows \ {f}) \cup {[f EXCEPT !.todo = @ \ {part}, !.got = @ \cup {<<Outcome(f), IF ok THEN now ELSE 0>>}]}
    /\ UNCHANGED <<page, cards, banner, kept, reveal, steps, fails>>
\* AbortSignal.timeout, admin.js:334.
TimeOut(f, part) ==
    /\ f.at = "sent" /\ part \in f.todo /\ fails < MaxFails
    /\ fails' = fails + 1
    /\ clean' = [clean EXCEPT ![f.card] = FALSE]
    /\ flows' = (flows \ {f}) \cup {[f EXCEPT !.todo = @ \ {part}, !.got = @ \cup {<<"network", 0>>}]}
    /\ UNCHANGED <<data, page, cards, banner, kept, reveal, steps>>

(***************************************************************************)
(* The end of a call.                                                      *)
(***************************************************************************)
\* refreshOne, 497-546: the card is drawn, and the page-level messages go.
Draw(f) ==
    /\ f.is = "read" /\ f.at = "sent" /\ f.todo = {} /\ ~Failed(f)
    /\ LET versions == {r[2] : r \in f.got}
       IN /\ cards' = [cards EXCEPT ![f.card] = Drawn(versions)]
          /\ kept' = [kept EXCEPT ![f.card] = [base |-> f.base, versions |-> versions]]
    /\ banner' = banner \ {"forbidden", "diagnosis"}
    /\ flows' = flows \ {f}
    /\ UNCHANGED <<data, page, reveal, clean, steps, fails>>
\* The text of a card for a failure, 547-606.
MUTANT_Said(c, kind) ==
    IF kind = "wrong address" THEN "unreachable" ELSE IF kind = "403" THEN "loading"
    ELSE IF kind = "401" THEN "unauthorized" ELSE "error"
Said(c, kind) ==
    IF kind = "wrong address" THEN "unreachable"
    ELSE IF kind = "403" THEN IF GapOf(c) # "" THEN "gap" ELSE "forbidden"
    ELSE IF kind = "401" THEN "unauthorized" ELSE "error"
Banners(c, kind) ==
    IF kind = "wrong address" THEN banner \cup {"diagnosis"}
    ELSE (banner \ {"diagnosis"}) \cup
         (IF Said(c, kind) = "forbidden" THEN {"forbidden"} ELSE IF kind = "401" THEN {"notice"} ELSE {})
Show(f, kind) ==
    /\ cards' = [cards EXCEPT ![f.card] = Says(Said(f.card, kind))]
    /\ banner' = Banners(f.card, kind)
    /\ page' = IF kind = "401" THEN [page EXCEPT !.rejected = page.key # "none"] ELSE page
    /\ flows' = flows \ {f}
    /\ UNCHANGED <<data, kept, reveal, clean, steps, fails>>
\* diagnose, diagnosis.js:120-200, of the address the page has by now: without an
\* answer from another origin nothing is tried; a 404 is followed by a look at /health.
Diagnose(f) ==
    /\ f.is = "read" /\ f.at = "sent" /\ Failed(f)
    /\ CASE Failure(f) = "network" -> Show(f, "wrong address")
         [] Failure(f) = "http 404" ->
                /\ flows' = (flows \ {f}) \cup {[f EXCEPT !.at = "probing", !.asks = page.base]}
                /\ UNCHANGED <<data, page, cards, banner, kept, reveal, clean, steps, fails>>
         [] OTHER -> Show(f, Failure(f))
Probed(f) ==
    /\ f.at = "probing"
    /\ Show(f, IF f.asks = "other" THEN "wrong address" ELSE "http 404")
\* The end of an action: the card is fetched again, or a notice says why not; the
\* button that issues keys shows the key first.
Acted(f) ==
    /\ f.is \in {"write", "issue"} /\ (f.todo = {} \/ Failed(f))
    /\ IF Failed(f)
       THEN /\ banner' = banner \cup {"notice"} /\ flows' = flows \ {f}
            /\ UNCHANGED <<cards, clean, reveal>>
       ELSE /\ Refreshed({f.card}, page, flows \ {f}, clean)
            /\ reveal' = IF f.is = "write" THEN reveal
                         ELSE [shown |-> reveal.issued + 1, issued |-> reveal.issued + 1,
                               lost |-> reveal.lost \/ reveal.shown # NoKey]
            /\ UNCHANGED banner
    /\ UNCHANGED <<data, page, kept, steps, fails>>

(***************************************************************************)
(* The operator, the timer, and others.                                    *)
(***************************************************************************)
Step == steps < MaxSteps /\ steps' = steps + 1 /\ UNCHANGED fails
Room(n) == Cardinality(flows) + n <= MaxFlows
Changed == [c \in Cards |-> FALSE]
\* refreshAll.
AllAgain(p, free) ==
    /\ Room(Cardinality(Cards)) /\ Refreshed(Cards, p, flows, free)
    /\ banner' = banner \ {"forbidden", "notice"}
RefreshAll == Step /\ AllAgain(page, clean) /\ UNCHANGED <<data, page, kept, reveal>>
\* The page's timer, unless the page is hidden.
Tick ==
    /\ Step /\ Cards \ Expensive # {} /\ Room(Cardinality(Cards \ Expensive))
    /\ Refreshed(Cards \ Expensive, page, flows, clean)
    /\ UNCHANGED <<data, page, banner, kept, reveal>>
\* A card's own button is disabled while its last call runs.
RefreshCard(c) ==
    /\ Step /\ Reading(c) = {} /\ Room(1)
    /\ Refreshed({c}, page, flows, clean)
    /\ UNCHANGED <<data, page, banner, kept, reveal>>
Connect(a) ==
    /\ Step /\ a # page.base
    /\ page' = [page EXCEPT !.base = a]
    /\ AllAgain([page EXCEPT !.base = a], Changed)
    /\ UNCHANGED <<data, kept, reveal>>
SetKey(k) ==
    /\ Step /\ k # page.key
    /\ page' = [page EXCEPT !.key = k, !.rejected = FALSE]
    /\ AllAgain([page EXCEPT !.key = k], Changed)
    /\ UNCHANGED <<data, kept, reveal>>
\* Something is typed into a card.
Type(c) ==
    /\ Step /\ c \in Drafted /\ cards[c].shows = "data" /\ ~cards[c].draft
    /\ cards' = [cards EXCEPT ![c].draft = TRUE]
    /\ UNCHANGED <<data, page, banner, kept, flows, reveal, clean>>
\* A button of a card: what it does is sent with the address and key of the moment.
Act(c) ==
    /\ Step /\ c \in Writable /\ cards[c].shows = "data" /\ Room(1)
    /\ {f \in Of(c) : f.is # "read"} = {}
    /\ flows' = flows \cup {Sent("write", c, {"write"}, page, flows)}
    /\ UNCHANGED <<data, page, cards, banner, kept, reveal, clean>>
\* The button that issues a key is outside the card.
Issue ==
    /\ Step /\ "keys" \in Cards /\ Room(1)
    /\ Hasty \/ reveal.shown = NoKey
    /\ {f \in flows : f.is = "issue"} = {}
    /\ flows' = flows \cup {Sent("issue", "keys", {"write"}, page, flows)}
    /\ UNCHANGED <<data, page, cards, banner, kept, reveal, clean>>
Dismiss ==
    /\ Step /\ reveal.shown # NoKey
    /\ reveal' = [reveal EXCEPT !.shown = NoKey]
    /\ UNCHANGED <<data, page, cards, banner, kept, flows, clean>>
\* Another administrator, or the system itself.
Elsewhere(c) ==
    /\ Step /\ data' = [data EXCEPT ![c] = @ + 1]
    /\ clean' = [clean EXCEPT ![c] = FALSE]
    /\ UNCHANGED <<page, cards, banner, kept, flows, reveal>>

Init ==
    /\ data = [c \in Cards |-> 1]
    /\ \E a \in Addresses, k \in Keys : page = [base |-> a, key |-> k, rejected |-> FALSE]
    /\ cards = [c \in Cards |-> Blank] /\ banner = {}
    /\ kept = [c \in Cards |-> [base |-> "none", versions |-> {}]]
    /\ flows = Started(Cards, page, {})
    /\ reveal = [shown |-> NoKey, issued |-> 0, lost |-> FALSE]
    /\ clean = [c \in Cards |-> TRUE] /\ steps = 0 /\ fails = 0
Next ==
    \/ \E f \in flows : \/ \E part \in f.todo : Answer(f, part) \/ TimeOut(f, part)
                        \/ Draw(f) \/ Diagnose(f) \/ Probed(f) \/ Acted(f)
    \/ RefreshAll \/ Tick \/ Issue \/ Dismiss
    \/ \E c \in Cards : RefreshCard(c) \/ Type(c) \/ Act(c) \/ Elsewhere(c)
    \/ \E a \in Addresses : Connect(a)
    \/ \E k \in Keys \cup {"none"} : SetKey(k)
Spec == Init /\ [][Next]_vars

(***************************************************************************)
(* Properties.                                                             *)
(***************************************************************************)
\* What a card ought to show of the address and the key the page has.
Truth(c) ==
    LET f == [base |-> page.base, key |-> page.key, card |-> c]
    IN CASE Outcome(f) = "ok" -> Drawn({data[c]})
         [] Outcome(f) = "403" -> Says(IF GapOf(c) # "" THEN "gap" ELSE "forbidden")
         [] Outcome(f) = "401" -> Says("unauthorized")
         [] OTHER -> Says("unreachable")
Settled(c) == Reading(c) = {}

\* "A card is never left blank": when its calls have ended it shows data or says
\* why not.
NeverBlank == \A c \in Cards : Settled(c) => cards[c].shows # "loading"
\* A card whose last call ran alone, with nothing changing meanwhile, shows what the
\* server has for this address and this key, all parts of it at one moment.
ShowsTruth ==
    \A c \in Cards : (Settled(c) /\ clean[c]) => [cards[c] EXCEPT !.draft = FALSE] = Truth(c)
\* A card that sends its reader to the message on top of the page does not do so in
\* vain, and the message about the key is there only for a key that is not
\* administrative, when all that is on the screen is the page's own doing.
BannersTrue ==
    (\A c \in Cards : Settled(c) /\ clean[c]) =>
        /\ ("forbidden" \in banner) = (\E c \in Cards : cards[c].shows = "forbidden")
        /\ ("diagnosis" \in banner) = (\E c \in Cards : cards[c].shows = "unreachable")
\* "This is the only moment the raw key exists": it leaves the screen when it is
\* dismissed, whatever is fetched and drawn meanwhile.
RevealKept == ~reveal.lost

PanelSound == NeverBlank /\ ShowsTruth /\ BannersTrue /\ RevealKept

\* What the operator has typed stays until the operator uses it.
DraftSurvives == [][\A c \in Cards : cards[c].draft => (cards'[c].draft \/ page' # page)]_vars
\* The cost of clearing the cache, shown before it is cleared, is that of the server
\* that will be cleared.
CostOfThisServer ==
    ("cache" \in Cards /\ kept["cache"].versions # {}) => kept["cache"].base = page.base
=============================================================================
