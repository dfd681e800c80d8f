----------------------------- MODULE WebClient -----------------------------
(***************************************************************************)
(* The analyst's page (web/js/main.js, state.js, api.js): which             *)
(* conversation is open, which transcript is on the screen, and the         *)
(* requests whose answers arrive whenever they do.                          *)
(*                                                                          *)
(* Everything between two `await`s is one step.  JavaScript arrays are      *)
(* shared by reference (state.turns and the entries of turnsCache), so they *)
(* are slots of a heap here.                                                *)
(***************************************************************************)
EXTENDS Naturals, Sequences, FiniteSets

CONSTANTS
    Sessions,    \* ids the server may give
    Demo,        \* the scripted conversations of data.js
    NoSession,
    Fails,       \* whether calls may fail
    MaxTurns,    \* bound: turns of a conversation
    MaxReloads,  \* bound: page reloads
    MaxAway      \* bound: changes to conversations not made by this page

VARIABLES
    server,   \* per id: whether the conversation exists, and its turns
    mode,     \* state.mode
    page,     \* the rest of the page's state
    pending,  \* requests under way, with what happens when they end
    busy,     \* state.busy
    reloads,
    away,
    crossed   \* history: an answer has met another conversation than its own

vars == <<server, mode, page, pending, busy, reloads, away, crossed>>

\* What an instance must be: a scripted conversation is none of the server's.
Configured ==
    /\ IsFiniteSet(Sessions) /\ Demo \notin Sessions /\ NoSession \notin Sessions
    /\ Demo # NoSession /\ Fails \in BOOLEAN
    /\ MaxTurns \in Nat /\ MaxReloads \in Nat /\ MaxAway \in Nat

Slots == 1 .. Cardinality(Sessions) + 2
Turn == Sessions \X (1 .. MaxTurns)
Flow(k, s, t) == [k |-> k, s |-> s, t |-> t]
Flows == [k : {"list", "get", "confirmations", "create", "delete", "ensure", "stream", "patch"},
          s : Sessions \cup {Demo, NoSession}, t : 0 .. MaxTurns]

Page == [sid : Sessions \cup {Demo, NoSession},     \* state.sessionId
         stored : Sessions \cup {Demo, NoSession},  \* its copy in localStorage
         index : SUBSET Sessions,                   \* state.sessions
         heap : [Slots -> Seq(Turn)],
         cur : Slots,                               \* state.turns
         cache : [Sessions -> Slots \cup {0}],      \* turnsCache
         shown : Seq(Turn),                         \* the cards in the transcript
         card : BOOLEAN]                            \* a placeholder is among them

TypeOK ==
    /\ server \in [Sessions -> [there : {"unborn", "live", "gone"}, n : 0 .. MaxTurns]]
    /\ mode \in {"live", "simulated"} /\ page \in Page
    /\ pending \subseteq Flows /\ busy \in BOOLEAN
    /\ reloads \in 0 .. MaxReloads /\ away \in 0 .. MaxAway /\ crossed \in BOOLEAN

Live == {s \in Sessions : server[s].there = "live"}
TurnsOf(s) == [i \in 1 .. server[s].n |-> <<s, i>>]
Of(turns, s) == \A i \in DOMAIN turns : turns[i][1] = s

(***************************************************************************)
(* What the page does without waiting.                                     *)
(***************************************************************************)
Fresh == [heap |-> [i \in Slots |-> <<>>], cur |-> 1, cache |-> [s \in Sessions |-> 0],
          index |-> {}, shown |-> <<>>, card |-> FALSE]

\* loadPersisted, on a page that has just been opened.
Opened(stored) ==
    [sid |-> stored, stored |-> stored, heap |-> Fresh.heap, cur |-> Fresh.cur,
     cache |-> Fresh.cache, index |-> Fresh.index, shown |-> Fresh.shown, card |-> Fresh.card]

\* state.turns = a new array.
Assign(p, turns) ==
    LET free == CHOOSE i \in Slots : i # p.cur /\ \A s \in Sessions : p.cache[s] # i
    IN [p EXCEPT !.cur = free, !.heap[free] = turns]

\* addTurn, state.turns.push.
Pushed(p, turn) == [p EXCEPT !.heap[p.cur] = Append(@, turn)]

\* renderTranscriptFromTurns(state.turns).
Rendered(p) == [p EXCEPT !.shown = p.heap[p.cur], !.card = FALSE]

\* MUTANT: the transcript is stashed after the id has changed.
StashedLate(p, s) == [p EXCEPT !.cache[s] = p.cur]

\* switchToSession stashes the outgoing transcript under the outgoing id.
Stashed(p, s) == IF p.sid \in Sessions THEN [p EXCEPT !.cache[p.sid] = p.cur] ELSE p

\* switchToSession up to its first await, on the page and on what is pending.
Stays(p, s) == s = p.sid /\ p.heap[p.cur] # <<>>
Left(p, s) == [Stashed(p, s) EXCEPT !.sid = s, !.stored = s]
Fetches(p, s) == ~Stays(p, s) /\ Left(p, s).cache[s] = 0
Switched(p, s) ==
    IF Stays(p, s) THEN p
    ELSE IF Fetches(p, s) THEN Left(p, s)
    ELSE Rendered([Left(p, s) EXCEPT !.cur = Left(p, s).cache[s]])
SwitchFlows(p, s) == IF Fetches(p, s) THEN {Flow("get", s, 0)} ELSE {}

\* MUTANT: the open transcript stays when there is no conversation.
KeptOpen(p) == [p EXCEPT !.sid = NoSession]

\* No conversation is open: resetTranscript and an empty screen.
Emptied(p) == Rendered(Assign([p EXCEPT !.sid = NoSession], <<>>))

\* setMode("simulated"): a scripted conversation is opened and remembered.
ToDemo(p) ==
    Rendered(Assign([Stashed(p, Demo) EXCEPT !.sid = Demo, !.stored = Demo, !.index = {}], <<>>))

(***************************************************************************)
(* Steps.  In simulated mode the page asks the server nothing; the model    *)
(* stops there until the next reload.                                       *)
(***************************************************************************)
Ends(f, flows) == pending' = (pending \ {f}) \cup flows
Keep == UNCHANGED <<server, mode, busy, reloads, away>>

\* The open conversation's transcript is on its way.
Fetching == Flow("get", page.sid, 0) \in pending

\* Boot, and setMode on a change of language: the index is asked for.  What was
\* under way is given up; what the server makes of it all the same is not this
\* page's doing any more.
Reload ==
    /\ reloads < MaxReloads /\ reloads' = reloads + 1
    /\ mode' = "live" /\ busy' = FALSE
    /\ page' = Opened(page.stored) /\ pending' = {Flow("list", NoSession, 0)}
    /\ crossed' = FALSE /\ UNCHANGED <<server, away>>

Relist ==
    /\ mode = "live" /\ Flow("list", NoSession, 0) \notin pending
    /\ pending' = pending \cup {Flow("list", NoSession, 0)}
    /\ UNCHANGED page /\ Keep

\* refreshSessionsForMode once the list has arrived.
Listed(f) ==
    /\ f.k = "list"
    /\ LET p == [page EXCEPT !.index = Live] IN
       IF Live = {} THEN page' = Emptied(p) /\ Ends(f, {})
       ELSE \E s \in IF page.sid \in Live THEN {page.sid} ELSE Live :
                page' = Switched(p, s) /\ Ends(f, SwitchFlows(p, s))
    /\ Keep

ListFailed(f) ==
    /\ f.k = "list" /\ Fails
    /\ page' = [Emptied([page EXCEPT !.index = {}]) EXCEPT !.stored = NoSession]
    /\ Ends(f, {}) /\ Keep

\* A click in the sidebar; it is ignored while a question is asked.
Select(s) ==
    /\ mode = "live" /\ ~busy /\ s \in page.index
    /\ Flow("get", s, 0) \notin pending
    /\ page' = Switched(page, s) /\ pending' = pending \cup SwitchFlows(page, s)
    /\ Keep

\* A 404, for a conversation that is gone or an edited turn that is not one of
\* the conversation's, is taken for a server without conversations
\* (handleLiveError).
NotFound(f) ==
    /\ f.k \in {"get", "patch"} /\ (f.s \notin Live \/ (f.k = "patch" /\ f.t = 0))
    /\ mode' = "simulated" /\ page' = ToDemo(page) /\ Ends(f, {})
    /\ UNCHANGED <<server, busy, reloads, away>>

\* getSession answers, perhaps with what is gone by now, and then
\* listConfirmations does or does not.
Got(f) ==
    /\ f.k = "get"
    /\ page' = Assign(page, TurnsOf(f.s))
    /\ Ends(f, {Flow("confirmations", f.s, 0)}) /\ Keep

\* MUTANT: a failure leaves the transcript that was there.
KeepsOld(p) == p

\* The failure of getSession empties the transcript.
Unreadable(p) == Assign(p, <<>>)

GetFailed(f) ==
    /\ f.k = "get" /\ Fails
    /\ page' = Unreadable(page) /\ Ends(f, {Flow("confirmations", f.s, 0)}) /\ Keep

Confirmations(f) ==
    /\ f.k = "confirmations"
    /\ page' = Rendered(page) /\ Ends(f, {}) /\ Keep

\* createSession, for the button or for the first question.
Born(s) == server' = [server EXCEPT ![s].there = "live"]

New ==
    /\ mode = "live" /\ Flow("create", NoSession, 0) \notin pending
    /\ pending' = pending \cup {Flow("create", NoSession, 0)}
    /\ UNCHANGED page /\ Keep

Created(f, s) ==
    /\ f.k = "create" /\ server[s].there = "unborn" /\ Born(s)
    /\ LET listed == [page EXCEPT !.index = @ \cup {s}]
           free == Assign(listed, <<>>)
       IN page' = Switched([free EXCEPT !.cur = page.cur, !.cache[s] = free.cur], s)
    /\ Ends(f, {}) /\ UNCHANGED <<mode, busy, reloads, away>>

\* The `x` of a conversation, also of the one a question is asked in.
Delete(s) ==
    /\ mode = "live" /\ s \in page.index /\ Flow("delete", s, 0) \notin pending
    /\ pending' = pending \cup {Flow("delete", s, 0)}
    /\ UNCHANGED page /\ Keep

\* The server answers 204 whether or not it still had the conversation.
Deleted(f) ==
    /\ f.k = "delete" /\ server' = [server EXCEPT ![f.s].there = "gone"]
    /\ LET p == [page EXCEPT !.index = @ \ {f.s}, !.cache[f.s] = 0] IN
       IF page.sid # f.s THEN page' = p /\ Ends(f, {})
       ELSE IF p.index = {}
       THEN page' = [Emptied(p) EXCEPT !.stored = NoSession] /\ Ends(f, {})
       ELSE \E s \in p.index : page' = Switched(p, s) /\ Ends(f, SwitchFlows(p, s))
    /\ UNCHANGED <<mode, busy, reloads, away>>

\* ask and askLive up to the stream, which needs a conversation: the one that
\* is open, were it the remembered demo before the index has arrived.
Ask ==
    /\ mode = "live" /\ ~busy /\ busy' = TRUE
    /\ \A s \in Sessions : server[s].n < MaxTurns
    /\ IF page.sid = NoSession
       THEN pending' = pending \cup {Flow("ensure", NoSession, 0)} /\ UNCHANGED page
       ELSE /\ pending' = pending \cup {Flow("stream", page.sid, 0)}
            /\ page' = [page EXCEPT !.card = TRUE]
    /\ UNCHANGED <<server, mode, reloads, away>>

Ensured(f, s) ==
    /\ f.k = "ensure" /\ server[s].there = "unborn" /\ Born(s)
    /\ page' = [page EXCEPT !.sid = s, !.stored = s, !.index = @ \cup {s}, !.card = TRUE]
    /\ Ends(f, {Flow("stream", s, 0)})
    /\ UNCHANGED <<mode, busy, reloads, away>>

\* The "done" event, also of a conversation that ended meanwhile: the turn joins
\* the transcript that is open now; its card replaces the placeholder if that is
\* still on the screen.
Done(f) ==
    /\ f.k = "stream" /\ f.s \in Sessions /\ server[f.s].n < MaxTurns
    /\ LET turn == <<f.s, server[f.s].n + 1>> IN
       /\ server' = [server EXCEPT ![f.s].n = @ + 1]
       /\ page' = [Pushed(page, turn) EXCEPT
               !.shown = IF page.card THEN Append(@, turn) ELSE @, !.card = FALSE]
    /\ Ends(f, {}) /\ busy' = FALSE
    /\ UNCHANGED <<mode, reloads, away>>

\* An error of the call, or, of a conversation the server does not know, one in
\* the stream (SESSION_NOT_FOUND): the question's card shows it, nothing is kept.
Failed(f) ==
    /\ f.k \in {"ensure", "stream", "create", "patch", "delete"}
    /\ Fails \/ (f.k = "stream" /\ f.s \notin Live)
    /\ Ends(f, {}) /\ busy' = (busy /\ f.k \notin {"ensure", "stream"})
    /\ page' = [page EXCEPT !.card = @ /\ f.k # "stream"]
    /\ UNCHANGED <<server, mode, reloads, away>>

\* An edited assumption of a turn on the screen goes to the open conversation,
\* which knows the turn or (0) does not.
Edit(turn) ==
    /\ mode = "live" /\ \E i \in DOMAIN page.shown : page.shown[i] = turn
    /\ page.sid \in Sessions /\ server[page.sid].n < MaxTurns
    /\ LET f == Flow("patch", page.sid, IF turn[1] = page.sid THEN turn[2] ELSE 0)
       IN f \notin pending /\ pending' = pending \cup {f}
    /\ UNCHANGED page /\ Keep

\* The server re-asks and answers with a new turn, which is pushed and shown.
Edited(f) ==
    /\ f.k = "patch" /\ f.t # 0 /\ server[f.s].n < MaxTurns
    /\ LET turn == <<f.s, server[f.s].n + 1>> IN
       /\ server' = [server EXCEPT ![f.s].n = @ + 1]
       /\ page' = [Pushed(page, turn) EXCEPT !.shown = Append(@, turn)]
    /\ Ends(f, {}) /\ UNCHANGED <<mode, busy, reloads, away>>

\* Another tab, a request a reload gave up, or time: a conversation starts, goes
\* on or ends.
Elsewhere(s) ==
    /\ away < MaxAway /\ away' = away + 1
    /\ \/ server[s].there = "unborn" /\ Born(s)
       \/ s \in Live /\ server' = [server EXCEPT ![s].there = "gone"]
       \/ s \in Live /\ server[s].n < MaxTurns /\ server' = [server EXCEPT ![s].n = @ + 1]
    /\ UNCHANGED <<mode, page, pending, busy, reloads>>

Init ==
    /\ \E born \in SUBSET Sessions :
        server = [s \in Sessions |-> [there |-> IF s \in born THEN "live" ELSE "unborn",
                                      n |-> IF s \in born THEN 1 ELSE 0]]
    /\ mode = "live" /\ busy = FALSE /\ reloads = 0 /\ away = 0 /\ crossed = FALSE
    /\ page = Opened(NoSession) /\ pending = {Flow("list", NoSession, 0)}

\* What is answered for one conversation and written to the one that is open.
Lands(f) ==
    \/ Got(f) \/ GetFailed(f) \/ Done(f) \/ Edited(f) \/ \E s \in Sessions : Ensured(f, s)

Response(f) ==
    \/ Listed(f) \/ ListFailed(f) \/ Confirmations(f) \/ NotFound(f) \/ Deleted(f) \/ Failed(f)
    \/ \E s \in Sessions : Created(f, s)

\* f is of another conversation than the open one, or of one whose transcript is
\* still to come.
Overtaken(f) == f.s # page.sid \/ (f.k # "get" /\ Fetching)

\* This step stashes the transcript of a conversation before it has arrived.
StashesEarly == Fetching /\ page'.cache[page.sid] # 0

Next ==
    \/ Reload
    \/ /\ \/ Relist \/ New \/ Ask
          \/ \E s \in Sessions : Select(s) \/ Delete(s) \/ Elsewhere(s)
          \/ \E turn \in Turn : Edit(turn)
          \/ mode = "live" /\ \E f \in pending : Response(f)
       /\ crossed' = (crossed \/ StashesEarly)
    \/ /\ mode = "live"
       /\ \E f \in pending : Lands(f) /\ crossed' = (crossed \/ Overtaken(f))

Spec == Init /\ [][Next]_vars

(***************************************************************************)
(* Properties.                                                             *)
(***************************************************************************)
\* Its cards are not all on the screen yet.
Loading == \E f \in pending : f.k \in {"get", "confirmations"} /\ f.s = page.sid

\* Once it is there, the open transcript holds turns of the open conversation
\* only (main.js, "Sessions (sidebar)": the transcript is whichever one
\* conversation is currently open).  Only an answer that meets another
\* conversation than its own, or a transcript stashed before it came, mixes two.
TranscriptOfSession ==
    (mode = "live" /\ ~crossed /\ ~Fetching) => Of(page.heap[page.cur], page.sid)

\* A stashed transcript is of the conversation it is stashed under, so coming
\* back restores what was there (switchToSession), until such a meeting.
CacheOfSession ==
    (mode = "live" /\ ~crossed) =>
        \A s \in Sessions : page.cache[s] # 0 => Of(page.heap[page.cache[s]], s)

\* A question goes to the conversation whose turns the analyst sees, unless its
\* cards are still to come or two conversations have met.
AskedWhereShown ==
    [][~crossed' => \A f \in pending' \ pending :
        f.k = "stream" => (Loading' \/ Of(page.shown, f.s))]_vars

\* A settled page shows everything the open conversation holds (state.js: a
\* reload returns the analyst to it).
TranscriptComplete ==
    (mode = "live" /\ pending = {} /\ page.sid \in Live) =>
        page.heap[page.cur] = TurnsOf(page.sid)

\* Nobody sees scripted answers while the server serves conversations
\* (state.js: the run mode is not a control an analyst could mis-click).
NeverDemo == mode = "live"
=============================================================================
