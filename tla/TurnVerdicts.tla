---------------------------- MODULE TurnVerdicts ----------------------------
(***************************************************************************)
(* What analysts and admins say about an answer: wrong-answer flags and     *)
(* their triage (appdb/feedback.py), confirmations                          *)
(* (appdb/confirmations.py), the golden file a flag can be promoted to, and *)
(* the routes over them (api/v2_routes.py, api/admin_feedback_routes.py).   *)
(*                                                                          *)
(* Every handler opens a transaction per call, so its calls interleave with *)
(* other handlers.  A turn belongs to one analyst, the only one its routes  *)
(* let in; a flag and a confirmation of the turn are therefore that         *)
(* analyst's.                                                               *)
(***************************************************************************)
EXTENDS Naturals, Sequences, FiniteSets

CONSTANTS
    Turns,       \* answered turns
    Handlers,    \* threads serving analysts
    Triage,      \* threads serving admins
    Outcomes,    \* the resolution outcomes offered
    ReusesIds,   \* the database gives a deleted last row's id again (SQLite)
    MaxFlags,    \* bound: flags ever raised
    MaxCases,    \* bound: lines of the golden file
    MaxCrashes,  \* bound: restarts
    NoTurn

VARIABLES
    audit,      \* per turn: what find_record_by_turn shows
    flags,      \* turn_feedback
    raised,     \* flags ever raised
    confirmed,  \* turn_confirmations
    golden,     \* the golden file: one record per line
    req,        \* per thread: the request it serves
    crashes,
    orphaned,   \* history: turns whose verdict request died half way
    given,      \* history: per number, how often a flag got it
    cut         \* history: flags whose promotion a stop cut short

history == <<orphaned, given, cut>>
vars == <<audit, flags, raised, confirmed, golden, req, crashes, history>>

AllOutcomes == {"alias_fix", "rule_fix", "golden_case", "not_a_defect"}
Threads == Handlers \cup Triage
Free == [pc |-> "free", op |-> "none", turn |-> NoTurn, id |-> 0, outcome |-> "none",
         created |-> FALSE]

\* What an instance must be.
Configured ==
    /\ Outcomes \subseteq AllOutcomes /\ NoTurn \notin Turns /\ ReusesIds \in BOOLEAN
    /\ MaxFlags \in Nat /\ MaxCases \in Nat /\ MaxCrashes \in Nat

Flag == [id : 1 .. MaxFlags, turn : Turns, status : {"open", "resolved"},
         outcome : AllOutcomes \cup {"none"}, case : 0 .. MaxFlags, by : Triage \cup {NoTurn}]

TypeOK ==
    /\ audit \in [Turns -> {"none", "ok", "failed"}]
    /\ flags \subseteq Flag /\ raised \in 0 .. MaxFlags
    /\ confirmed \subseteq Turns
    /\ golden \in Seq([id : 1 .. MaxFlags, turn : Turns]) /\ Len(golden) <= MaxCases
    /\ req \in [Threads -> [pc : {"free", "joined", "looked", "stored", "insert", "chosen",
                                  "failed"},
                            op : {"none", "flag", "confirm", "withdraw", "resolve"},
                            turn : Turns \cup {NoTurn}, id : 0 .. MaxFlags,
                            outcome : AllOutcomes \cup {"none"}, created : BOOLEAN]]
    /\ crashes \in 0 .. MaxCrashes /\ orphaned \subseteq Turns
    /\ given \in [1 .. MaxFlags -> {"never", "once", "again"}] /\ cut \subseteq 1 .. MaxFlags
    \* feedback_id is the primary key.
    /\ \A f, g \in flags : f.id = g.id => f = g

Init ==
    /\ audit \in [Turns -> {"none", "ok", "failed"}]
    /\ flags = {} /\ raised = 0 /\ confirmed = {} /\ golden = <<>>
    /\ req = [w \in Threads |-> Free]
    /\ crashes = 0 /\ orphaned = {} /\ given = [n \in 1 .. MaxFlags |-> "never"] /\ cut = {}

Goto(w, pc) == req' = [req EXCEPT ![w].pc = pc]
End(w) == req' = [req EXCEPT ![w] = Free]

\* MUTANT: the id of the newest row is given again.
NewIdStuck == IF flags = {} THEN 1 ELSE raised

\* The primary key the insert gets.
NewId == IF ReusesIds
         THEN 1 + (IF flags = {} THEN 0
                   ELSE CHOOSE n \in {f.id : f \in flags} : \A f \in flags : f.id <= n)
         ELSE raised + 1

(***************************************************************************)
(* The analyst's routes.                                                   *)
(***************************************************************************)
\* POST .../feedback up to the audit join: without a record it is a 422.
FlagJoin(w, t) ==
    /\ w \in Handlers /\ req[w].pc = "free" /\ audit[t] # "none"
    /\ req' = [req EXCEPT ![w] = [Free EXCEPT !.pc = "joined", !.op = "flag", !.turn = t]]
    /\ UNCHANGED <<audit, flags, raised, confirmed, golden, crashes, history>>

\* submit_flag's insert; the new row's number is kept.
FlagInsert(w) ==
    /\ req[w].op = "flag" /\ req[w].pc = "joined" /\ raised < MaxFlags
    /\ flags' = flags \cup {[id |-> NewId, turn |-> req[w].turn, status |-> "open",
                             outcome |-> "none", case |-> 0, by |-> NoTurn]}
    /\ raised' = raised + 1
    /\ given' = [given EXCEPT ![NewId] = IF @ = "never" THEN "once" ELSE "again"]
    /\ req' = [req EXCEPT ![w].pc = "looked", ![w].id = NewId]
    /\ UNCHANGED <<audit, confirmed, golden, crashes, orphaned, cut>>

Row(id) == {f \in flags : f.id = id}

\* submit_flag returns what get_feedback now finds under that number; it raises
\* when a confirmation of the turn has taken the row back in between.
FlagReread(w) ==
    /\ req[w].op = "flag" /\ req[w].pc = "looked"
    /\ Goto(w, IF Row(req[w].id) = {} THEN "failed" ELSE "stored")
    /\ UNCHANGED <<audit, flags, raised, confirmed, golden, crashes, history>>

\* The route calls withdraw_confirmation once submit_flag has returned.
FlagWithdraw(w) ==
    /\ req[w].op = "flag" /\ req[w].pc = "stored"
    /\ confirmed' = confirmed \ {req[w].turn}
    /\ End(w)
    /\ UNCHANGED <<audit, flags, raised, golden, crashes, history>>

\* MUTANT: any audited turn can be confirmed.
Audited(t) == audit[t] # "none"

\* turn_executed_successfully on the turn's audit record.
Confirmable(t) == audit[t] = "ok"

\* POST .../confirmation up to its look for an existing row.
ConfirmLook(w, t) ==
    /\ w \in Handlers /\ req[w].pc = "free" /\ Confirmable(t)
    /\ req' = [req EXCEPT ![w] = [Free EXCEPT !.op = "confirm", !.turn = t,
                                  !.pc = IF t \in confirmed THEN "stored" ELSE "insert"]]
    /\ UNCHANGED <<audit, flags, raised, confirmed, golden, crashes, history>>

\* The insert; the unique constraint turns a racing second one into "not mine".
ConfirmInsert(w) ==
    /\ req[w].op = "confirm" /\ req[w].pc = "insert"
    /\ confirmed' = confirmed \cup {req[w].turn}
    /\ req' = [req EXCEPT ![w].pc = "looked", ![w].created = req[w].turn \notin confirmed]
    /\ UNCHANGED <<audit, flags, raised, golden, crashes, history>>

\* The row is read back; `assert row is not None` fails if it is gone.
ConfirmReread(w) ==
    /\ req[w].op = "confirm" /\ req[w].pc = "looked"
    /\ Goto(w, IF req[w].turn \in confirmed THEN "stored" ELSE "failed")
    /\ UNCHANGED <<audit, flags, raised, confirmed, golden, crashes, history>>

\* MUTANT: resolved flags of the turn go as well.
WithdrawnAny(t) == {f \in flags : f.turn = t}

\* MUTANT: the oldest open flag only.
WithdrawnFirst(t) ==
    {f \in flags : /\ f.turn = t /\ f.status = "open"
                   /\ \A g \in flags : (g.turn = t /\ g.status = "open") => f.id <= g.id}

\* withdraw_open_flags: one statement, open rows only.
Withdrawn(t) == {f \in flags : f.turn = t /\ f.status = "open"}

ConfirmWithdraw(w) ==
    /\ req[w].op = "confirm" /\ req[w].pc = "stored"
    /\ flags' = flags \ Withdrawn(req[w].turn)
    /\ End(w)
    /\ UNCHANGED <<audit, raised, confirmed, golden, crashes, history>>

\* The 500 of a failed reread reaches the client; the other verdict is not
\* taken back.
RereadFailed(w) ==
    /\ req[w].pc = "failed" /\ End(w)
    /\ UNCHANGED <<audit, flags, raised, confirmed, golden, crashes, history>>

\* DELETE .../confirmation.
Withdraw(t) ==
    /\ t \in confirmed
    /\ confirmed' = confirmed \ {t}
    /\ UNCHANGED <<audit, flags, raised, golden, req, crashes, history>>

(***************************************************************************)
(* Triage.                                                                 *)
(***************************************************************************)
\* MUTANT: the flag is resolved first, the case to be written after.
ResolvesFirst(outcome) == "looked"

\* A golden case is written before the flag is touched.
FirstStep(outcome) == IF outcome = "golden_case" THEN "joined" ELSE "looked"

\* POST .../resolve; a golden case is promoted first, for which the flag and
\* its audit record are read.
ResolveStart(w, id, outcome) ==
    /\ w \in Triage /\ req[w].pc = "free" /\ Row(id) # {}
    /\ outcome = "golden_case" => \A f \in Row(id) : audit[f.turn] # "none"
    /\ req' = [req EXCEPT ![w] = [Free EXCEPT !.op = "resolve", !.id = id, !.outcome = outcome,
            !.pc = FirstStep(outcome),
            !.turn = (CHOOSE f \in Row(id) : TRUE).turn]]
    /\ UNCHANGED <<audit, flags, raised, confirmed, golden, crashes, history>>

\* promote_to_golden_case appends to the file before the flag's status is
\* looked at.
Promote(w) ==
    /\ req[w].op = "resolve" /\ req[w].pc = "joined" /\ Len(golden) < MaxCases
    /\ golden' = Append(golden, [id |-> req[w].id, turn |-> req[w].turn])
    /\ Goto(w, "looked")
    /\ UNCHANGED <<audit, flags, raised, confirmed, crashes, history>>

\* MUTANT: a resolved flag may be resolved again.
Resolvable(id) == Row(id) # {}

\* resolve_feedback's checks; a missing or resolved row ends the request.
Open(id) == \E f \in Row(id) : f.status = "open"

ResolveLook(w) ==
    /\ req[w].op = "resolve" /\ req[w].pc = "looked"
    /\ IF Open(req[w].id) THEN Goto(w, "chosen") ELSE End(w)
    /\ UNCHANGED <<audit, flags, raised, confirmed, golden, crashes, history>>

\* The update names the id only.
ResolveWrite(w) ==
    /\ req[w].op = "resolve" /\ req[w].pc = "chosen"
    /\ flags' = {IF f.id = req[w].id
                 THEN [f EXCEPT !.status = "resolved", !.outcome = req[w].outcome, !.by = w,
                       !.case = IF req[w].outcome = "golden_case" THEN f.id ELSE 0]
                 ELSE f : f \in flags}
    /\ End(w)
    /\ UNCHANGED <<audit, raised, confirmed, golden, crashes, history>>

(***************************************************************************)
(* The audit log rotates past a turn; the process dies.                    *)
(***************************************************************************)
Rotate(t) ==
    /\ audit[t] # "none"
    /\ audit' = [audit EXCEPT ![t] = "none"]
    /\ UNCHANGED <<flags, raised, confirmed, golden, req, crashes, history>>

\* w has written the golden case and not yet its flag's outcome.
Promoting(w) ==
    /\ req[w].op = "resolve" /\ req[w].outcome = "golden_case"
    /\ req[w].pc \in {"looked", "chosen"}

Crash ==
    /\ crashes < MaxCrashes /\ crashes' = crashes + 1
    /\ orphaned' = orphaned \cup {req[w].turn : w \in {x \in Handlers : req[x].pc # "free"}}
    /\ cut' = cut \cup {req[w].id : w \in {x \in Triage : Promoting(x)}}
    /\ req' = [w \in Threads |-> Free]
    /\ UNCHANGED <<audit, flags, raised, confirmed, golden, given>>

Next ==
    \/ \E w \in Threads :
        \/ \E t \in Turns : FlagJoin(w, t) \/ ConfirmLook(w, t)
        \/ FlagInsert(w) \/ FlagReread(w) \/ FlagWithdraw(w)
        \/ ConfirmInsert(w) \/ ConfirmReread(w) \/ ConfirmWithdraw(w) \/ RereadFailed(w)
        \/ \E id \in 1 .. MaxFlags, outcome \in Outcomes : ResolveStart(w, id, outcome)
        \/ Promote(w) \/ ResolveLook(w) \/ ResolveWrite(w)
    \/ \E t \in Turns : Withdraw(t) \/ Rotate(t)
    \/ Crash

Spec == Init /\ [][Next]_vars

(***************************************************************************)
(* Properties.                                                             *)
(***************************************************************************)
\* w has stored a verdict on turn t and will take back the other one: its own
\* reread is behind it, or will find the row it stored.
Settles(w, t) ==
    /\ req[w].turn = t
    /\ \/ req[w].op = "flag" /\ req[w].pc = "looked" /\ \E f \in Row(req[w].id) : f.turn = t
       \/ req[w].op = "flag" /\ req[w].pc = "stored"
       \/ req[w].op = "confirm" /\ req[w].pc \in {"looked", "stored"}

\* A turn with an open flag and a confirmation has a request that is sure to
\* take one of them back unless the process dies, or one that died before it
\* could: however clicks in several tabs overlap, and although a flag taken
\* back under its own request makes that request fail, the two never settle
\* side by side (appdb/confirmations.py: flag and confirmation exclude each
\* other).
VerdictsExclude ==
    \A f \in flags : (f.status = "open" /\ f.turn \in confirmed) =>
        (\E w \in Handlers : Settles(w, f.turn)) \/ f.turn \in orphaned

\* A confirmation is of an answer whose query ran, whatever the audit log
\* shows by now (appdb/confirmations.py: only a successful answer).
ConfirmedRan == [][\A t \in confirmed' \ confirmed : audit[t] # "failed"]_vars

\* A triage decision outlives its reporter's change of mind: a resolved flag is
\* never deleted (withdraw_open_flags).
ResolvedStays ==
    [][\A f \in flags : f.status = "resolved" => \E g \in flags' : g.id = f.id /\ g.turn = f.turn]_vars

\* No admin is between the check and the update of this decided flag.
Settled(f) ==
    f.status = "resolved" /\ \A w \in Triage : req[w].pc = "chosen" => req[w].id # f.id

\* A decision is overwritten only by an admin who looked at the flag before it
\* was taken; with none of them left, it is final (AlreadyResolvedError).
DecisionFinal == [][\A f \in flags : Settled(f) => f \in flags' /\ Settled(f)']_vars

\* A decision is taken once (AlreadyResolvedError); with two admins at once the
\* second overwrites the first.
DecisionKept == [][\A f \in flags : f.status = "resolved" => f \in flags']_vars

\* A flag resolved as a golden case names a line of the golden file, and unless
\* the database gave the flag's number to a second one, that line asks the
\* question of the flagged turn: not that of a flag withdrawn meanwhile.
GoldenBacked ==
    \A f \in flags : f.outcome = "golden_case" =>
        \E i \in DOMAIN golden :
            golden[i].id = f.case /\ (golden[i].turn = f.turn \/ given[f.id] = "again")

\* A flag with a line in the golden file does not stay open in the queue: an
\* admin who wrote such a line is about to resolve it, or was stopped before
\* (the flag is then promoted a second time), or the number is another's now.
PromotedDecided ==
    \A f \in flags, i \in DOMAIN golden : (f.status = "open" /\ golden[i].id = f.id) =>
        \/ \E w \in Triage : Promoting(w) /\ req[w].id = f.id
        \/ f.id \in cut \/ given[f.id] = "again"

\* A case in the golden file is the outcome of its flag, once nobody works on
\* it (ResolveFeedbackRequest: a flag has exactly one outcome).
GoldenIsOutcome ==
    \A i \in DOMAIN golden :
        \/ \E w \in Triage : req[w].id = golden[i].id
        \/ \E f \in flags : f.id = golden[i].id /\ f.outcome = "golden_case"

\* No two lines of the golden file have one id.
GoldenIdsDiffer == \A i, j \in DOMAIN golden : golden[i].id = golden[j].id => i = j

\* confirm_turn's own assertion: this insert, or the racing one, stored it.
ConfirmationStored == \A w \in Handlers : req[w].pc # "failed"
=============================================================================
