----------------------------- MODULE Generation -----------------------------
(***************************************************************************)
(* How one question becomes one answer: the three drivers that ask the     *)
(* language model for SQL, check it and run it.                            *)
(*                                                                         *)
(*   "turn"   session/engine.py, TurnEngine._generate_validate_execute     *)
(*   "cte"    session/engine.py, TurnEngine._handle_cte_refinement         *)
(*   "agent"  llm/sql_agent.py, SQLAgent.run for POST /query               *)
(*   "sql"    api/runner.py, _safe_generate_sql_only (mode = "sql")        *)
(*                                                                         *)
(* They share LLMRouter._call_chain (a chain of backends, each refused by  *)
(* the data-governance check, failing, too slow, declining or answering),  *)
(* the one retry on another data source (llm/source_routing.py), the SQL   *)
(* guard, the spelling fix and the filter value check.  The model, the     *)
(* guard's verdict and the database are the environment: every outcome the *)
(* code distinguishes may happen.                                          *)
(***************************************************************************)
EXTENDS Naturals, FiniteSets, Sequences

CONSTANTS
    Engines,         \* the drivers in play
    Chain,           \* LLM_ROUTES: the backends of sql_generation, in order
    Trusted,         \* those for which is_trusted_backend holds
    AllowRemote,     \* cfg.settings.llm_allow_remote
    Candidates,      \* data sources as the selector ranked them, best first
    MaxCorrections,  \* max_corrections of the two loops
    ValueCheck,      \* cfg.settings.filter_value_check
    Filters,         \* dimension filters the question names
    None

AllEngines == {"turn", "cte", "agent", "sql"}
Sources == {Candidates[i] : i \in DOMAIN Candidates}
Backends == {Chain[i] : i \in DOMAIN Chain}

\* A statement: the model call that produced it, the named filters it does
\* not reference, whether it compares a column to a value that does not exist.
Statement == [call: Nat, missing: SUBSET Filters, unknown: BOOLEAN]

\* A correction text: the call whose statement failed and the source it was
\* for, and the call and source of the statement quoted as the failed SQL.
Quote == [call: Nat, src: Sources]
Note == [failed: Quote, quoted: Quote]

\* A prompt: the source whose schema it shows, and its correction texts.
Prompt == [prefix: Sources, notes: SUBSET Note]

ASSUME EnginesAssumption == Engines \subseteq AllEngines
ASSUME ChainAssumption == Chain \in Seq(Backends) /\ Chain # <<>>
ASSUME CandidatesAssumption ==
    /\ Candidates \in Seq(Sources) /\ Candidates # <<>>
    /\ \A i, j \in DOMAIN Candidates : Candidates[i] = Candidates[j] => i = j
ASSUME MaxCorrectionsAssumption == MaxCorrections \in Nat
ASSUME FlagsAssumption == AllowRemote \in BOOLEAN /\ ValueCheck \in BOOLEAN
ASSUME NoneAssumption == None \notin Statement /\ None \notin Quote

VARIABLES
    engine,    \* which driver serves this question
    pc,        \* where it is
    round,     \* correction_round
    value,     \* is this the extra call of _filter_value_round
    src,       \* SourceRouting.current
    fell,      \* SourceRouting.fallback_from is set
    base,      \* the source of `segments` / `initial_segments`
    gen,       \* gen_segments: the prompt this round was started with
    prompt,    \* the prompt being sent
    link,      \* position in the chain
    notes,     \* the corrections collected for the next prompt
    kept,      \* sql / last_sql: the statement the next correction quotes
    cand,      \* the statement under consideration (capped / sql)
    orig,      \* the statement whose values are being checked
    nudged,    \* filter_correction_used
    checked,   \* value_checked
    extra,     \* extra_round
    result,    \* what is reported: kind, statement, warnings
    sent,      \* history: every prompt that reached a backend
    allowed,   \* history: statements the guard accepted
    ran,       \* history: statements handed to the database
    calls      \* history: calls of generate_for_task

loopVars == <<round, notes, kept, nudged, checked, extra>>
routeVars == <<src, fell, base>>
history == <<sent, allowed, ran, calls>>
vars == <<engine, pc, round, value, src, fell, base, gen, prompt, link, notes,
          kept, cand, orig, nudged, checked, extra, result, sent, allowed, ran, calls>>

Positions == {"round", "call", "failed", "declined", "guard", "filters",
              "spelling", "values", "execute", "done"}

NoResult == [kind |-> "none", stmt |-> None, warned |-> {}]

Finish(kind, stmt, warned) ==
    /\ result' = [kind |-> kind, stmt |-> stmt, warned |-> warned]
    /\ pc' = "done"

-----------------------------------------------------------------------------
(* A round of the loop.                                                    *)

Send(p) ==
    /\ pc = "round"
    /\ gen' = p /\ prompt' = p
    /\ link' = 1 /\ calls' = calls + 1
    /\ pc' = "call"
    /\ UNCHANGED <<engine, value, routeVars, loopVars, cand, orig, result, sent,
                   allowed, ran>>

\* The prompt of a round of the two loops: the base prompt of the current
\* source and the corrections so far.
StartRound == engine \in {"turn", "agent"} /\ Send([prefix |-> base, notes |-> notes])

\* A refinement asks for the outer SELECT over the previous statement, and the
\* SQL-only mode asks once: neither has a second round.
AskOnce == engine \in {"cte", "sql"} /\ Send([prefix |-> base, notes |-> {}])

\* MUTANT: one round too many.
LastRoundLate == engine \in {"cte", "sql"} \/ round = MaxCorrections + 1

LastRound == engine \in {"cte", "sql"} \/ round = MaxCorrections

This == [call |-> cand.call, src |-> src]

\* A round failed: the request ends, or another one starts with a correction
\* (the agent keeps them all, the turn engine the last) that quotes q, or the
\* answer just received when q is None.
Retry(kind, stmt, q) ==
    LET note == [failed |-> This, quoted |-> IF q = None THEN This ELSE q]
    IN  IF LastRound
        THEN /\ Finish(kind, stmt, {})
             /\ UNCHANGED <<round, notes>>
        ELSE /\ round' = round + 1
             /\ notes' = {note} \cup (IF engine = "agent" THEN notes ELSE {})
             /\ pc' = "round"
             /\ UNCHANGED result

-----------------------------------------------------------------------------
(* LLMRouter._call_chain.                                                  *)

\* MUTANT: only the first backend of the chain is checked.
MayAskHead(b) == b \in Trusted \/ AllowRemote \/ link > 1

\* _governance_check.
MayAsk(b) == b \in Trusted \/ AllowRemote

Refuse ==
    /\ pc = "call" /\ ~MayAsk(Chain[link])
    /\ pc' = "failed"
    /\ UNCHANGED <<engine, value, routeVars, gen, prompt, link, loopVars, cand,
                   orig, result, history>>

Ask == /\ pc = "call" /\ MayAsk(Chain[link])
       /\ sent' = sent \cup {[backend |-> Chain[link], prompt |-> prompt, src |-> src]}

\* MUTANT: after the last backend that may be asked the chain starts over.
AskFailsOver ==
    /\ Ask
    /\ link' = IF link < Len(Chain) /\ MayAsk(Chain[link + 1]) THEN link + 1 ELSE 1
    /\ pc' = pc
    /\ UNCHANGED <<engine, value, routeVars, gen, prompt, loopVars, cand, orig,
                   result, allowed, ran, calls>>

\* The backend raises, or answers after the task's latency budget: the next
\* one is asked, and after the last the chain has failed.
AskFails ==
    /\ Ask
    /\ IF link < Len(Chain)
       THEN link' = link + 1 /\ pc' = pc
       ELSE link' = link /\ pc' = "failed"
    /\ UNCHANGED <<engine, value, routeVars, gen, prompt, loopVars, cand, orig,
                   result, allowed, ran, calls>>

\* OUT_OF_SCOPE is final for the chain.
AskDeclines ==
    /\ Ask
    /\ pc' = "declined"
    /\ UNCHANGED <<engine, value, routeVars, gen, prompt, link, loopVars, cand,
                   orig, result, allowed, ran, calls>>

\* The backend answers.  When this was the retry on another source, that
\* source's prompt becomes the base and the corrections start over; the turn
\* engine also forgets the last statement, the agent does not.
AskAnswers ==
    LET replaced == ~value /\ prompt.prefix # base
    IN  /\ Ask
        /\ base' = IF replaced THEN prompt.prefix ELSE base
        /\ notes' = IF replaced THEN {} ELSE notes
        /\ kept' = IF replaced /\ engine = "turn" THEN None ELSE kept
        /\ cand' \in [call: {calls}, missing: SUBSET Filters, unknown: BOOLEAN]
        /\ pc' = "guard"
        /\ UNCHANGED <<engine, value, src, fell, gen, prompt, link, round,
                       nudged, checked, extra, orig, result, allowed, ran, calls>>

-----------------------------------------------------------------------------
(* generate_with_source_fallback and the failure of a call.                *)

After(s) == {Candidates[i + 1] : i \in {j \in 1 .. (Len(Candidates) - 1) : Candidates[j] = s}}

\* can_fall_back(): there is routing at all (two sources or more), the retry
\* is unused, and another candidate follows.  The value round and the
\* refinement do not go through the fallback.
CanFallBack == engine # "cte" /\ ~value /\ ~fell /\ After(src) # {}

\* MUTANT: any decline is retried while another source is left.
FallBackAgain ==
    /\ pc = "declined" /\ engine # "cte" /\ ~value /\ After(src) # {}
    /\ fell' = TRUE
    /\ src' \in After(src)
    /\ prompt' = [prefix |-> src', notes |-> {}]
    /\ link' = 1 /\ calls' = calls + 1
    /\ pc' = "call"
    /\ UNCHANGED <<engine, value, base, gen, loopVars, cand, orig, result,
                   sent, allowed, ran>>

FallBack ==
    /\ pc = "declined" /\ CanFallBack
    /\ fell' = TRUE
    /\ src' \in After(src)
    /\ prompt' = [prefix |-> src', notes |-> {}]
    /\ link' = 1 /\ calls' = calls + 1
    /\ pc' = "call"
    /\ UNCHANGED <<engine, value, base, gen, loopVars, cand, orig, result,
                   sent, allowed, ran>>

\* Any other failure of the call ends the request.
CallFails ==
    /\ ~value
    /\ pc = "failed" \/ (pc = "declined" /\ ~CanFallBack)
    /\ Finish("error", None, {})
    /\ UNCHANGED <<engine, value, routeVars, gen, prompt, link, loopVars, cand,
                   orig, history>>

-----------------------------------------------------------------------------
(* clean_sql, validate_sql, ensure_top, transpile_and_revalidate.          *)

Accept ==
    /\ pc = "guard" /\ ~value
    /\ allowed' = allowed \cup {cand}
    /\ kept' = This
    /\ UNCHANGED <<engine, value, routeVars, gen, prompt, link, round, notes,
                   nudged, checked, extra, cand, orig, sent, ran, calls>>

TurnAccepts == engine = "turn" /\ Accept /\ pc' = "filters" /\ UNCHANGED result
AgentAccepts == engine = "agent" /\ Accept /\ pc' = "spelling" /\ UNCHANGED result

\* compose_refinement_sql puts the previous statement and the answer together;
\* the guard sees the whole.
CteAccepts == engine = "cte" /\ Accept /\ pc' = "execute" /\ UNCHANGED result

\* The statement is the answer: no TOP is added and nothing runs.
SqlOnlyAccepts == engine = "sql" /\ Accept /\ Finish("sql", cand, {})

\* A policy rejection is never retried.
GuardRefuses ==
    /\ pc = "guard" /\ ~value
    /\ Finish("rejected", None, {})
    /\ UNCHANGED <<engine, value, routeVars, gen, prompt, link, loopVars, cand,
                   orig, history>>

\* An answer that is not acceptable SQL costs a round.  The turn engine quotes
\* that answer back; the agent's `sql` is assigned only by a statement that
\* passed, so an older one is quoted if there is one.
GuardFaults ==
    /\ pc = "guard" /\ ~value
    /\ kept' = IF engine = "turn" THEN None ELSE kept
    /\ Retry("rejected", None, kept')
    /\ UNCHANGED <<engine, value, routeVars, gen, prompt, link, nudged, checked,
                   extra, cand, orig, history>>

\* The turn engine looks for an empty answer first: cut off by the token limit
\* it ends the turn, otherwise it costs a round and last_sql stays.
EmptyAnswer ==
    /\ pc = "guard" /\ ~value /\ engine = "turn"
    /\ \/ Finish("error", None, {}) /\ UNCHANGED <<round, notes>>
       \/ Retry("error", None, kept)
    /\ UNCHANGED <<engine, value, routeVars, gen, prompt, link, kept, nudged,
                   checked, extra, cand, orig, history>>

\* _missing_dimension_filters: once per turn, and only when a round is left, a
\* statement that does not reference a filter the question named is sent back.
Nudge == cand.missing # {} /\ ~nudged /\ round < MaxCorrections

CheckFilters ==
    /\ pc = "filters"
    /\ IF Nudge
       THEN /\ nudged' = TRUE
            /\ Retry("none", None, kept)
       ELSE /\ pc' = "spelling"
            /\ UNCHANGED <<nudged, round, notes, result>>
    /\ UNCHANGED <<engine, value, routeVars, gen, prompt, link, kept, checked, extra,
                   cand, orig, history>>

Respelled(s) == [call |-> s.call, missing |-> s.missing, unknown |-> FALSE]

\* MUTANT: the rewritten statement is not checked again.
SpellUnchecked ==
    /\ pc = "spelling"
    /\ cand' = Respelled(cand)
    /\ pc' = "values"
    /\ UNCHANGED <<engine, value, routeVars, gen, prompt, link, loopVars, orig,
                   result, history>>

\* respell_filters: a literal respelled the way its column stores it is a known
\* value; the guard checks the rewritten statement again, and when it refuses
\* the original goes on.
Spell ==
    /\ pc = "spelling"
    /\ \/ UNCHANGED <<cand, allowed>>
       \/ /\ cand.unknown
          /\ cand' = Respelled(cand)
          /\ allowed' = allowed \cup {cand'}
    /\ pc' = "values"
    /\ UNCHANGED <<engine, value, routeVars, gen, prompt, link, loopVars, orig,
                   result, sent, ran, calls>>

-----------------------------------------------------------------------------
(* _filter_value_round.                                                    *)

\* The agent extends its current base prompt, the turn engine gen_segments.
ValuePrompt ==
    LET note == [failed |-> This, quoted |-> This]
    IN  IF engine = "agent"
        THEN [prefix |-> base, notes |-> notes \cup {note}]
        ELSE [prefix |-> gen.prefix, notes |-> gen.notes \cup {note}]

\* A statement with a value that does not exist gets one more model call, once
\* per request and outside the correction budget.
CheckValues ==
    /\ pc = "values"
    /\ IF ValueCheck /\ ~checked
       THEN /\ checked' = TRUE
            /\ IF cand.unknown /\ MaxCorrections > 0
               THEN /\ value' = TRUE /\ orig' = cand
                    /\ extra' = 1
                    /\ prompt' = ValuePrompt
                    /\ link' = 1 /\ calls' = calls + 1
                    /\ pc' = "call"
               ELSE /\ pc' = "execute"
                    /\ UNCHANGED <<value, orig, extra, prompt, link, calls>>
       ELSE /\ pc' = "execute"
            /\ UNCHANGED <<value, orig, checked, extra, prompt, link, calls>>
    /\ UNCHANGED <<engine, routeVars, gen, round, notes, kept, nudged, cand, result,
                   sent, allowed, ran>>

\* MUTANT: a corrected statement may drop a filter the original referenced.
KeepsFiltersAny(new) == TRUE

\* The turn engine wants every filter the original referenced to stay.
KeepsFilters(new) == engine = "turn" => new.missing \subseteq orig.missing

\* The corrected statement passes the guard, is respelled, has no unknown value
\* left and keeps the filters: it is run, and reported if that works.
ValueRuns ==
    /\ pc = "guard" /\ value
    /\ \E s \in {cand, Respelled(cand)} :
        /\ ~s.unknown /\ KeepsFilters(s)
        /\ allowed' = allowed \cup {cand, s}
        /\ \/ ran' = ran \cup {s}
           \/ engine = "agent" /\ ran' = ran
        /\ \/ /\ Finish("answered", s, IF engine = "turn" THEN s.missing ELSE {})
              /\ UNCHANGED <<value, cand>>
           \/ /\ value' = FALSE /\ cand' = orig /\ pc' = "execute"
              /\ UNCHANGED result
    /\ UNCHANGED <<engine, routeVars, gen, prompt, link, loopVars, orig, sent, calls>>

\* MUTANT: a refused correction is reported like any other refused statement.
ValueFailsHard ==
    /\ value /\ pc \in {"guard", "failed", "declined"}
    /\ IF pc = "guard"
       THEN Finish("rejected", None, {}) /\ UNCHANGED <<value, cand>>
       ELSE value' = FALSE /\ cand' = orig /\ pc' = "execute" /\ UNCHANGED result
    /\ UNCHANGED <<engine, routeVars, gen, prompt, link, loopVars, orig, history>>

\* Anything else, a policy rejection included, and the original runs.
ValueFails ==
    /\ value /\ pc \in {"guard", "failed", "declined"}
    /\ value' = FALSE /\ cand' = orig /\ pc' = "execute"
    /\ UNCHANGED <<engine, routeVars, gen, prompt, link, loopVars, orig, result,
                   history>>

-----------------------------------------------------------------------------
(* Execution.                                                              *)

\* MUTANT: a filter the statement leaves out is not mentioned.
WarningsNone == {}

\* The filters an answer does not apply, as the turn engine's warnings.
Warnings == IF engine = "turn" THEN cand.missing ELSE {}

\* The database answers or (POST /query only) the rows come from the result
\* cache under the same SQL.
ExecuteOk ==
    /\ pc = "execute" /\ engine \in {"turn", "agent"}
    /\ \/ ran' = ran \cup {cand}
       \/ engine = "agent" /\ ran' = ran
    /\ Finish("answered", cand, Warnings)
    /\ UNCHANGED <<engine, value, routeVars, gen, prompt, link, loopVars, cand,
                   orig, sent, allowed, calls>>

\* A database error costs a round.
ExecuteFails ==
    /\ pc = "execute" /\ engine \in {"turn", "agent"}
    /\ ran' = ran \cup {cand}
    /\ Retry("error", cand, kept)
    /\ UNCHANGED <<engine, value, routeVars, gen, prompt, link, kept, nudged, checked,
                   extra, cand, orig, sent, allowed, calls>>

\* The agent retries RuntimeError only; any other exception ends the request.
ExecuteRaises ==
    /\ pc = "execute" /\ engine = "agent"
    /\ ran' = ran \cup {cand}
    /\ Finish("error", None, {})
    /\ UNCHANGED <<engine, value, routeVars, gen, prompt, link, loopVars, cand,
                   orig, sent, allowed, calls>>

\* A refinement first probes how many rows the previous statement matches (it is
\* part of what the guard accepted, and only adds a warning), then runs once.
CteExecutes ==
    /\ pc = "execute" /\ engine = "cte"
    /\ ran' = ran \cup {cand}
    /\ \E kind \in {"answered", "error"} : Finish(kind, cand, {})
    /\ UNCHANGED <<engine, value, routeVars, gen, prompt, link, loopVars, cand,
                   orig, sent, allowed, calls>>

Init ==
    LET p == [prefix |-> Candidates[1], notes |-> {}]
    IN  /\ engine \in Engines
        /\ pc = "round" /\ round = 0 /\ value = FALSE
        /\ src = Candidates[1] /\ fell = FALSE /\ base = Candidates[1]
        /\ gen = p /\ prompt = p /\ link = 1 /\ notes = {}
        /\ kept = None /\ cand = None /\ orig = None
        /\ nudged = FALSE /\ checked = FALSE /\ extra = 0
        /\ result = NoResult
        /\ sent = {} /\ allowed = {} /\ ran = {} /\ calls = 0

Step ==
    \/ StartRound \/ AskOnce \/ Refuse \/ AskFails \/ AskDeclines \/ AskAnswers
    \/ FallBack \/ CallFails \/ TurnAccepts \/ AgentAccepts
    \/ CteAccepts \/ SqlOnlyAccepts \/ GuardRefuses \/ GuardFaults
    \/ EmptyAnswer \/ CheckFilters \/ Spell \/ CheckValues \/ ValueRuns \/ ValueFails
    \/ ExecuteOk \/ ExecuteFails \/ ExecuteRaises
    \/ CteExecutes

\* The answer has been sent: nothing more happens.
Answered == pc = "done" /\ UNCHANGED vars

Next == Step \/ Answered
Spec == Init /\ [][Next]_vars

\* Every wait (a model call, a query) has a timeout, so the request goes on.
FairSpec == Spec /\ WF_vars(Step)

-----------------------------------------------------------------------------
(* Properties.                                                             *)

\* Types of the request's state.
TypeOK ==
    /\ engine \in AllEngines /\ pc \in Positions
    /\ round \in 0 .. MaxCorrections /\ extra \in 0 .. 1
    /\ value \in BOOLEAN /\ fell \in BOOLEAN
    /\ nudged \in BOOLEAN /\ checked \in BOOLEAN
    /\ src \in Sources /\ base \in Sources /\ notes \subseteq Note
    /\ gen \in Prompt /\ prompt \in Prompt /\ link \in DOMAIN Chain
    /\ kept \in Quote \cup {None}
    /\ cand \in Statement \cup {None} /\ orig \in Statement \cup {None}
    /\ result \in [kind: {"none", "sql", "answered", "rejected", "error"},
                   stmt: Statement \cup {None}, warned: SUBSET Filters]
    /\ sent \subseteq [backend: Backends, prompt: Prompt, src: Sources]
    /\ allowed \subseteq Statement /\ ran \subseteq Statement
    /\ calls \in Nat

\* session/engine.py, after a retry on the next source: "from here on this
\* request is that source's, prefix included, and nothing learned about the
\* other source's tables carries over".  Every prompt shows the schema of the
\* source in use and talks about that source only.
PromptsOfOneSource ==
    \A m \in sent :
        /\ m.prompt.prefix = m.src
        /\ \A n \in m.prompt.notes : n.failed.src = m.src /\ n.quoted.src = m.src

\* The correction templates say "The SQL query you generated failed" and show
\* "FAILED SQL" and the error: the statement shown is the one that failed.
CorrectionQuotesFailed ==
    \A m \in sent : \A n \in m.prompt.notes : n.quoted = n.failed

\* The model is asked at most max_corrections + 1 times, once more for another
\* source and once more for the value check: no combination of filter
\* correction, guard rejections, fallback and value round adds to that.
BudgetKept == calls <= MaxCorrections + 1 + extra + (IF fell THEN 1 ELSE 0)

\* Only what the guard accepted reaches the database, respelled and corrected
\* statements included, and what is reported is what the guard accepted.
RunsOnlyAllowed ==
    /\ ran \subseteq allowed
    /\ result.stmt # None => result.stmt \in allowed

\* A turn that does not apply a filter the question named says so, whichever
\* statement was finally used, and names no filter that was applied.
FiltersReported ==
    result.kind = "answered" /\ engine = "turn" => result.warned = result.stmt.missing

\* "The check never refuses a turn": once a statement was held back for its
\* values, either its correction is the answer or the statement itself ran.
HeldBackStillRuns ==
    pc = "done" /\ orig # None =>
        \/ orig \in ran
        \/ result.kind = "answered"

\* A turn's answer leaves a named filter out only after the model was asked once
\* more to apply it, or with no round left to ask in: neither the value round nor
\* the retry on another source brings in a statement nobody asked about.
AskedAgain(s) == s.missing # {} => (nudged \/ round = MaxCorrections)
OmissionsAsked ==
    (result.kind = "answered" /\ engine = "turn") => AskedAgain(result.stmt)

\* No prompt leaves for a backend that is not trusted unless the deployment
\* opted in, wherever in the chain that backend is.
RemoteGoverned == \A m \in sent : m.backend \in Trusted \/ AllowRemote

\* What leaves for a backend and what reaches the database is what the
\* deployment and the guard allow.
PolicyKept == RunsOnlyAllowed /\ RemoteGoverned

\* The check of filters and values reports what the answer lacks and never
\* refuses a turn.
ValuesChecked == FiltersReported /\ HeldBackStillRuns

\* Every question gets an answer.
Terminates == <>(pc = "done")
-----------------------------------------------------------------------------
(* Values for Chain and Candidates that a configuration file cannot write.  *)
TwoLocalsThenCloud == <<"local", "backup", "cloud">>
JustLocal == <<"local">>
TwoSources == <<"sales", "stock">>
ThreeSources == <<"sales", "stock", "staff">>
=============================================================================
