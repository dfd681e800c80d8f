----------------------------- MODULE PromptBudget -----------------------------
(***************************************************************************)
(* scripts/prompt_budget.py: the static prompt of each data source is        *)
(* measured, the model is asked how many tokens it really is, and a          *)
(* PROMPT_RETRIEVAL_TOKEN_BUDGET is recommended, which whoever runs the      *)
(* system then sets; the schemas grow afterwards.                           *)
(*                                                                          *)
(* Sizes are small numbers; a ratio of real to estimated tokens is a pair,    *)
(* and percentages are of the constants' own scale.                         *)
(***************************************************************************)
EXTENDS Naturals, Sequences, FiniteSets, SequencesExt

CONSTANTS
    Names,       \* the data sources
    Estimates,   \* estimates a source may have at first
    Ratios,      \* percent of its estimate that a source really is
    Contexts,    \* context lengths the model may have
    Endpoints,   \* [trusted, allowed]: is_trusted_backend, LLM_ALLOW_REMOTE
    Arguments,   \* [noModel, length]: --no-model and --context-length, 0 if absent
    Budget,      \* PROMPT_RETRIEVAL_TOKEN_BUDGET as it is
    Room, Predict,            \* --question-room, LLM_NUM_PREDICT
    Headroom, RoundTo,        \* --headroom (percent), --round
    Assumed,     \* --assumed-ratio (percent)
    Growth, MaxGrowth         \* by what a source grows, and how often

Sources == ToSet(Names)
Unknown == 0                  \* a length or a count that nobody knows
None == [is |-> "none"]

VARIABLES
    size, ratio, \* source -> its estimate; source -> real tokens per 100 of it
    length,      \* the model's context length
    endpoint,    \* the first endpoint of the route of SQL
    arguments, run,   \* the command line; the run: [pc, at, context, counted]
    sent, audited,    \* the prefixes posted, and the posts the audit log has
    report,      \* what the script printed
    budget,      \* the setting in effect
    grown        \* source -> how often it grew since the setting

vars == <<size, ratio, length, endpoint, arguments, run, sent, audited, report, budget, grown>>

Ceil(a, b) == (a + b - 1) \div b
Largest(S) == CHOOSE x \in S : \A y \in S : y <= x
Real(s) == Ceil(size[s] * ratio[s], 100)
\* should_use_static_prefix
Static(s, limit) == limit > 0 /\ size[s] <= limit
Overflows(s) == Static(s, budget) /\ Real(s) + Room + Predict > length

Init ==
    /\ size \in [Sources -> Estimates] /\ ratio \in [Sources -> Ratios]
    /\ length \in Contexts /\ endpoint \in Endpoints /\ arguments \in Arguments
    /\ run = [pc |-> "lookup", at |-> 1, context |-> Unknown, counted |-> [s \in Sources |-> Unknown]]
    /\ sent = <<>> /\ audited = <<>> /\ report = None
    /\ budget = Budget /\ grown = [s \in Sources |-> 0]

World == UNCHANGED <<size, ratio, length, endpoint, arguments, budget, grown>>

\* --------------------------------------------------------------- the lookup
\* parse_context_length: of the model's entry; of the only entry, whatever it is
\* of; nothing if no field says it.
Listed == {Unknown, length} \cup Contexts
\* _context_length
Lookup(found) ==
    /\ run.pc = "lookup"
    /\ run' = [run EXCEPT !.pc = "count",
                 !.context = IF arguments.length # 0 THEN arguments.length
                             ELSE IF arguments.noModel THEN Unknown ELSE found]
    /\ World /\ UNCHANGED <<sent, audited, report>>
LookupFails ==
    /\ run.pc = "lookup" /\ arguments.length = 0 /\ ~arguments.noModel
    /\ run' = [run EXCEPT !.pc = "count"]
    /\ World /\ UNCHANGED <<sent, audited, report>>

\* ------------------------------------------------------------- the counting
\* count_prompt_tokens, before the post
MaySend == endpoint.trusted \/ endpoint.allowed
Post(s) ==
    /\ sent' = Append(sent, s)
    /\ audited' = IF endpoint.trusted THEN audited ELSE Append(audited, s)
Count(s) ==
    /\ run.pc = "count" /\ run.at <= Len(Names) /\ Names[run.at] = s
    /\ ~arguments.noModel /\ MaySend
    /\ Post(s) /\ run' = [run EXCEPT !.at = @ + 1, !.counted[s] = Real(s)]
    /\ World /\ UNCHANGED report
\* No connection, no answer in time, an error or an answer without the count.
CountFails(s) ==
    /\ run.pc = "count" /\ run.at <= Len(Names) /\ Names[run.at] = s
    /\ ~arguments.noModel /\ MaySend
    /\ Post(s) /\ run' = [run EXCEPT !.at = @ + 1]
    /\ World /\ UNCHANGED report
NotAsked(s) ==
    /\ run.pc = "count" /\ run.at <= Len(Names) /\ Names[run.at] = s
    /\ arguments.noModel \/ ~MaySend
    /\ run' = [run EXCEPT !.at = @ + 1]
    /\ World /\ UNCHANGED <<sent, audited, report>>

\* ------------------------------------------------------- the recommendation
\* round_up_budget
RoundUp(largest) == Ceil(largest * (100 + Headroom), 100 * RoundTo) * RoundTo
Counted == {s \in Sources : run.counted[s] # Unknown}
\* The largest ratio of the counted ones, compared as fractions.
Observed ==
    CHOOSE s \in Counted : \A t \in Counted : run.counted[t] * size[s] <= run.counted[s] * size[t]
\* recommend, its first loop: the tokens of a source and where they are from.
Tokens(s) ==
    IF s \in Counted THEN run.counted[s]
    ELSE IF Counted # {} THEN Ceil(size[s] * run.counted[Observed], size[Observed])
    ELSE Ceil(size[s] * Assumed, 100)
Needed(s) == Tokens(s) + Room + Predict
\* recommend, the hint for a source that would overflow: <<lowest, highest>>.
Hint(s, largest) == IF size[s] > largest THEN <<largest, size[s] - 1>> ELSE <<>>
\* recommend
Recommend ==
    LET excluded == {s \in Sources : run.context # Unknown /\ Needed(s) > run.context}
        included == Sources \ excluded
        largest == IF included = {} THEN 0 ELSE Largest({size[s] : s \in included})
        limit == IF included = {} THEN 0 ELSE RoundUp(largest)
        conflicts == {s \in excluded : included # {} /\ size[s] <= limit}
    IN [is |-> "report", budget |-> limit, excluded |-> excluded, conflicts |-> conflicts,
        counted |-> Counted, context |-> run.context, size |-> size,
        hints |-> [s \in conflicts |-> Hint(s, largest)],
        static |-> {s \in Sources : Static(s, limit)},
        sent |-> Cardinality(Counted), code |-> IF excluded = {} THEN 0 ELSE 1]
\* main, after the counts: the recommendation, paths_under_budget, the report.
Finish ==
    /\ run.pc = "count" /\ run.at > Len(Names)
    /\ report' = Recommend /\ run' = [run EXCEPT !.pc = "done"]
    /\ World /\ UNCHANGED <<sent, audited>>

\* ------------------------------------------------------------- what follows
\* The line is put in .env and the server restarted.
Adopt ==
    /\ run.pc = "done" /\ report.budget # 0 /\ budget # report.budget
    /\ budget' = report.budget
    /\ UNCHANGED <<size, ratio, length, endpoint, arguments, run, sent, audited, report, grown>>
Grow(s) ==
    /\ run.pc = "done" /\ grown[s] < MaxGrowth
    /\ grown' = [grown EXCEPT ![s] = @ + 1] /\ size' = [size EXCEPT ![s] = @ + Growth]
    /\ UNCHANGED <<ratio, length, endpoint, arguments, run, sent, audited, report, budget>>

Next ==
    \/ (\E found \in Listed : Lookup(found)) \/ LookupFails \/ Finish \/ Adopt
    \/ \E s \in Sources : Count(s) \/ CountFails(s) \/ NotAsked(s) \/ Grow(s)
Spec == Init /\ [][Next]_vars

TypeOK ==
    /\ size \in [Sources -> Nat] /\ ratio \in [Sources -> Ratios] /\ length \in Contexts
    /\ run.pc \in {"lookup", "count", "done"} /\ run.at \in 1 .. Len(Names) + 1
    /\ ToSet(sent) \subseteq Sources /\ ToSet(audited) \subseteq Sources
    /\ budget \in Nat /\ grown \in [Sources -> 0 .. MaxGrowth]

\* --------------------------------------------------------------- properties
Adopted == report # None /\ report.budget # 0 /\ budget = report.budget
Kept == Sources \ report.excluded

\* With the recommended budget every source that was said to fit keeps the
\* static path while it is no larger than the largest of them plus the headroom
\* (recommend, round_up_budget).
FittingStayStatic ==
    Adopted =>
        \A s \in Kept : \A t \in Kept :
            100 * size[s] <= (100 + Headroom) * report.size[t] => Static(s, budget)

\* As long as nothing has grown, the recommended budget makes no prompt longer
\* than the context unless the report warned of that source, did not know the
\* context, or could not have the source counted (recommend).
OverflowForetold ==
    (Adopted /\ \A s \in Sources : grown[s] = 0) =>
        \A s \in Sources : Overflows(s) =>
            \/ s \in report.conflicts \/ report.context = Unknown
            \/ s \notin report.counted \/ report.context # length

\* Every budget of the range a warning gives keeps the sources that fit on the
\* static path and the warned one off it; where it says that there is none,
\* there is none (recommend).
HintsWork ==
    report # None =>
        \A s \in report.conflicts :
            LET Good(limit) ==
                    /\ limit > 0 /\ report.size[s] > limit
                    /\ \A t \in Kept : report.size[t] <= limit
                limits == 1 .. report.budget + 1
            IN {b \in limits : Good(b)} =
                   IF report.hints[s] = <<>> THEN {} ELSE report.hints[s][1] .. report.hints[s][2]

\* A prefix, which is schema text, goes to an endpoint that is not trusted only
\* if the setting allows it, and then it is in the audit log before it goes;
\* with --no-model nothing goes anywhere.  No prefix is sent twice, and the
\* count of the report is never of more than was sent
\* (OpenAICompatibleClient.count_prompt_tokens).
SentAsAllowed ==
    /\ sent # <<>> => MaySend /\ ~arguments.noModel
    /\ ~endpoint.trusted => audited = sent
    /\ Cardinality(ToSet(sent)) = Len(sent)
    /\ report # None => report.counted \subseteq ToSet(sent) /\ report.sent <= Len(sent)

\* The exit code says whether every source fits, the paths the report shows are
\* those the server takes, and a source that fits by the counted tokens is not
\* left out (main, paths_under_budget).
ReportTrue ==
    report # None =>
        /\ report.code = 1 <=> \E s \in Sources : s \in report.excluded
        /\ (Adopted /\ size = report.size) => report.static = {s \in Sources : Static(s, budget)}
        /\ \A s \in report.counted \cap report.excluded :
             report.size = size => Real(s) + Room + Predict > report.context
BudgetSound == FittingStayStatic /\ OverflowForetold /\ HintsWork /\ SentAsAllowed /\ ReportTrue
=============================================================================
