---------------------------- MODULE MCOperators ----------------------------
(* Small instances of the tools of those who run the system.  They share  *)
(* no state: in a behaviour only the machine named by `part` moves, and   *)
(* its variables are the slots s1, s2, ... in the order of its `vars`.    *)
EXTENDS Naturals, Sequences, FiniteSets, SequencesExt

VARIABLES
    part,        \* the machine that moves in this behaviour
    s1, s2, s3, s4, s5, s6, s7, s8, s9, s10, s11, s12, s13, s14, s15   \* its state

\* What the column of the policies may hold: a ring, two with a generic word in
\* front, one behind it, another spelling, and a value that is not shown.
Value(text, arabic, fit) == [text |-> text, arabic |-> arabic, fit |-> fit]
Column == {Value(<<"b">>, FALSE, TRUE), Value(<<"h", "b">>, FALSE, TRUE), Value(<<"r", "b">>, FALSE, TRUE),
           Value(<<"b", "h">>, FALSE, TRUE), Value(<<"a">>, TRUE, TRUE), Value(<<"all">>, FALSE, TRUE)}

\* Turns of every kind, and how their sources are recorded.
TurnKinds ==
    {"answered", "corrected", "cached", "not_run", "asked", "refused", "empty", "declined", "down", "broken"}
TurnPlaces == {<<"m", "">>, <<"", "m">>, <<"", "">>}

\* A table of two schemas, and one of another source.
GuardedTables ==
    {[key |-> k.key, bare |-> k.bare, qual |-> k.qual, columns |-> <<"a", "b">>, source |-> k.source] :
        k \in {[key |-> "c", bare |-> "c", qual |-> <<"s">>, source |-> "m"],
               [key |-> "r", bare |-> "c", qual |-> <<"r">>, source |-> "m"],
               [key |-> "o", bare |-> "o", qual |-> <<>>, source |-> "n"]}}

\* Rows that differ by noise, and rows whose columns changed places.
Inexact(n) == [kind |-> "float", value |-> n]
FrameRows == {<<Inexact(0), Inexact(8)>>, <<Inexact(1), Inexact(0)>>, <<Inexact(8), Inexact(1)>>,
              <<Inexact(8)>>}

\* Words, tables of two sources, and what the configuration says of them.
Singles == {"orders", "order", "customers", "store", "staff", "1402", "gold", "price"}
AllWords == Singles \cup {"customer", "year", "ring"}
Asked == {<<a, b>> : a, b \in Singles} \cup
         {<<a, b, c>> : a \in {"order", "customers", "store"}, b, c \in Singles}
Singular == [w \in AllWords |-> CASE w = "orders" -> "order" [] w = "customers" -> "customer" [] OTHER -> w]
AlsoMeans == [w \in AllWords |-> IF w = "gold" THEN <<"ring">> ELSE <<>>]
States == [w \in AllWords |-> CASE w = "gold" -> {"Ring"} [] w = "1402" -> {"PersianYear"} [] OTHER -> {}]
Orders == <<"m", "Orders">>
Customer == <<"m", "Customer">>
Line == <<"m", "Line">>
Ring == <<"m", "Ring">>
Person == <<"h", "Customer">>
Salary == <<"h", "Salary">>
Shop == {Orders, Customer, Line, Ring, Person, Salary}
OwnersOf == [t \in Shop |-> IF t = Ring THEN {"m", "h"} ELSE {t[1]}]
KeywordsOf == [s \in {"m", "h"} |-> IF s = "m" THEN {<<"store">>, <<"order">>} ELSE {<<"staff">>}]
Weight(pairs) == [w \in AllWords |-> IF \E p \in pairs : p[1] = w
                                     THEN (CHOOSE p \in pairs : p[1] = w)[2] ELSE 0]
DescribedBy ==
    [t \in Shop |-> Weight(CASE t = Orders -> {<<"order", 3>>, <<"price", 1>>}
                             [] t = Salary -> {<<"staff", 4>>, <<"price", 2>>}
                             [] t = Line -> {<<"price", 3>>}
                             [] t = Customer -> {<<"customer", 2>>}
                             [] t = Person -> {<<"customer", 2>>, <<"staff", 1>>}
                             [] OTHER -> {<<"ring", 2>>})]
ColumnWords ==
    [t \in Shop |-> Weight(CASE t = Line -> {<<"price", 2>>} [] t = Ring -> {<<"gold", 1>>}
                             [] t = Orders -> {<<"year", 1>>} [] OTHER -> {})]
Judged ==
    LET Case(q, r, s) == [question |-> q, reads |-> r, source |-> s, status |-> "active"]
        all == {Case(<<"orders", "staff">>, {Orders}, "m"), Case(<<"customers">>, {<<"Customer">>}, "h"),
                Case(<<"staff", "price">>, {Salary, Person}, "k"),
                Case(<<"customers", "staff">>, {Person}, "h"), Case(<<"gold">>, {Ring, Orders}, "none")}
    IN {<<a, b, c>> : a, b, c \in all}
AnsweredLogs ==
    LET all == {[status |-> s, question |-> q, reads |-> r] :
                    s \in {"SUCCESS", "ERROR"}, q \in {<<"gold">>, <<"price">>, <<"gold", "orders">>},
                    r \in {{<<"Orders">>}, {<<"Ring">>}, {<<"Line">>, <<"Orders">>}}}
    IN {<<a, b>> : a, b \in all}

\* schema.yaml: tables that share a name, one of two sources, one whose qualifier
\* has two parts, one without columns; with all joins of known tables or none.
FileTable(k, d, c, u, s) ==
    [key |-> k, db |-> d, columns |-> c, units |-> u, flagged |-> {}, sources |-> s]
In(unit) == [c \in {"c"} |-> unit]
NoUnit == [c \in {} |-> ""]
TableA == FileTable(<<"s", "T">>, <<>>, {"c"}, In("rial"), <<"m">>)
TableB == FileTable(<<"r", "T">>, <<>>, {"c"}, NoUnit, <<"h">>)
TableU == FileTable(<<"U">>, <<"s">>, {"c", "d"}, In("none"), <<"m", "h">>)
TableV == FileTable(<<"U">>, <<"s">>, {"c", "d"}, In("rial"), <<"h">>)
TableW == FileTable(<<"W">>, <<"x", "s">>, {"c"}, NoUnit, <<>>)
TableE == FileTable(<<"E">>, <<>>, {}, NoUnit, <<"m">>)
TableD == FileTable(<<"s", "U">>, <<>>, {"c"}, NoUnit, <<>>)
FileTables == {TableA, TableB, TableU, TableV, TableW, TableE, TableD}
FileJoins == {[from |-> <<"s", "T">>, to |-> <<"U">>, nth |-> 1], [from |-> <<"U">>, to |-> <<"W">>, nth |-> 1],
              [from |-> <<"Q">>, to |-> <<"U">>, nth |-> 1]}
SchemaFiles ==
    UNION {LET keys == {t.key : t \in ToSet(tables)}
               ends == {r \in FileJoins : r.to \in keys}
           IN {[tables |-> tables, relations |-> j] :
                  j \in {<<>>, SetToSeq(ends), SetToSeq({r \in ends : r.from \in keys})}} :
              tables \in {<<TableA, TableB, TableU>>, <<TableA, TableU, TableW>>, <<TableB, TableV, TableW>>,
                          <<TableA, TableV>>, <<TableU, TableE, TableW>>, <<TableU, TableD>>, <<TableE, TableA>>,
                          <<TableA, TableB, TableV, TableW>>}}
SchemaDrafts ==
    {[tables |-> t, relations |-> <<>>] : t \in {<<TableA, TableU>>, <<TableU, TableD>>, <<TableB>>}}

\* Two databases with a name in two schemas, a staging table, one of the server
\* and one whose name is no key; keys that are declared or not.
OrderS == <<"s", "Order">>
CustS == <<"s", "Cust">>
CustT == <<"t", "Cust">>
LoadG == <<"g", "Load">>
LogSys == <<"sys", "Log">>
OddS == <<"s", "]">>
DraftShape ==
    [l \in {OrderS, CustS, CustT, LoadG, LogSys, OddS} |->
       CASE l = OrderS -> {"ID", "CustID", "BillCustID"} [] l \in {CustS, CustT} -> {"ID", "Name"} [] OTHER -> {"ID"}]
DraftFamily ==
    [p \in (DOMAIN DraftShape) \X {"ID", "CustID", "BillCustID", "Name"} |->
       IF p[2] = "Name" \/ p = <<CustT, "ID">> THEN "text" ELSE "number"]
DraftStems == [c \in {"CustID", "BillCustID"} |->
                 IF c = "CustID" THEN [whole |-> "Cust", ends |-> <<>>] ELSE [whole |-> "BillCust", ends |-> <<"Cust">>]]
Databases ==
    {[has |-> [s \in {"a", "b"} |-> IF s = "a" THEN a ELSE b], blind |-> blind,
      keys |-> [l \in DOMAIN DraftShape |-> IF l = CustS THEN key ELSE <<"ID">>], refers |-> refers] :
        a \in {DOMAIN DraftShape, {OrderS, CustT}, {CustS}, {OrderS, CustS, CustT}}, b \in {{CustS}, {OrderS, CustS, CustT}},
        blind \in {{}, {<<"a", CustT>>}}, key \in {<<"ID">>, <<>>, <<"ID", "Name">>},
        refers \in {{}, {[from |-> OrderS, column |-> "CustID", to |-> CustS, ref |-> "ID"]}}}
Plain == [url |-> FALSE, only |-> {}, include |-> {}, schemas |-> {}, names |-> {}, staging |-> FALSE,
          values |-> FALSE, dry |-> FALSE, dir |-> "draft"]
DraftCommands ==
    {Plain, [Plain EXCEPT !.only = {"b"}, !.values = TRUE], [Plain EXCEPT !.url = TRUE, !.schemas = {"t"}],
     [Plain EXCEPT !.include = {"s"}, !.staging = TRUE, !.dry = TRUE],
     [Plain EXCEPT !.staging = TRUE, !.names = {"Order"}, !.values = TRUE], [Plain EXCEPT !.dir = "project_config"]}

\* The databases of the wizard's tables: the name t becomes shared, a staging
\* table shares its name with one that is read, and a table is in both sources.
TableWorlds ==
    {[s \in {"a", "b"} |-> IF s = "a" THEN a[1] ELSE a[2]] :
        a \in {<<{<<"s", "t">>, <<"s", "u">>, <<"g", "u">>, <<"cdc", "t">>}, {<<"s", "u">>}>>,
               <<{<<"s", "t">>, <<"s", "u">>, <<"r", "t">>, <<"r", "tmp">>, <<"s", "tmp">>, <<"z", "t">>, <<"z", "v">>}, {<<"s", "t">>}>>}}
Silent == [include |-> {}, schemas |-> {}, staging |-> FALSE, asks |-> FALSE, fresh |-> FALSE]
TableCommands == {[Silent EXCEPT !.asks = TRUE], [Silent EXCEPT !.include = {"s", "r"}]}
OlderDraft == {[key |-> <<"t">>, schema |-> "", table |-> "t", sources |-> {}, full |-> TRUE, of |-> <<"s", "t">>]}

M == INSTANCE Migrate WITH
        source <- s1, target <- s2, recent <- s3, writes <- s4, onTarget <- s5,
        tool <- s6, runs <- s7, artefacts <- s8, moments <- s9,
        Tables <- <<"k", "v">>, Counted <- {"v"}, DdlCommits <- FALSE,
        KeepExport <- FALSE, MaxWrites <- 3, MaxRuns <- 2
\* Hand edits of two files; and two languages with a schema that changes.
H == INSTANCE Wizard WITH
        schema <- s1, live <- s2, dir <- s3, backups <- s4, disk <- s5, run <- s6,
        runs <- s7, edits <- s8, stood <- s9,
        Output <- <<"entities", "examples">>, Langs <- {"en"}, MaxSchemas <- 1,
        MaxRuns <- 2, MaxEdits <- 1
L == INSTANCE Wizard WITH
        schema <- s1, live <- s2, dir <- s3, backups <- s4, disk <- s5, run <- s6,
        runs <- s7, edits <- s8, stood <- s9,
        Output <- <<"examples">>, Langs <- {"en", "fa"}, MaxSchemas <- 2, MaxRuns <- 2,
        MaxEdits <- 0
S == INSTANCE SchemaSync WITH
        db <- s1, file <- s2, synced <- s3, tool <- s4, baseline <- s5, drift <- s6,
        changes <- s7, edits <- s8, runs <- s9, seen <- s10,
        Order <- <<"A", "B">>, Tables <- {"t"}, Columns <- {"c", "d"},
        Types <- {"int", "text"}, Related <- {}, Excluded <- {}, MaxChanges <- 1,
        MaxEdits <- 1, MaxRuns <- 3
E == INSTANCE Evaluation WITH
        warehouse <- s1, golden <- s2, file <- s3, run <- s4, memo <- s5, runs <- s6,
        Cases <- <<"c1", "c2">>, Files <- {"f"}, MaxDrop <- 0, SameFile <- FALSE,
        MaxChanges <- 1, MaxRuns <- 2
G == INSTANCE GoldenSet WITH
        turns <- s1, gone <- s2, confirmed <- s3, candidates <- s4, sheet <- s5,
        golden <- s6, job <- s7, database <- s8, jobs <- s9, reviews <- s10,
        vouched <- s11,
        Questions <- {"q"}, MaxTurns <- 2, MaxJobs <- 5, MaxReviews <- 1,
        MaxChanges <- 1
D == INSTANCE Descriptions WITH
        schema <- s1, output <- s2, run <- s3, runs <- s4, edits <- s5, base <- s6,
        found <- s7,
        Order <- <<"A", "B">>, Items <- {"t", "c"}, MaxRuns <- 2, MaxEdits <- 2
R == INSTANCE PolicyDrafts WITH
        warehouse <- s1, live <- s2, draft <- s3, run <- s4, runs <- s5, edits <- s6,
        complete <- s7,
        Stored <- Column, Default <- <<"all">>, Generic <- {"h", "r"}, MaxValues <- 3,
        MaxRuns <- 2, MaxEdits <- 2
A == INSTANCE DataSources WITH
        file <- s1, schema <- s2, databases <- s3, tool <- s4, proposal <- s5,
        recorder <- s6, server <- s7, edits <- s8, jobs <- s9,
        Names <- <<"m", "s">>, Tables <- {"t"}, Patterns <- {"p"}, MaxEdits <- 1,
        MaxJobs <- 2
V == INSTANCE Deployment WITH
        deploy <- s1, run <- s2, cards <- s3, changes <- s4,
        Sources <- <<"m", "s">>, MaxChanges <- 2
B == INSTANCE Guard WITH
        schema <- s1, target <- s2, asked <- s3, sql <- s4, at <- s5, reason <- s6,
        injected <- s7,
        Entries <- GuardedTables, Dialects <- {"tsql", "pg"}, DefaultTop <- 9,
        Limits <- {1, 2}, InnerLimits <- {0, 1, 2}
\* The card of the keys; and one that is not on the timer beside one with a form.
K == INSTANCE AdminPanel WITH
        data <- s1, page <- s2, cards <- s3, banner <- s4, kept <- s5, flows <- s6,
        reveal <- s7, clean <- s8, steps <- s9, fails <- s10,
        Cards <- {"keys"}, Keys <- {"full", "sec"}, Addresses <- {"api"},
        Hasty <- FALSE, MaxFlows <- 2, MaxSteps <- 3, MaxFails <- 0
F == INSTANCE AdminPanel WITH
        data <- s1, page <- s2, cards <- s3, banner <- s4, kept <- s5, flows <- s6,
        reveal <- s7, clean <- s8, steps <- s9, fails <- s10,
        Cards <- {"health", "feedback"}, Keys <- {"full", "none"},
        Addresses <- {"api", "other", "down"}, Hasty <- FALSE, MaxFlows <- 3,
        MaxSteps <- 2, MaxFails <- 1
J == INSTANCE Frames WITH
        reference <- s1, answer <- s2, cap <- s3, verdict <- s4,
        Tolerance <- 4, Names <- <<"p", "q">>,
        Headers <- {<<"p", "q">>, <<"q", "p">>, <<"p">>}, Rows <- FrameRows,
        MaxRows <- 2, Caps <- {0, 1}, MaxLen <- 3
\* The halves of a golden file that is edited; and two rounds of a smaller one.
N == INSTANCE Rounds WITH
        golden <- s1, halves <- s2, job <- s3, rounds <- s4, comparison <- s5,
        probe <- s6, warehouse <- s7, edits <- s8, splits <- s9, firsts <- s10,
        Ids <- {1, 2, 3}, Tags <- {"t", "u"}, Kinds <- {"bundle"}, EditsInRun <- FALSE,
        Crashes <- FALSE, Repeats <- 2, MaxEdits <- 2, MaxSplits <- 2, MaxRounds <- 0
O == INSTANCE Rounds WITH
        golden <- s1, halves <- s2, job <- s3, rounds <- s4, comparison <- s5,
        probe <- s6, warehouse <- s7, edits <- s8, splits <- s9, firsts <- s10,
        Ids <- {1, 2}, Tags <- {"t"}, Kinds <- {"bundle"}, EditsInRun <- FALSE,
        Crashes <- TRUE, Repeats <- 0, MaxEdits <- 1, MaxSplits <- 1, MaxRounds <- 2
\* The files move under a reader; and two turns of every kind are counted.
T == INSTANCE AuditTrail WITH
        clock <- s1, files <- s2, writer <- s3, turns <- s4, failures <- s5,
        written <- s6, hits <- s7, reader <- s8, confirmed <- s9, flagged <- s10,
        reads <- s11,
        Kinds <- {"answered", "declined"}, Placements <- {<<"m", "">>},
        Principals <- {""}, Backups <- 2, PerFile <- 1, Zone <- 0, Days <- 0,
        Doubles <- FALSE, RenameFails <- FALSE, MaxTurns <- 4, MaxFails <- 1,
        MaxHits <- 0, MaxReads <- 1, MaxClock <- 0
C == INSTANCE AuditTrail WITH
        clock <- s1, files <- s2, writer <- s3, turns <- s4, failures <- s5,
        written <- s6, hits <- s7, reader <- s8, confirmed <- s9, flagged <- s10,
        reads <- s11,
        Kinds <- TurnKinds, Placements <- TurnPlaces, Principals <- {"", "a"},
        Backups <- 0, PerFile <- 2, Zone <- 0, Days <- 0, Doubles <- FALSE,
        RenameFails <- FALSE, MaxTurns <- 2, MaxFails <- 0, MaxHits <- 1, MaxReads <- 2,
        MaxClock <- 1
\* Two sources with a table name in common; and one source whose tables have bare names, as the script of the misses expects.
W == INSTANCE Retrieval WITH
        question <- s1, previous <- s2, named <- s3, ranked <- s4, candidates <- s5,
        entities <- s6, facts <- s7, joined <- s8, filters <- s9, resolved <- s10,
        unavailable <- s11, selection <- s12, turns <- s13, report <- s14,
        misses <- s15,
        Questions <- Asked, Stem <- Singular, Synonyms <- AlsoMeans, Years <- {"1402"},
        YearWords <- <<"year">>, Says <- States,
        Names <- <<Customer, Line, Orders, Ring, Person, Salary>>, Keys <- Shop,
        Sources <- <<"m", "h">>, Owners <- OwnersOf, Keywords <- KeywordsOf,
        Entities <- <<<<<<"Customer">>, {<<"customer">>}>>, <<Ring, {<<"ring">>}>>>>,
        Patterns <- <<<<<<"Orders">>, {<<"order">>}>>>>,
        FactTables <- {<<"Orders">>, <<"Salary">>},
        Signals <- <<<<<<"Line">>, {<<"order", "price">>}>>>>, Describes <- DescribedBy,
        Columns <- ColumnWords,
        Joins <- {{Orders, Customer}, {Orders, Line}, {Person, Salary}, {Line, Ring}},
        TopN <- 4, MinScore <- 1, Forced <- 100, ExtraTables <- 2, ExtraRatio <- 50,
        Prune <- TRUE, PruneRatio <- 60, Corroborate <- TRUE, Hops <- 1, HubDegree <- 2,
        Tokens <- [t \in Shop |-> 2], Budget <- 6, Cases <- Judged, Logged <- {},
        MaxTurns <- 1
X == INSTANCE Retrieval WITH
        question <- s1, previous <- s2, named <- s3, ranked <- s4, candidates <- s5,
        entities <- s6, facts <- s7, joined <- s8, filters <- s9, resolved <- s10,
        unavailable <- s11, selection <- s12, turns <- s13, report <- s14,
        misses <- s15,
        Questions <- {<<"gold", "orders">>, <<"gold", "price">>, <<"price">>},
        Stem <- Singular, Synonyms <- AlsoMeans, Years <- {"1402"},
        YearWords <- <<"year">>, Says <- States,
        Names <- <<<<"Line">>, <<"Orders">>, <<"Ring">>>>,
        Keys <- {<<"Line">>, <<"Orders">>, <<"Ring">>}, Sources <- <<"m">>,
        Owners <- [t \in {<<"Line">>, <<"Orders">>, <<"Ring">>} |-> {"m"}],
        Keywords <- KeywordsOf,
        Entities <- <<<<<<"Ring">>, {<<"ring">>, <<"gold">>}>>>>,
        Patterns <- <<<<<<"Orders">>, {<<"order">>}>>>>, FactTables <- {<<"Orders">>},
        Signals <- <<>>,
        Describes <- [t \in {<<"Line">>, <<"Orders">>, <<"Ring">>} |-> DescribedBy[<<"m">> \o t]],
        Columns <- [t \in {<<"Line">>, <<"Orders">>, <<"Ring">>} |-> ColumnWords[<<"m">> \o t]],
        Joins <- {{<<"Line">>, <<"Orders">>}}, TopN <- 1, MinScore <- 1, Forced <- 100,
        ExtraTables <- 2, ExtraRatio <- 50, Prune <- TRUE, PruneRatio <- 60,
        Corroborate <- FALSE, Hops <- 1, HubDegree <- 2,
        Tokens <- [t \in {<<"Line">>, <<"Orders">>, <<"Ring">>} |-> 2], Budget <- 2,
        Cases <- {}, Logged <- AnsweredLogs, MaxTurns <- 1
Y == INSTANCE Registry WITH
        file <- s1, cache <- s2, bound <- s3, guarded <- s4, prefixes <- s5,
        preview <- s6, shown <- s7, asked <- s8, texts <- s9,
        Fold <- [n \in {"s", "r", "x", "T", "U", "W", "E", "Q", "c", "d"} |-> n],
        Files <- SchemaFiles, Proposed <- SchemaDrafts, Sources <- <<"m", "h">>,
        Examples <- <<[id |-> 1, reads |-> {<<"s", "T">>}], [id |-> 2, reads |-> {<<"W">>, <<"U">>}], [id |-> 3, reads |-> {<<"r", "T">>}]>>,
        Size <- [k \in {t.key : t \in FileTables} |-> 1], Budget <- 2, MaxTexts <- 2
U == INSTANCE Drafting WITH
        db <- s1, run <- s2, made <- s3, dir <- s4, runs <- s5, asked <- s6,
        Order <- <<"a", "b">>, Worlds <- Databases, Shape <- DraftShape,
        Family <- DraftFamily, Stems <- DraftStems, Commands <- DraftCommands,
        Everywhere <- [schemas |-> {}, tables |-> {}],
        Source <- [s \in {"a", "b"} |-> [schemas |-> {},
        tables |-> IF s = "b" THEN {<<"s", "Order">>} ELSE {}, kept |-> {}]],
        Staging <- [schemas |-> {"g"}, names |-> {}], System <- {"sys"},
        Unwritable <- {"]"}, Protected <- {"project_config"}, MaxRuns <- 2
Q == INSTANCE PromptBudget WITH
        size <- s1, ratio <- s2, length <- s3, endpoint <- s4, arguments <- s5,
        run <- s6, sent <- s7, audited <- s8, report <- s9, budget <- s10, grown <- s11,
        Names <- <<"m", "h", "w">>, Estimates <- {4, 5, 8}, Ratios <- {100, 150},
        Contexts <- {11},
        Endpoints <- {[trusted |-> t, allowed |-> ~t] : t \in BOOLEAN} \cup {[trusted |-> FALSE, allowed |-> FALSE]},
        Arguments <- {[noModel |-> FALSE, length |-> 0], [noModel |-> TRUE, length |-> 10]},
        Budget <- 6, Room <- 2, Predict <- 1, Headroom <- 20, RoundTo <- 2,
        Assumed <- 115, Growth <- 1, MaxGrowth <- 1
Z == INSTANCE WizardTables WITH
        db <- s1, recorded <- s2, dir <- s3, run <- s4, torn <- s5, runs <- s6,
        drifts <- s7, edits <- s8,
        Order <- <<"a", "b">>, Schemas <- {"s", "r", "z", "g", "cdc"},
        Worlds <- TableWorlds, Refers <- {[from |-> <<"s", "u">>, to |-> <<"s", "t">>]},
        Guesses <- {[from |-> <<"r", "t">>, to |-> <<"s", "u">>]},
        Facts <- {<<"s", "u">>, <<"s", "t">>},
        Source <- [s \in {"a", "b"} |-> [schemas |-> {},
        tables |-> IF s = "a" THEN {<<"z", "t">>} ELSE {}, kept |-> {}]],
        Staging <- [schemas |-> {"g"}, names |-> {"tmp"}], System <- {"cdc"},
        Commands <- TableCommands, Answers <- {{}, {"r"}}, Leaves <- {{}, {"t"}},
        Own <- <<"mine">>, Bare <- OlderDraft, Few <- 10, MaxRuns <- 2, MaxDrifts <- 1,
        MaxEdits <- 1

\* A slot the machine does not use.
Unused(slot) == slot = 0

MCInit ==
    \/ /\ part = "move" /\ M!Init /\ Unused(s10) /\ Unused(s11) /\ Unused(s12) /\ Unused(s13) /\ Unused(s14) /\ Unused(s15)
    \/ /\ part = "hand" /\ H!Init /\ Unused(s10) /\ Unused(s11) /\ Unused(s12) /\ Unused(s13) /\ Unused(s14) /\ Unused(s15)
    \/ /\ part = "language" /\ L!Init /\ Unused(s10) /\ Unused(s11) /\ Unused(s12) /\ Unused(s13) /\ Unused(s14) /\ Unused(s15)
    \/ /\ part = "sync" /\ S!Init /\ Unused(s11) /\ Unused(s12) /\ Unused(s13) /\ Unused(s14) /\ Unused(s15)
       \* Columns and types are interchangeable.
       /\ s1["A"]["t"].col["c"] = "int" /\ ~s2["t"].col["d"].listed
    \/ /\ part = "judge" /\ E!Init /\ Unused(s7) /\ Unused(s8) /\ Unused(s9) /\ Unused(s10) /\ Unused(s11) /\ Unused(s12) /\ Unused(s13) /\ Unused(s14) /\ Unused(s15)
    \/ /\ part = "harvest" /\ G!Init /\ Unused(s12) /\ Unused(s13) /\ Unused(s14) /\ Unused(s15)
    \/ /\ part = "describe" /\ D!Init /\ Unused(s8) /\ Unused(s9) /\ Unused(s10) /\ Unused(s11) /\ Unused(s12) /\ Unused(s13) /\ Unused(s14) /\ Unused(s15)
    \/ /\ part = "policy" /\ R!Init /\ Unused(s8) /\ Unused(s9) /\ Unused(s10) /\ Unused(s11) /\ Unused(s12) /\ Unused(s13) /\ Unused(s14) /\ Unused(s15)
    \/ /\ part = "place" /\ A!Init /\ Unused(s10) /\ Unused(s11) /\ Unused(s12) /\ Unused(s13) /\ Unused(s14) /\ Unused(s15)
    \/ /\ part = "deploy" /\ V!Init /\ Unused(s5) /\ Unused(s6) /\ Unused(s7) /\ Unused(s8) /\ Unused(s9) /\ Unused(s10) /\ Unused(s11) /\ Unused(s12) /\ Unused(s13) /\ Unused(s14) /\ Unused(s15)
    \/ /\ part = "guard" /\ B!Init /\ Unused(s8) /\ Unused(s9) /\ Unused(s10) /\ Unused(s11) /\ Unused(s12) /\ Unused(s13) /\ Unused(s14) /\ Unused(s15)
    \/ /\ part = "keys card" /\ K!Init /\ Unused(s11) /\ Unused(s12) /\ Unused(s13) /\ Unused(s14) /\ Unused(s15)
    \/ /\ part = "panel" /\ F!Init /\ Unused(s11) /\ Unused(s12) /\ Unused(s13) /\ Unused(s14) /\ Unused(s15)
    \/ /\ part = "frames" /\ J!Init /\ Unused(s5) /\ Unused(s6) /\ Unused(s7) /\ Unused(s8) /\ Unused(s9) /\ Unused(s10) /\ Unused(s11) /\ Unused(s12) /\ Unused(s13) /\ Unused(s14) /\ Unused(s15)
    \/ /\ part = "split" /\ N!Init /\ Unused(s11) /\ Unused(s12) /\ Unused(s13) /\ Unused(s14) /\ Unused(s15)
    \/ /\ part = "rounds" /\ O!Init /\ Unused(s11) /\ Unused(s12) /\ Unused(s13) /\ Unused(s14) /\ Unused(s15)
    \/ /\ part = "trail" /\ T!Init /\ Unused(s12) /\ Unused(s13) /\ Unused(s14) /\ Unused(s15)
    \/ /\ part = "figures" /\ C!Init /\ Unused(s12) /\ Unused(s13) /\ Unused(s14) /\ Unused(s15)
    \/ /\ part = "retrieval" /\ W!Init
    \/ /\ part = "misses" /\ X!Init
    \/ /\ part = "schema text" /\ Y!Init /\ Unused(s10) /\ Unused(s11) /\ Unused(s12) /\ Unused(s13) /\ Unused(s14) /\ Unused(s15)
    \/ /\ part = "first drafts" /\ U!Init /\ Unused(s7) /\ Unused(s8) /\ Unused(s9) /\ Unused(s10) /\ Unused(s11) /\ Unused(s12) /\ Unused(s13) /\ Unused(s14) /\ Unused(s15)
    \/ /\ part = "budget" /\ Q!Init /\ Unused(s12) /\ Unused(s13) /\ Unused(s14) /\ Unused(s15)
    \/ /\ part = "tables" /\ Z!Init /\ Unused(s9) /\ Unused(s10) /\ Unused(s11) /\ Unused(s12) /\ Unused(s13) /\ Unused(s14) /\ Unused(s15)

MCNext ==
    /\ UNCHANGED part
    /\ \/ /\ part = "move" /\ M!Next /\ UNCHANGED <<s10, s11, s12, s13, s14, s15>>
       \/ /\ part = "hand" /\ H!Next /\ UNCHANGED <<s10, s11, s12, s13, s14, s15>>
       \/ /\ part = "language" /\ L!Next /\ UNCHANGED <<s10, s11, s12, s13, s14, s15>>
       \/ /\ part = "sync" /\ S!Next /\ UNCHANGED <<s11, s12, s13, s14, s15>>
          \* Three runs, or two and an edit.
          /\ s9' + s8' <= 3
       \/ /\ part = "judge" /\ E!Next /\ UNCHANGED <<s7, s8, s9, s10, s11, s12, s13, s14, s15>>
       \/ /\ part = "harvest" /\ G!Next /\ UNCHANGED <<s12, s13, s14, s15>>
          \* The first turn did not fail, one flag is promoted, one record is lost, and the
          \* data change under a verify.
          /\ \A i \in DOMAIN s1' :
                s1'[i].outcome \in {"success", "out_of_scope"} \cup (IF i = 1 THEN {} ELSE {"error"})
          /\ s2' <= 1 /\ \A c \in s6' : c.of = "feedback" => c.turn = 1
          /\ s8' # s8 => s7.is = "verify"
       \/ /\ part = "describe" /\ D!Next /\ UNCHANGED <<s8, s9, s10, s11, s12, s13, s14, s15>>
       \/ /\ part = "policy" /\ R!Next /\ UNCHANGED <<s8, s9, s10, s11, s12, s13, s14, s15>>
       \/ /\ part = "place" /\ A!Next /\ UNCHANGED <<s10, s11, s12, s13, s14, s15>>
          \* A source with unusual fields is written before any tool runs, for one placement
          \* of the table.
          /\ \/ \A n \in DOMAIN s1'.sources :
                   s1'.sources[n].set \in {A!Login, {"url_env"}} /\ ~s1'.sources[n].mixed
             \/ s3["m"] = {"t"} /\ s3["s"] = {} /\ s2["t"] = {} /\ (s8' # s8 => s9 = 0)
       \/ /\ part = "deploy" /\ V!Next /\ UNCHANGED <<s5, s6, s7, s8, s9, s10, s11, s12, s13, s14, s15>>
          \* During a run one thing changes, of a deployment that was in order; the panel
          \* looks at one that had one change.
          /\ (s2.at = "checking" /\ s4' # s4) => s4 = 0
          /\ (\E kind \in DOMAIN s3' : s3'[kind] # V!Empty) => (s2' = V!Idle /\ s4' <= 1)
       \/ /\ part = "guard" /\ B!Next /\ UNCHANGED <<s8, s9, s10, s11, s12, s13, s14, s15>>
       \/ /\ part = "keys card" /\ K!Next /\ UNCHANGED <<s11, s12, s13, s14, s15>>
       \/ /\ part = "panel" /\ F!Next /\ UNCHANGED <<s11, s12, s13, s14, s15>>
          \* A call that times out is not followed by a second step.
          /\ s10' = 0 \/ s9' <= 1
       \/ /\ part = "frames" /\ J!Next /\ UNCHANGED <<s5, s6, s7, s8, s9, s10, s11, s12, s13, s14, s15>>
       \/ /\ part = "split" /\ N!Next /\ UNCHANGED <<s11, s12, s13, s14, s15>>
          \* A probe is of the file as it was.
          /\ s6' # s6 => (s8 = 0 /\ s9 = 0)
          /\ s8' > s8 => s6.outcomes = <<>>
       \/ /\ part = "rounds" /\ O!Next /\ UNCHANGED <<s11, s12, s13, s14, s15>>
          \* The split comes first, an edit between the rounds, the comparison last; the first
          \* round is the production pipeline's, and the second case has two outcomes.
          /\ s8' # s8 => Len(s4) = 1
          /\ s5.is = "none" /\ (s2' # s2 => (s4 = <<>> /\ s3'.is # "round"))
          /\ s3'.is = "round" => /\ s3'.only \in {{}, {1}}
                                  /\ s4 = <<>> => s3'.pipeline = "production"
          /\ s4' # s4 => \A i \in DOMAIN s3.cases :
                i = 1 \/ s4'[Len(s4')].outcome[i].diagnosed = "match"
                      \/ s4'[Len(s4')].outcome[i].status = "guard_rejected"
       \/ /\ part = "trail" /\ T!Next /\ UNCHANGED <<s12, s13, s14, s15>>
       \/ /\ part = "figures" /\ C!Next /\ UNCHANGED <<s12, s13, s14, s15>>
          \* The clock moves between the turns; then a lookup of the first, then the report.
          /\ s1' # s1 => s4 = 1 /\ s3 = C!Idle
          /\ s7' # s7 => s4 = 2 /\ s11 = 0
          /\ s4' # s4 => s4 = 0 \/ (s3'.record.source = "m" /\ s3'.record.principal = "a")
          /\ s8' # s8 => s4 = 2 /\ s3 = C!Idle
          /\ s11' # s11 => IF s11 = 1 THEN s8'.purpose.is = "report"
                               ELSE s8'.purpose.is # "report" /\ s8'.purpose.turn = 1
       \/ /\ part = "retrieval" /\ W!Next
       \/ /\ part = "misses" /\ X!Next
       \/ /\ part = "schema text" /\ Y!Next /\ UNCHANGED <<s10, s11, s12, s13, s14, s15>>
       \/ /\ part = "first drafts" /\ U!Next /\ UNCHANGED <<s7, s8, s9, s10, s11, s12, s13, s14, s15>>
       \/ /\ part = "budget" /\ Q!Next /\ UNCHANGED <<s12, s13, s14, s15>>
       \/ /\ part = "tables" /\ Z!Next /\ UNCHANGED <<s9, s10, s11, s12, s13, s14, s15>>
          \* Either the databases change between the runs or a person edits the files.
          /\ s7' + s8' <= 1

MCSpec == MCInit /\ [][MCNext]_<<part, s1, s2, s3, s4, s5, s6, s7, s8, s9, s10, s11, s12, s13, s14, s15>>

MCTypeOK ==
    CASE part = "move" -> M!TypeOK
      [] part = "hand" -> H!TypeOK
      [] part = "language" -> L!TypeOK
      [] part = "sync" -> S!TypeOK
      [] part = "judge" -> E!TypeOK
      [] part = "harvest" -> G!TypeOK
      [] part = "describe" -> D!TypeOK
      [] part = "policy" -> R!TypeOK
      [] part = "place" -> A!TypeOK
      [] part = "deploy" -> V!TypeOK
      [] part = "guard" -> B!TypeOK
      [] part = "keys card" -> K!TypeOK
      [] part = "panel" -> F!TypeOK
      [] part = "frames" -> J!TypeOK
      [] part = "split" -> N!TypeOK
      [] part = "rounds" -> O!TypeOK
      [] part = "trail" -> T!TypeOK
      [] part = "figures" -> C!TypeOK
      [] part = "retrieval" -> W!TypeOK
      [] part = "misses" -> X!TypeOK
      [] part = "schema text" -> Y!TypeOK
      [] part = "first drafts" -> U!TypeOK
      [] part = "budget" -> Q!TypeOK
      [] part = "tables" -> Z!TypeOK

\* The properties of the machines, by the names they have there.
QuestionSound ==
    /\ part = "guard" => B!GuardSound
    /\ part = "retrieval" => W!RetrievalSound
    /\ part = "misses" => X!RetrievalSound
    /\ part = "budget" => Q!BudgetSound
SetupSound ==
    /\ part = "move" => M!MigrationSound
    /\ part = "hand" => H!WizardSound
    /\ part = "language" => L!WizardSound
    /\ part = "policy" => R!PolicySound
    /\ part = "place" => A!SourcesSound
    /\ part = "deploy" => V!DeploymentSound
    /\ part = "keys card" => K!PanelSound
    /\ part = "panel" => F!PanelSound
    /\ part = "tables" => Z!TablesSound
SchemaSound ==
    /\ part = "sync" => S!SchemaSound
    /\ part = "describe" => D!DescriptionsSound
    /\ part = "schema text" => Y!RegistrySound
    /\ part = "first drafts" => U!DraftingSound
GateSound ==
    /\ part = "judge" => E!EvaluationSound
    /\ part = "harvest" => G!GoldenSound
    /\ part = "frames" => J!FramesSound
    /\ part = "split" => N!RoundsSound
    /\ part = "rounds" => O!RoundsSound
    /\ part = "trail" => T!TrailSound
    /\ part = "figures" => C!TrailSound
=============================================================================
