-------------------------- MODULE GenerationProofs --------------------------
(***************************************************************************)
(* Proofs about Generation, for every set of drivers, chain of backends,   *)
(* ranking of sources, correction budget and set of filters.               *)
(***************************************************************************)
EXTENDS Generation, TLAPS

(***************************************************************************)
(* The inductive invariant.                                                *)
(***************************************************************************)
\* There is a statement wherever the code looks at one, and a statement that
\* waits for its correction is one the value check held back, once.
StatementAtHand ==
    /\ pc \in {"guard", "filters", "spelling", "values", "execute"} => cand # None
    /\ value => orig # None /\ pc \in {"call", "failed", "declined", "guard", "done"}
    /\ orig # None => checked
    /\ value /\ pc = "done" => result.kind = "answered"
    /\ result.kind = "answered" => result.stmt # None /\ pc = "done"

\* Every round so far has cost one call, and the round that has not yet asked none.
CallsCounted ==
    /\ calls <= round + (IF pc = "round" THEN 0 ELSE 1) + extra + (IF fell THEN 1 ELSE 0)
    /\ extra # 0 => checked

\* A statement past the guard is one it accepted.
PastGuardAllowed ==
    /\ pc \in {"filters", "spelling", "values", "execute"} => cand \in allowed
    /\ orig # None => orig \in allowed

\* Where a statement that was held back can be.
HeldBackSomewhere ==
    orig # None =>
        \/ value
        \/ pc = "execute" /\ cand = orig
        \/ orig \in ran
        \/ result.kind = "answered"

IInv ==
    /\ TypeOK /\ StatementAtHand /\ CallsCounted
    /\ PastGuardAllowed /\ RunsOnlyAllowed /\ RemoteGoverned
    /\ FiltersReported /\ HeldBackSomewhere

-----------------------------------------------------------------------------
(* Lemmas about the operators.                                             *)

\* The candidates behind a source are sources.
LEMMA AfterAreSources == \A s \in Sources : After(s) \subseteq Sources
BY CandidatesAssumption DEF After, Sources

\* Respelling a statement gives a statement that misses the same filters.
LEMMA RespelledIsStatement ==
    ASSUME NEW s \in Statement
    PROVE  Respelled(s) \in Statement /\ Respelled(s).missing = s.missing
BY DEF Respelled, Statement

\* A retry with a statement at hand either ends the request with the kind it
\* was given or uses up one of the rounds that are left, with corrections that
\* talk about sources.
LEMMA RetryEffect ==
    ASSUME TypeOK, cand # None, NEW kind, NEW stmt,
           NEW q \in Quote \cup {None}, Retry(kind, stmt, q)
    PROVE  \/ /\ result' = [kind |-> kind, stmt |-> stmt, warned |-> {}]
              /\ pc' = "done" /\ UNCHANGED <<round, notes>>
           \/ /\ round' = round + 1 /\ round' \in 0 .. MaxCorrections
              /\ notes' \subseteq Note
              /\ pc' = "round" /\ UNCHANGED result
<1> DEFINE note == [failed |-> This, quoted |-> IF q = None THEN This ELSE q]
<1>1. This \in Quote
  BY DEF This, Quote, TypeOK, Statement
<1>2. note \in Note
  BY <1>1 DEF Note
<1>3. CASE LastRound
  BY <1>3 DEF Retry, Finish
<1>4. CASE ~LastRound
  <2>1. /\ round' = round + 1
        /\ notes' = {note} \cup (IF engine = "agent" THEN notes ELSE {})
        /\ pc' = "round" /\ UNCHANGED result
    BY <1>4 DEF Retry
  <2>2. notes' \subseteq Note
    BY <2>1, <1>2 DEF TypeOK
  <2>3. round # MaxCorrections
    BY <1>4 DEF LastRound
  <2>4. round' \in 0 .. MaxCorrections
    BY <2>1, <2>3, MaxCorrectionsAssumption DEF TypeOK
  <2> QED
    BY <2>1, <2>2, <2>4
<1> QED
  BY <1>3, <1>4

\* The value round is asked with the prompt of a source and one more correction.
LEMMA ValuePromptIsPrompt ==
    ASSUME TypeOK, cand # None
    PROVE  ValuePrompt \in Prompt
<1> DEFINE note == [failed |-> This, quoted |-> This]
<1>1. note \in Note
  BY DEF This, Quote, Note, TypeOK, Statement
<1>2. /\ base \in Sources /\ notes \cup {note} \subseteq Note
      /\ gen.prefix \in Sources /\ gen.notes \cup {note} \subseteq Note
  BY <1>1 DEF TypeOK, Prompt
<1> HIDE DEF note
<1>3. /\ [prefix |-> base, notes |-> notes \cup {note}] \in Prompt
      /\ [prefix |-> gen.prefix, notes |-> gen.notes \cup {note}] \in Prompt
  BY <1>2 DEF Prompt
<1> QED
  BY <1>3 DEF ValuePrompt, note

\* The initial state satisfies the invariant.
LEMMA InitInv == Init => IInv
<1> SUFFICES ASSUME Init PROVE IInv
  OBVIOUS
<1>1. Candidates[1] \in Sources /\ 1 \in DOMAIN Chain
  BY CandidatesAssumption, ChainAssumption DEF Sources
<1>2. [prefix |-> Candidates[1], notes |-> {}] \in Prompt
  BY <1>1 DEF Prompt
<1>3. NoResult \in [kind: {"none", "sql", "answered", "rejected", "error"},
                   stmt: Statement \cup {None}, warned: SUBSET Filters]
  BY DEF NoResult
<1>4. TypeOK
  <2>1. engine \in AllEngines /\ pc \in Positions
    BY EnginesAssumption DEF Init, Positions
  <2>2. round \in 0 .. MaxCorrections /\ extra \in 0 .. 1 /\ calls \in Nat
    BY MaxCorrectionsAssumption DEF Init
  <2>3. value \in BOOLEAN /\ fell \in BOOLEAN /\ nudged \in BOOLEAN /\ checked \in BOOLEAN
    BY DEF Init
  <2>4. /\ src \in Sources /\ base \in Sources /\ notes \subseteq Note
        /\ gen \in Prompt /\ prompt \in Prompt /\ link \in DOMAIN Chain
    BY <1>1, <1>2 DEF Init
  <2>5. /\ kept \in Quote \cup {None}
        /\ cand \in Statement \cup {None} /\ orig \in Statement \cup {None}
        /\ result \in [kind: {"none", "sql", "answered", "rejected", "error"},
                       stmt: Statement \cup {None}, warned: SUBSET Filters]
        /\ sent \subseteq [backend: Backends, prompt: Prompt, src: Sources]
        /\ allowed \subseteq Statement /\ ran \subseteq Statement
    BY <1>3 DEF Init
  <2> QED
    BY <2>1, <2>2, <2>3, <2>4, <2>5 DEF TypeOK
<1>5. StatementAtHand /\ CallsCounted /\ PastGuardAllowed /\ HeldBackSomewhere
  BY DEF Init, StatementAtHand, CallsCounted, PastGuardAllowed, HeldBackSomewhere,
         NoResult
<1>6. RunsOnlyAllowed /\ RemoteGoverned /\ FiltersReported
  BY DEF Init, RunsOnlyAllowed, RemoteGoverned, FiltersReported, NoResult
<1> QED
  BY <1>4, <1>5, <1>6 DEF IInv

\* Every step keeps the invariant.
LEMMA NextInv == IInv /\ [Next]_vars => IInv'
<1> SUFFICES ASSUME IInv, [Next]_vars PROVE IInv'
  OBVIOUS
<1> USE NoneAssumption, MaxCorrectionsAssumption, ChainAssumption
    DEF IInv, routeVars, loopVars, history
<1>1. CASE StartRound
  <2>1. TypeOK'
    BY <1>1, SMTT(20) DEF StartRound, Send, TypeOK, Positions, StatementAtHand, Quote, Note, Prompt, Statement
  <2>2. StatementAtHand' /\ CallsCounted'
    BY <1>1 DEF StartRound, Send, TypeOK, StatementAtHand, CallsCounted
  <2>3. PastGuardAllowed' /\ RunsOnlyAllowed' /\ RemoteGoverned'
    BY <1>1 DEF StartRound, Send, TypeOK, StatementAtHand, PastGuardAllowed, RunsOnlyAllowed, RemoteGoverned
  <2>4. FiltersReported' /\ HeldBackSomewhere'
    BY <1>1 DEF StartRound, Send, TypeOK, StatementAtHand, FiltersReported, HeldBackSomewhere
  <2> QED
    BY <2>1, <2>2, <2>3, <2>4
<1>2. CASE AskOnce
  <2>1. TypeOK'
    BY <1>2, SMTT(20) DEF AskOnce, Send, TypeOK, Positions, StatementAtHand, Quote, Note, Prompt, Statement
  <2>2. StatementAtHand' /\ CallsCounted'
    BY <1>2 DEF AskOnce, Send, TypeOK, StatementAtHand, CallsCounted
  <2>3. PastGuardAllowed' /\ RunsOnlyAllowed' /\ RemoteGoverned'
    BY <1>2 DEF AskOnce, Send, TypeOK, StatementAtHand, PastGuardAllowed, RunsOnlyAllowed, RemoteGoverned
  <2>4. FiltersReported' /\ HeldBackSomewhere'
    BY <1>2 DEF AskOnce, Send, TypeOK, StatementAtHand, FiltersReported, HeldBackSomewhere
  <2> QED
    BY <2>1, <2>2, <2>3, <2>4
<1>3. CASE Refuse
  <2>1. TypeOK'
    BY <1>3, SMTT(20) DEF Refuse, TypeOK, Positions, StatementAtHand, Quote, Note, Prompt, Statement
  <2>2. StatementAtHand' /\ CallsCounted'
    BY <1>3 DEF Refuse, TypeOK, StatementAtHand, CallsCounted
  <2>3. PastGuardAllowed' /\ RunsOnlyAllowed' /\ RemoteGoverned'
    BY <1>3 DEF Refuse, TypeOK, StatementAtHand, PastGuardAllowed, RunsOnlyAllowed, RemoteGoverned
  <2>4. FiltersReported' /\ HeldBackSomewhere'
    BY <1>3 DEF Refuse, TypeOK, StatementAtHand, FiltersReported, HeldBackSomewhere
  <2> QED
    BY <2>1, <2>2, <2>3, <2>4
<1>4. CASE AskFails
  <2>1. TypeOK'
    BY <1>4, SMTT(20) DEF AskFails, Ask, MayAsk, TypeOK, Positions, StatementAtHand, Quote, Note, Prompt, Statement
  <2>2. StatementAtHand' /\ CallsCounted'
    BY <1>4 DEF AskFails, Ask, MayAsk, TypeOK, StatementAtHand, CallsCounted
  <2>3. PastGuardAllowed' /\ RunsOnlyAllowed' /\ RemoteGoverned'
    BY <1>4 DEF AskFails, Ask, MayAsk, TypeOK, StatementAtHand, PastGuardAllowed, RunsOnlyAllowed, RemoteGoverned
  <2>4. FiltersReported' /\ HeldBackSomewhere'
    BY <1>4 DEF AskFails, Ask, MayAsk, TypeOK, StatementAtHand, FiltersReported, HeldBackSomewhere
  <2> QED
    BY <2>1, <2>2, <2>3, <2>4
<1>5. CASE AskDeclines
  <2>1. TypeOK'
    BY <1>5, SMTT(20) DEF AskDeclines, Ask, MayAsk, TypeOK, Positions, StatementAtHand, Quote, Note, Prompt, Statement
  <2>2. StatementAtHand' /\ CallsCounted'
    BY <1>5 DEF AskDeclines, Ask, MayAsk, TypeOK, StatementAtHand, CallsCounted
  <2>3. PastGuardAllowed' /\ RunsOnlyAllowed' /\ RemoteGoverned'
    BY <1>5 DEF AskDeclines, Ask, MayAsk, TypeOK, StatementAtHand, PastGuardAllowed, RunsOnlyAllowed, RemoteGoverned
  <2>4. FiltersReported' /\ HeldBackSomewhere'
    BY <1>5 DEF AskDeclines, Ask, MayAsk, TypeOK, StatementAtHand, FiltersReported, HeldBackSomewhere
  <2> QED
    BY <2>1, <2>2, <2>3, <2>4
<1>6. CASE AskAnswers
  <2>1. cand' \in Statement /\ calls' = calls
    BY <1>6 DEF AskAnswers, Statement, TypeOK
  <2>2. TypeOK'
    BY <1>6, <2>1, SMTT(20) DEF AskAnswers, Ask, MayAsk, TypeOK, Positions, Quote, Prompt
  <2>3. StatementAtHand'
    BY <1>6, <2>1 DEF AskAnswers, Ask, TypeOK, StatementAtHand
  <2>4. CallsCounted'
    BY <1>6 DEF AskAnswers, Ask, TypeOK, CallsCounted
  <2>5. PastGuardAllowed' /\ RunsOnlyAllowed' /\ RemoteGoverned'
    BY <1>6 DEF AskAnswers, Ask, MayAsk, TypeOK, StatementAtHand, PastGuardAllowed, RunsOnlyAllowed, RemoteGoverned
  <2>6. FiltersReported' /\ HeldBackSomewhere'
    BY <1>6 DEF AskAnswers, Ask, TypeOK, StatementAtHand, FiltersReported, HeldBackSomewhere
  <2> QED
    BY <2>2, <2>3, <2>4, <2>5, <2>6
<1>7. CASE FallBack
  <2>1. TypeOK'
    BY <1>7, AfterAreSources, SMTT(20) DEF FallBack, TypeOK, Positions, StatementAtHand, Quote, Note, Prompt, Statement
  <2>2. StatementAtHand' /\ CallsCounted'
    BY <1>7, AfterAreSources DEF FallBack, CanFallBack, TypeOK, StatementAtHand, CallsCounted
  <2>3. PastGuardAllowed' /\ RunsOnlyAllowed' /\ RemoteGoverned'
    BY <1>7, AfterAreSources DEF FallBack, TypeOK, StatementAtHand, PastGuardAllowed, RunsOnlyAllowed, RemoteGoverned
  <2>4. FiltersReported' /\ HeldBackSomewhere'
    BY <1>7, AfterAreSources DEF FallBack, TypeOK, StatementAtHand, FiltersReported, HeldBackSomewhere
  <2> QED
    BY <2>1, <2>2, <2>3, <2>4
<1>8. CASE CallFails
  <2>1. TypeOK'
    BY <1>8, SMTT(20) DEF CallFails, Finish, TypeOK, Positions, StatementAtHand, Quote, Note, Prompt, Statement
  <2>2. StatementAtHand' /\ CallsCounted'
    BY <1>8 DEF CallFails, Finish, TypeOK, StatementAtHand, CallsCounted
  <2>3. PastGuardAllowed' /\ RunsOnlyAllowed' /\ RemoteGoverned'
    BY <1>8 DEF CallFails, Finish, TypeOK, StatementAtHand, PastGuardAllowed, RunsOnlyAllowed, RemoteGoverned
  <2>4. FiltersReported' /\ HeldBackSomewhere'
    BY <1>8 DEF CallFails, Finish, TypeOK, StatementAtHand, FiltersReported, HeldBackSomewhere
  <2> QED
    BY <2>1, <2>2, <2>3, <2>4
<1>9. CASE TurnAccepts
  <2>1. TypeOK'
    BY <1>9, SMTT(20) DEF TurnAccepts, Accept, This, TypeOK, Positions, StatementAtHand, Quote, Note, Prompt, Statement
  <2>2. StatementAtHand' /\ CallsCounted'
    BY <1>9 DEF TurnAccepts, Accept, This, TypeOK, StatementAtHand, CallsCounted
  <2>3. PastGuardAllowed' /\ RunsOnlyAllowed' /\ RemoteGoverned'
    BY <1>9 DEF TurnAccepts, Accept, This, TypeOK, StatementAtHand, PastGuardAllowed, RunsOnlyAllowed, RemoteGoverned
  <2>4. FiltersReported' /\ HeldBackSomewhere'
    BY <1>9 DEF TurnAccepts, Accept, This, TypeOK, StatementAtHand, FiltersReported, HeldBackSomewhere
  <2> QED
    BY <2>1, <2>2, <2>3, <2>4
<1>10. CASE AgentAccepts
  <2>1. TypeOK'
    BY <1>10, SMTT(20) DEF AgentAccepts, Accept, This, TypeOK, Positions, StatementAtHand, Quote, Note, Prompt, Statement
  <2>2. StatementAtHand' /\ CallsCounted'
    BY <1>10 DEF AgentAccepts, Accept, This, TypeOK, StatementAtHand, CallsCounted
  <2>3. PastGuardAllowed' /\ RunsOnlyAllowed' /\ RemoteGoverned'
    BY <1>10 DEF AgentAccepts, Accept, This, TypeOK, StatementAtHand, PastGuardAllowed, RunsOnlyAllowed, RemoteGoverned
  <2>4. FiltersReported' /\ HeldBackSomewhere'
    BY <1>10 DEF AgentAccepts, Accept, This, TypeOK, StatementAtHand, FiltersReported, HeldBackSomewhere
  <2> QED
    BY <2>1, <2>2, <2>3, <2>4
<1>11. CASE CteAccepts
  <2>1. TypeOK'
    BY <1>11, SMTT(20) DEF CteAccepts, Accept, This, TypeOK, Positions, StatementAtHand, Quote, Note, Prompt, Statement
  <2>2. StatementAtHand' /\ CallsCounted'
    BY <1>11 DEF CteAccepts, Accept, This, TypeOK, StatementAtHand, CallsCounted
  <2>3. PastGuardAllowed' /\ RunsOnlyAllowed' /\ RemoteGoverned'
    BY <1>11 DEF CteAccepts, Accept, This, TypeOK, StatementAtHand, PastGuardAllowed, RunsOnlyAllowed, RemoteGoverned
  <2>4. FiltersReported' /\ HeldBackSomewhere'
    BY <1>11 DEF CteAccepts, Accept, This, TypeOK, StatementAtHand, FiltersReported, HeldBackSomewhere
  <2> QED
    BY <2>1, <2>2, <2>3, <2>4
<1>12. CASE SqlOnlyAccepts
  <2>1. TypeOK'
    BY <1>12, SMTT(20) DEF SqlOnlyAccepts, Accept, This, Finish, TypeOK, Positions, StatementAtHand, Quote, Note, Prompt, Statement
  <2>2. StatementAtHand' /\ CallsCounted'
    BY <1>12 DEF SqlOnlyAccepts, Accept, This, Finish, TypeOK, StatementAtHand, CallsCounted
  <2>3. PastGuardAllowed' /\ RunsOnlyAllowed' /\ RemoteGoverned'
    BY <1>12 DEF SqlOnlyAccepts, Accept, This, Finish, TypeOK, StatementAtHand, PastGuardAllowed, RunsOnlyAllowed, RemoteGoverned
  <2>4. FiltersReported' /\ HeldBackSomewhere'
    BY <1>12 DEF SqlOnlyAccepts, Accept, This, Finish, TypeOK, StatementAtHand, FiltersReported, HeldBackSomewhere
  <2> QED
    BY <2>1, <2>2, <2>3, <2>4
<1>13. CASE GuardRefuses
  <2>1. TypeOK'
    BY <1>13, SMTT(20) DEF GuardRefuses, Finish, TypeOK, Positions, StatementAtHand, Quote, Note, Prompt, Statement
  <2>2. StatementAtHand' /\ CallsCounted'
    BY <1>13 DEF GuardRefuses, Finish, TypeOK, StatementAtHand, CallsCounted
  <2>3. PastGuardAllowed' /\ RunsOnlyAllowed' /\ RemoteGoverned'
    BY <1>13 DEF GuardRefuses, Finish, TypeOK, StatementAtHand, PastGuardAllowed, RunsOnlyAllowed, RemoteGoverned
  <2>4. FiltersReported' /\ HeldBackSomewhere'
    BY <1>13 DEF GuardRefuses, Finish, TypeOK, StatementAtHand, FiltersReported, HeldBackSomewhere
  <2> QED
    BY <2>1, <2>2, <2>3, <2>4
<1>14. CASE GuardFaults
  <2>1. TypeOK'
    BY <1>14, RetryEffect, SMTT(20) DEF GuardFaults, TypeOK, Positions, StatementAtHand, Quote, Note, Prompt, Statement
  <2>2. StatementAtHand' /\ CallsCounted'
    BY <1>14, RetryEffect DEF GuardFaults, TypeOK, StatementAtHand, CallsCounted
  <2>3. PastGuardAllowed' /\ RunsOnlyAllowed' /\ RemoteGoverned'
    BY <1>14, RetryEffect DEF GuardFaults, TypeOK, StatementAtHand, PastGuardAllowed, RunsOnlyAllowed, RemoteGoverned
  <2>4. FiltersReported' /\ HeldBackSomewhere'
    BY <1>14, RetryEffect DEF GuardFaults, TypeOK, StatementAtHand, FiltersReported, HeldBackSomewhere
  <2> QED
    BY <2>1, <2>2, <2>3, <2>4
<1>15. CASE EmptyAnswer
  <2>1. TypeOK'
    BY <1>15, RetryEffect, SMTT(20) DEF EmptyAnswer, Finish, TypeOK, Positions, StatementAtHand, Quote, Note, Prompt, Statement
  <2>2. StatementAtHand' /\ CallsCounted'
    BY <1>15, RetryEffect DEF EmptyAnswer, Finish, TypeOK, StatementAtHand, CallsCounted
  <2>3. PastGuardAllowed' /\ RunsOnlyAllowed' /\ RemoteGoverned'
    BY <1>15, RetryEffect DEF EmptyAnswer, Finish, TypeOK, StatementAtHand, PastGuardAllowed, RunsOnlyAllowed, RemoteGoverned
  <2>4. FiltersReported' /\ HeldBackSomewhere'
    BY <1>15, RetryEffect DEF EmptyAnswer, Finish, TypeOK, StatementAtHand, FiltersReported, HeldBackSomewhere
  <2> QED
    BY <2>1, <2>2, <2>3, <2>4
<1>16. CASE CheckFilters
  <2>1. TypeOK'
    <3>1. CASE Nudge
      <4>1. nudged' = TRUE /\ Retry("none", None, kept) /\ cand # None
        BY <1>16, <3>1 DEF CheckFilters, StatementAtHand
      <4>2. kept \in Quote \cup {None}
        BY DEF TypeOK
      <4> QED
        BY <1>16, <4>1, <4>2, RetryEffect DEF CheckFilters, TypeOK, Positions
    <3>2. CASE ~Nudge
      BY <1>16, <3>2 DEF CheckFilters, TypeOK, Positions
    <3> QED
      BY <3>1, <3>2
  <2>2. StatementAtHand' /\ CallsCounted'
    BY <1>16, RetryEffect DEF CheckFilters, TypeOK, StatementAtHand, CallsCounted
  <2>3. PastGuardAllowed' /\ RunsOnlyAllowed' /\ RemoteGoverned'
    BY <1>16, RetryEffect DEF CheckFilters, TypeOK, StatementAtHand, PastGuardAllowed, RunsOnlyAllowed, RemoteGoverned
  <2>4. FiltersReported' /\ HeldBackSomewhere'
    BY <1>16, RetryEffect DEF CheckFilters, TypeOK, StatementAtHand, FiltersReported, HeldBackSomewhere
  <2> QED
    BY <2>1, <2>2, <2>3, <2>4
<1>17. CASE Spell
  <2>1. TypeOK'
    BY <1>17, RespelledIsStatement, SMTT(20) DEF Spell, TypeOK, Positions, StatementAtHand, Quote, Note, Prompt, Statement
  <2>2. StatementAtHand' /\ CallsCounted'
    BY <1>17, RespelledIsStatement DEF Spell, TypeOK, StatementAtHand, CallsCounted
  <2>3. PastGuardAllowed' /\ RunsOnlyAllowed' /\ RemoteGoverned'
    BY <1>17, RespelledIsStatement DEF Spell, TypeOK, StatementAtHand, PastGuardAllowed, RunsOnlyAllowed, RemoteGoverned
  <2>4. FiltersReported' /\ HeldBackSomewhere'
    BY <1>17, RespelledIsStatement DEF Spell, TypeOK, StatementAtHand, FiltersReported, HeldBackSomewhere
  <2> QED
    BY <2>1, <2>2, <2>3, <2>4
<1>18. CASE CheckValues
  <2>1. TypeOK'
    <3>1. ValuePrompt \in Prompt
      BY <1>18, ValuePromptIsPrompt DEF CheckValues, StatementAtHand
    <3>2. 1 \in DOMAIN Chain /\ calls + 1 \in Nat
      BY DEF TypeOK
    <3>3. CASE ValueCheck /\ ~checked /\ cand.unknown /\ MaxCorrections > 0
      <4>1. /\ pc' = "call" /\ checked' = TRUE /\ value' = TRUE /\ orig' = cand /\ extra' = 1
            /\ prompt' = ValuePrompt /\ link' = 1 /\ calls' = calls + 1
            /\ UNCHANGED <<engine, routeVars, gen, round, notes, kept, nudged, cand, result,
                           sent, allowed, ran>>
        BY <1>18, <3>3 DEF CheckValues
      <4> QED
        BY <3>1, <3>2, <4>1 DEF TypeOK, Positions, routeVars
    <3>4. CASE ~(ValueCheck /\ ~checked /\ cand.unknown /\ MaxCorrections > 0)
      <4>1. /\ pc' = "execute" /\ checked' \in BOOLEAN
            /\ UNCHANGED <<value, orig, extra, prompt, link, calls, engine, routeVars, gen,
                           round, notes, kept, nudged, cand, result, sent, allowed, ran>>
        BY <1>18, <3>4 DEF CheckValues, TypeOK
      <4> QED
        BY <4>1 DEF TypeOK, Positions, routeVars
    <3> QED
      BY <3>3, <3>4
  <2>2. StatementAtHand' /\ CallsCounted'
    BY <1>18 DEF CheckValues, ValuePrompt, This, TypeOK, StatementAtHand, CallsCounted
  <2>3. PastGuardAllowed' /\ RunsOnlyAllowed' /\ RemoteGoverned'
    BY <1>18 DEF CheckValues, ValuePrompt, This, TypeOK, StatementAtHand, PastGuardAllowed, RunsOnlyAllowed, RemoteGoverned
  <2>4. FiltersReported' /\ HeldBackSomewhere'
    BY <1>18 DEF CheckValues, ValuePrompt, This, TypeOK, StatementAtHand, FiltersReported, HeldBackSomewhere
  <2> QED
    BY <2>1, <2>2, <2>3, <2>4
<1>19. CASE ValueRuns
  <2>1. PICK s \in {cand, Respelled(cand)} :
          /\ ~s.unknown /\ KeepsFilters(s)
          /\ allowed' = allowed \cup {cand, s}
          /\ \/ ran' = ran \cup {s}
             \/ engine = "agent" /\ ran' = ran
          /\ \/ /\ Finish("answered", s, IF engine = "turn" THEN s.missing ELSE {})
                /\ UNCHANGED <<value, cand>>
             \/ /\ value' = FALSE /\ cand' = orig /\ pc' = "execute"
                /\ UNCHANGED result
    BY <1>19 DEF ValueRuns
  <2>2. /\ pc = "guard" /\ value
        /\ UNCHANGED <<engine, src, fell, base, gen, prompt, link, round, notes, kept,
                       nudged, checked, extra, orig, sent, calls>>
    BY <1>19 DEF ValueRuns
  <2>3. s \in Statement /\ s # None /\ cand \in Statement /\ orig # None
    BY <2>1, <2>2, RespelledIsStatement DEF TypeOK, StatementAtHand
  <2>4. s.missing \in SUBSET Filters
    BY <2>3 DEF Statement
  <2>5. CASE Finish("answered", s, IF engine = "turn" THEN s.missing ELSE {}) /\ UNCHANGED <<value, cand>>
    <3>1. /\ pc' = "done"
          /\ result' = [kind |-> "answered", stmt |-> s,
                        warned |-> IF engine = "turn" THEN s.missing ELSE {}]
      BY <2>5 DEF Finish
    <3>2. TypeOK'
      BY <2>1, <2>2, <2>3, <2>4, <2>5, <3>1 DEF TypeOK, Positions
    <3>3. StatementAtHand' /\ CallsCounted' /\ FiltersReported' /\ HeldBackSomewhere'
      BY <2>2, <2>3, <2>5, <3>1
      DEF TypeOK, StatementAtHand, CallsCounted, FiltersReported, HeldBackSomewhere
    <3>4. PastGuardAllowed' /\ RunsOnlyAllowed' /\ RemoteGoverned'
      BY <2>1, <2>2, <2>5, <3>1 DEF PastGuardAllowed, RunsOnlyAllowed, RemoteGoverned
    <3> QED
      BY <3>2, <3>3, <3>4
  <2>6. CASE value' = FALSE /\ cand' = orig /\ pc' = "execute" /\ UNCHANGED result
    <3>1. TypeOK'
      BY <2>1, <2>2, <2>3, <2>6 DEF TypeOK, Positions
    <3>2. StatementAtHand' /\ CallsCounted' /\ FiltersReported' /\ HeldBackSomewhere'
      BY <2>2, <2>3, <2>6
      DEF TypeOK, StatementAtHand, CallsCounted, FiltersReported, HeldBackSomewhere
    <3>3. PastGuardAllowed' /\ RunsOnlyAllowed' /\ RemoteGoverned'
      BY <2>1, <2>2, <2>3, <2>6 DEF PastGuardAllowed, RunsOnlyAllowed, RemoteGoverned
    <3> QED
      BY <3>1, <3>2, <3>3
  <2> QED
    BY <2>1, <2>5, <2>6
<1>20. CASE ValueFails
  <2>1. TypeOK'
    BY <1>20 DEF ValueFails, TypeOK, Positions
  <2>2. StatementAtHand' /\ CallsCounted'
    BY <1>20 DEF ValueFails, TypeOK, StatementAtHand, CallsCounted
  <2>3. PastGuardAllowed' /\ RunsOnlyAllowed' /\ RemoteGoverned'
    BY <1>20 DEF ValueFails, TypeOK, StatementAtHand, PastGuardAllowed, RunsOnlyAllowed, RemoteGoverned
  <2>4. FiltersReported' /\ HeldBackSomewhere'
    BY <1>20 DEF ValueFails, TypeOK, StatementAtHand, FiltersReported, HeldBackSomewhere
  <2> QED
    BY <2>1, <2>2, <2>3, <2>4
<1>21. CASE ExecuteOk
  <2>1. TypeOK'
    BY <1>21, SMTT(20) DEF ExecuteOk, Finish, Warnings, TypeOK, Positions, StatementAtHand, Quote, Note, Prompt, Statement
  <2>2. StatementAtHand' /\ CallsCounted'
    BY <1>21 DEF ExecuteOk, Finish, Warnings, TypeOK, StatementAtHand, CallsCounted
  <2>3. PastGuardAllowed' /\ RunsOnlyAllowed' /\ RemoteGoverned'
    BY <1>21 DEF ExecuteOk, Finish, Warnings, TypeOK, StatementAtHand, PastGuardAllowed, RunsOnlyAllowed, RemoteGoverned
  <2>4. FiltersReported' /\ HeldBackSomewhere'
    BY <1>21 DEF ExecuteOk, Finish, Warnings, TypeOK, StatementAtHand, FiltersReported, HeldBackSomewhere
  <2> QED
    BY <2>1, <2>2, <2>3, <2>4
<1>22. CASE ExecuteFails
  <2>1. TypeOK'
    BY <1>22, RetryEffect, SMTT(20) DEF ExecuteFails, TypeOK, Positions, StatementAtHand, Quote, Note, Prompt, Statement
  <2>2. StatementAtHand' /\ CallsCounted'
    BY <1>22, RetryEffect DEF ExecuteFails, TypeOK, StatementAtHand, CallsCounted
  <2>3. PastGuardAllowed' /\ RunsOnlyAllowed' /\ RemoteGoverned'
    BY <1>22, RetryEffect DEF ExecuteFails, TypeOK, StatementAtHand, PastGuardAllowed, RunsOnlyAllowed, RemoteGoverned
  <2>4. FiltersReported' /\ HeldBackSomewhere'
    BY <1>22, RetryEffect DEF ExecuteFails, TypeOK, StatementAtHand, FiltersReported, HeldBackSomewhere
  <2> QED
    BY <2>1, <2>2, <2>3, <2>4
<1>23. CASE ExecuteRaises
  <2>1. TypeOK'
    BY <1>23, SMTT(20) DEF ExecuteRaises, Finish, TypeOK, Positions, StatementAtHand, Quote, Note, Prompt, Statement
  <2>2. StatementAtHand' /\ CallsCounted'
    BY <1>23 DEF ExecuteRaises, Finish, TypeOK, StatementAtHand, CallsCounted
  <2>3. PastGuardAllowed' /\ RunsOnlyAllowed' /\ RemoteGoverned'
    BY <1>23 DEF ExecuteRaises, Finish, TypeOK, StatementAtHand, PastGuardAllowed, RunsOnlyAllowed, RemoteGoverned
  <2>4. FiltersReported' /\ HeldBackSomewhere'
    BY <1>23 DEF ExecuteRaises, Finish, TypeOK, StatementAtHand, FiltersReported, HeldBackSomewhere
  <2> QED
    BY <2>1, <2>2, <2>3, <2>4
<1>24. CASE CteExecutes
  <2>1. TypeOK'
    BY <1>24, SMTT(20) DEF CteExecutes, Finish, TypeOK, Positions, StatementAtHand, Quote, Note, Prompt, Statement
  <2>2. StatementAtHand' /\ CallsCounted'
    BY <1>24 DEF CteExecutes, Finish, TypeOK, StatementAtHand, CallsCounted
  <2>3. PastGuardAllowed' /\ RunsOnlyAllowed' /\ RemoteGoverned'
    BY <1>24 DEF CteExecutes, Finish, TypeOK, StatementAtHand, PastGuardAllowed, RunsOnlyAllowed, RemoteGoverned
  <2>4. FiltersReported' /\ HeldBackSomewhere'
    BY <1>24 DEF CteExecutes, Finish, TypeOK, StatementAtHand, FiltersReported, HeldBackSomewhere
  <2> QED
    BY <2>1, <2>2, <2>3, <2>4
<1>25. CASE UNCHANGED vars
  BY <1>25 DEF vars, TypeOK, StatementAtHand, CallsCounted, PastGuardAllowed, RunsOnlyAllowed, RemoteGoverned, FiltersReported, HeldBackSomewhere
<1> QED
  BY <1>1, <1>2, <1>3, <1>4, <1>5, <1>6, <1>7, <1>8, <1>9, <1>10, <1>11, <1>12, <1>13, <1>14, <1>15, <1>16, <1>17, <1>18, <1>19, <1>20, <1>21, <1>22, <1>23, <1>24, <1>25 DEF Next, Step, Answered

\* The invariant holds in every state of every behaviour.
LEMMA InvHolds == Spec => []IInv
BY InitInv, NextInv, PTL DEF Spec

\* What the invariant says about a state.
LEMMA InvImplies == IInv => TypeOK /\ BudgetKept /\ PolicyKept /\ ValuesChecked
<1> SUFFICES ASSUME IInv PROVE TypeOK /\ BudgetKept /\ PolicyKept /\ ValuesChecked
  OBVIOUS
<1>1. BudgetKept
  BY MaxCorrectionsAssumption DEF IInv, TypeOK, CallsCounted, BudgetKept
<1>2. HeldBackStillRuns
  BY DEF IInv, StatementAtHand, HeldBackSomewhere, HeldBackStillRuns
<1> QED
  BY <1>1, <1>2 DEF IInv, PolicyKept, ValuesChecked

\* Wherever the turn engine holds a statement it may answer with.
Asked ==
    engine = "turn" =>
        /\ pc \in {"spelling", "values", "execute"} => AskedAgain(cand)
        /\ value => AskedAgain(orig)
        /\ result.kind = "answered" => AskedAgain(result.stmt)

\* A statement passes the check of its filters only if it was asked about, a
\* correction of its values misses no other filter, and no round starts while
\* one is at hand.
LEMMA StepAsks == IInv /\ Asked /\ [Next]_vars => Asked'
<1> SUFFICES ASSUME IInv, Asked, [Next]_vars PROVE Asked'
  OBVIOUS
<1> USE DEF Asked, AskedAgain, routeVars, loopVars, history
<1>1. CASE StartRound \/ AskOnce \/ Refuse \/ AskFails \/ AskDeclines \/ AskAnswers \/ FallBack
  BY <1>1 DEF StartRound, AskOnce, Send, Refuse, Ask, AskFails, AskDeclines, AskAnswers, FallBack,
     IInv, StatementAtHand
<1>2. CASE CallFails \/ GuardRefuses
  BY <1>2 DEF CallFails, GuardRefuses, Finish
<1>3. CASE TurnAccepts \/ AgentAccepts \/ CteAccepts \/ SqlOnlyAccepts
  BY <1>3 DEF TurnAccepts, AgentAccepts, CteAccepts, SqlOnlyAccepts, Accept, Finish
<1>4. CASE GuardFaults \/ EmptyAnswer \/ ExecuteFails \/ ExecuteRaises
  <2>1. ~value /\ result'.kind # "answered" /\ pc' \in {"round", "done"}
        /\ UNCHANGED <<engine, value>>
    BY <1>4 DEF GuardFaults, EmptyAnswer, ExecuteFails, ExecuteRaises, Retry, Finish, IInv,
       StatementAtHand
  <2> QED
    BY <2>1
<1>5. CASE CheckFilters
  <2>1. ~value /\ result.kind # "answered" /\ pc = "filters" /\ round \in 0 .. MaxCorrections
    BY <1>5 DEF CheckFilters, IInv, StatementAtHand, TypeOK
  <2>2. CASE Nudge
    <3>1. result'.kind # "answered" /\ pc' \in {"round", "done"} /\ UNCHANGED value
      BY <1>5, <2>1, <2>2 DEF CheckFilters, Retry, Finish
    <3> QED
      BY <2>1, <3>1
  <2>3. CASE ~Nudge
    <3>1. UNCHANGED <<engine, value, result, nudged, round, cand>>
      BY <1>5, <2>3 DEF CheckFilters
    <3>2. cand.missing # {} => nudged \/ round = MaxCorrections
      BY <2>1, <2>3, MaxCorrectionsAssumption DEF Nudge
    <3> QED
      BY <2>1, <3>1, <3>2
  <2> QED
    BY <2>2, <2>3
<1>6. CASE Spell
  BY <1>6 DEF Spell, Respelled
<1>7. CASE CheckValues
  BY <1>7 DEF CheckValues
<1>8. CASE ValueRuns
  <2>1. PICK s \in {cand, Respelled(cand)} :
          /\ KeepsFilters(s)
          /\ \/ /\ Finish("answered", s, IF engine = "turn" THEN s.missing ELSE {})
                /\ UNCHANGED <<value, cand>>
             \/ value' = FALSE /\ cand' = orig /\ pc' = "execute" /\ UNCHANGED result
    BY <1>8 DEF ValueRuns
  <2>2. value /\ UNCHANGED <<engine, round, nudged, orig>>
    BY <1>8 DEF ValueRuns
  <2>3. engine = "turn" => AskedAgain(orig) /\ (s.missing # {} => orig.missing # {})
    BY <2>1, <2>2 DEF KeepsFilters
  <2>4. CASE Finish("answered", s, IF engine = "turn" THEN s.missing ELSE {}) /\ UNCHANGED value
    <3>1. pc' = "done" /\ result'.stmt = s
      BY <2>4 DEF Finish
    <3> QED
      BY <2>2, <2>3, <2>4, <3>1
  <2>5. CASE value' = FALSE /\ cand' = orig /\ UNCHANGED result
    BY <2>2, <2>3, <2>5
  <2> QED
    BY <2>1, <2>4, <2>5
<1>9. CASE ValueFails
  BY <1>9 DEF ValueFails
<1>10. CASE ExecuteOk \/ CteExecutes
  BY <1>10 DEF ExecuteOk, CteExecutes, Finish, IInv, StatementAtHand
<1>11. CASE UNCHANGED vars
  BY <1>11 DEF vars
<1> QED
  BY <1>1, <1>2, <1>3, <1>4, <1>5, <1>6, <1>7, <1>8, <1>9, <1>10, <1>11 DEF Next, Step, Answered

-----------------------------------------------------------------------------
(* The theorems.                                                           *)

\* The request's state has the types the handlers assume.
THEOREM TypeCorrect == Spec => []TypeOK
BY InvHolds, InvImplies, PTL

\* However filter corrections, guard rejections, the retry on another source and
\* the value round combine, the model is called at most once per round, once more
\* for the other source and once more for the values.
THEOREM Budget == Spec => []BudgetKept
BY InvHolds, InvImplies, PTL

\* Only statements the guard accepted run and are reported, and no prompt goes to
\* a backend that is not trusted without the deployment's consent, whatever the
\* chain and however often it is walked.
THEOREM Policy == Spec => []PolicyKept
BY InvHolds, InvImplies, PTL

\* An answer of the turn engine names exactly the filters it does not apply, and a
\* statement held back for its values is answered or run in the end.
THEOREM Values == Spec => []ValuesChecked
BY InvHolds, InvImplies, PTL

\* A turn's answer that leaves out a filter the question named was asked once more
\* to apply it, or had no round left, whatever the value round and the retry on
\* another source did to it.
THEOREM OmissionsAskedAbout == Spec => []OmissionsAsked
<1>1. Init => Asked
  BY DEF Init, Asked, NoResult
<1>2. IInv /\ Asked => OmissionsAsked
  BY DEF Asked, OmissionsAsked
<1> QED
  BY <1>1, <1>2, StepAsks, InvHolds, PTL DEF Spec
=============================================================================
