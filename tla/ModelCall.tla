----------------------------- MODULE ModelCall -----------------------------
(***************************************************************************)
(* llm/providers.py: one call of OpenAIBackend.generate_with_meta with       *)
(* streaming on, against an endpoint that may stall, break off, answer      *)
(* garbage or keep the connection open, and the retries around it.          *)
(*                                                                          *)
(* A response is the pieces 1 .. Pieces, a finish_reason, and [DONE].  A     *)
(* line of the stream is handled when it arrives; time is counted in steps, *)
(* of which a read may wait Timeout, and the whole call take Timeout.       *)
(***************************************************************************)
EXTENDS Naturals, Sequences

CONSTANTS
    Pieces,    \* the pieces of a response
    Retries,   \* LLM_RETRIES
    Timeout    \* LLM_TIMEOUT, in steps of the clock

VARIABLES
    call,      \* the caller, with its _StreamAssembler
    sent,      \* the endpoint: how far into the response it is
    sentinel,  \* the response is OUT_OF_SCOPE
    posts      \* history: how each attempt ended

response == <<sent, sentinel>>
vars == <<call, response, posts>>

\* What an instance must be.
Configured == Pieces \in Nat /\ Retries \in Nat \ {0} /\ Timeout \in Nat

\* The clock of an attempt is not counted further: a bound.
Long == 2 * Timeout + 1

TypeOK ==
    /\ call.pc \in {"sleeping", "waiting", "reading", "answered", "out_of_scope", "timeout", "gave_up"}
    /\ call.attempt \in 1 .. Retries /\ call.elapsed \in 0 .. Long /\ call.quiet \in 0 .. Timeout
    /\ call.text \in Seq(1 .. Pieces) /\ call.finished \in BOOLEAN
    /\ sent \in 0 .. Pieces /\ sentinel \in BOOLEAN
    /\ posts \in Seq({"open", "answer", "timeout", "error"})

\* MUTANT: the assembler outlives the attempt.
KeepsText == [text |-> call.text, finished |-> call.finished]
\* A new _StreamAssembler for each attempt.
Assembler == [text |-> <<>>, finished |-> FALSE]

\* requests.post.
Post ==
    /\ call.pc = "sleeping"
    /\ call' = [call EXCEPT !.pc = "waiting", !.elapsed = 0, !.quiet = 0,
                            !.text = Assembler.text, !.finished = Assembler.finished]
    /\ posts' = Append(posts, "open")
    /\ sent' = 0 /\ sentinel' \in BOOLEAN

Ends(pc, how) ==
    /\ call' = [call EXCEPT !.pc = pc]
    /\ posts' = [posts EXCEPT ![Len(posts)] = how]
    /\ UNCHANGED response

\* requests.Timeout is raised to the caller.
TimesOut == Ends("timeout", "timeout")

\* Any other RequestException: the next attempt, after the backoff.
Fails ==
    /\ call' = IF call.attempt < Retries
               THEN [call EXCEPT !.pc = "sleeping", !.attempt = @ + 1]
               ELSE [call EXCEPT !.pc = "gave_up"]
    /\ posts' = [posts EXCEPT ![Len(posts)] = "error"]
    /\ UNCHANGED response

\* The headers, with a status raise_for_status accepts or does not.
Headers ==
    /\ call.pc = "waiting"
    /\ \/ call' = [call EXCEPT !.pc = "reading", !.quiet = 0] /\ UNCHANGED <<response, posts>>
       \/ Fails

\* Time passes.  A read that has waited long enough is a requests.Timeout before
\* the headers and a requests.ConnectionError, retried, in the body.
Tick ==
    /\ call.pc \in {"waiting", "reading"}
    /\ IF call.quiet < Timeout
       THEN /\ call' = [call EXCEPT !.quiet = @ + 1, !.elapsed = IF @ = Long THEN @ ELSE @ + 1]
            /\ UNCHANGED <<response, posts>>
       ELSE IF call.pc = "waiting" THEN TimesOut ELSE Fails

\* A line _iter_sse_events passes over: a comment, a blank one, an event name.
KeepAlive ==
    /\ call.pc = "reading" /\ call' = [call EXCEPT !.quiet = 0]
    /\ UNCHANGED <<response, posts>>

\* An event: the deadline is looked at first.
Event(feed) ==
    /\ call.pc = "reading"
    /\ IF call.elapsed > Timeout THEN TimesOut ELSE feed

\* feed.
Piece ==
    /\ sent < Pieces
    /\ Event(/\ call' = [call EXCEPT !.text = Append(@, sent + 1), !.quiet = 0]
             /\ sent' = sent + 1 /\ UNCHANGED <<sentinel, posts>>)

\* The chunk with the finish_reason, and the usage chunk after it.
FinishReason ==
    /\ sent = Pieces
    /\ Event(/\ call' = [call EXCEPT !.finished = TRUE, !.quiet = 0]
             /\ UNCHANGED <<response, posts>>)

\* What the body holds: an answer, or the sentinel, which raises ValueError.
Answers == Ends(IF sentinel THEN "out_of_scope" ELSE "answered", "answer")

Done == sent = Pieces /\ Event(Answers)

\* An error object or a chunk that is no object.
StreamError == Event(Fails)

\* MUTANT: a stream that just ends is a response.
AnyEnd == TRUE
\* `done or assembler.finished`.
Complete == call.finished

\* The endpoint closes the stream, wherever it is.
Close == call.pc = "reading" /\ IF Complete THEN Answers ELSE Fails

\* The connection breaks, or a chunk is no JSON.
Broken == call.pc \in {"waiting", "reading"} /\ Fails

Init ==
    /\ call = [pc |-> "sleeping", attempt |-> 1, elapsed |-> 0, quiet |-> 0,
               text |-> <<>>, finished |-> FALSE]
    /\ sent = 0 /\ sentinel = FALSE /\ posts = <<>>

Next == Post \/ Headers \/ Tick \/ KeepAlive \/ Piece \/ FinishReason \/ Done
        \/ StreamError \/ Close \/ Broken

Spec == Init /\ [][Next]_vars

(***************************************************************************)
(* Properties.                                                             *)
(***************************************************************************)
\* A response that is returned, however it was framed and whatever earlier
\* attempts left behind, is every piece of one attempt, in order
\* (_StreamAssembler: "the identical response").
WholeResponse ==
    call.pc \in {"answered", "out_of_scope"} => call.text = [i \in 1 .. Pieces |-> i]

\* At most Retries requests are sent, and none after one that timed out or was
\* answered (generate_with_meta: a Timeout is not retried).
AskedAgainOnlyAfterErrors ==
    /\ Len(posts) <= Retries
    /\ \A i \in DOMAIN posts : i < Len(posts) => posts[i] = "error"

\* The two together.
CallSound == WholeResponse /\ AskedAgainOnlyAfterErrors

\* A call that takes longer than the timeout ends in a requests.Timeout, once
\* the read under way is over (_post_streaming, "Raises").
StreamBounded == call.pc = "reading" => call.elapsed <= 2 * Timeout
=============================================================================
