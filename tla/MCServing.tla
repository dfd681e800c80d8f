----------------------------- MODULE MCServing -----------------------------
(* Small instances, side by side, of the machines the server's threads and  *)
(* its event loop make up around a question: the admission of calls, the    *)
(* keep-warm of the model's prefix cache, the refresh of the vocabulary.    *)
(* They share no state, so in a behaviour only the machine named by `part`  *)
(* moves and the others stay where they started.                            *)
EXTENDS Admission, TLC

CONSTANTS Spare,
          Sources, Interval, Budget, Keepers,
          Columns, Ttl, Backoff, Manual, StartFails

VARIABLES part,
          idle, lapse, lock, thread, current, paused, late,
          up, cache, inFlight, failure, threads, manual

warm == <<idle, lapse, lock, thread, current, paused, late>>
values == <<up, cache, inFlight, failure, threads, manual>>

K == INSTANCE KeepWarm
D == INSTANCE Vocabulary

TwoSources == <<"s1", "s2">>

ASSUME WarmConfigured == K!Configured
ASSUME VocabularyConfigured == D!Configured

MCInit ==
    /\ part \in {"queries", "turns", "keepwarm", "vocabulary"}
    /\ Init /\ K!Init /\ D!Init
    /\ part # "vocabulary" => up

MCNext ==
    /\ UNCHANGED part
    /\ \/ /\ part \in {"queries", "turns"} /\ Next /\ UNCHANGED <<warm, values>>
          \* Three calls of the short routes, or two of any.
          /\ part = "queries" => \A c \in Calls : call'[c].route # "turns"
          /\ part = "turns" => call'[Spare].pc = "idle"
       \/ part = "keepwarm" /\ K!Next /\ UNCHANGED <<vars, values>>
       \/ part = "vocabulary" /\ D!Next /\ UNCHANGED <<vars, warm>>

\* Each machine's own fairness; the others' actions are not enabled for it.
Only(parts, A) == part \in parts /\ A /\ UNCHANGED part
Calling == {"queries", "turns"}
MCFairness ==
    /\ WF_vars(Only(Calling, Take))
    /\ WF_vars(Only(Calling, \E c \in Calls : Loop(c)))
    /\ \A c \in Calls :
        /\ WF_vars(Only(Calling, Check(c))) /\ WF_vars(Only(Calling, End(c)))
        /\ WF_vars(Only(Calling, Get(c)))
        /\ WF_vars(Only(Calling, \E raised \in BOOLEAN : Finish(c, raised)))
    /\ \A t \in K!Threads : WF_warm(Only({"keepwarm"}, K!Step(t)))
    /\ \A c \in Columns : WF_values(Only({"vocabulary"}, D!Background(c)))

MCSpec == MCInit /\ [][MCNext]_<<part, vars, warm, values>> /\ MCFairness

MCTypeOK == TypeOK /\ K!TypeOK /\ D!TypeOK

\* The properties of the machines, by the names they have there; those of one
\* machine that a reader takes together are one.
WarmSound == K!OneSender /\ K!WarmKept /\ K!QuietAfterStop
VocabularySound == D!NewestKept

\* What a thread or a call takes is given back, but for the pool that its readers
\* fill, and a stopped thread ends.
AllGivenBack ==
    /\ SlotReturnedOrJammed
    /\ K!LockReturned /\ K!StoppedEnds
    /\ D!ClaimReleased
=============================================================================
