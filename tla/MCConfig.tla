------------------------------ MODULE MCConfig ------------------------------
(* Small instances of ConfigVersions: in one run two admins on an engine    *)
(* that serialises transactions, with crashes, and one admin on the engine  *)
(* of the constants, with a question being answered; in another two admins  *)
(* on that engine.                                                          *)
EXTENDS ConfigVersions

CONSTANT First   \* the admin of the second instance
VARIABLES
    part,
    upset        \* history: since the last version was applied with nobody else
                 \* writing files, what can leave other files than its own has happened

ASSUME FirstIsAdmin == First \in Admins

\* schema.yaml is the last of CONFIG_FILENAMES.
TwoFiles == <<"aliases.yaml", "schema.yaml">>
ThreeFiles == <<"aliases.yaml", "entities.yaml", "schema.yaml">>

Shared == INSTANCE ConfigVersions WITH Serialised <- TRUE, Crashes <- TRUE

\* a's version is applied, and its files are written next.
Applies(a) == ~At(a, "disk") /\ At(a, "disk")'

\* Files other than the active version's: somebody else is writing too, the version
\* was overtaken before it was applied, the process stops between two files, or
\* the active version is taken back.
Upsets(a) == (\E b \in Admins \ {a} : At(b, "disk")) \/ admin'[a].vid # Active'
Stops == \E a \in Admins : At(a, "disk") /\ At(a, "idle")'
Remember ==
    upset' = IF \E a \in Admins : Applies(a)
             THEN \E a \in Admins : Applies(a) /\ Upsets(a)
             ELSE upset \/ Stops \/ Active' # Active

MCInit == Init /\ part \in {"shared", "alone"} /\ upset = FALSE
MCNext ==
    /\ UNCHANGED part
    /\ \/ part = "shared" /\ Shared!Next /\ UNCHANGED asker
       \/ /\ part = "alone" /\ Next
          \* One admin, with three versions.
          /\ \A a \in Admins \ {First} : admin'[a] = admin[a]
          /\ admin'[First].pc = "check" => Len(versions) < 3
    /\ Remember

MCSpec == MCInit /\ [][MCNext]_<<part, upset, vars>>

\* The constants' own instance, by itself (ConfigLostUpdate).
OneSpec ==
    /\ Init /\ part = "one" /\ upset = FALSE
    /\ [][Next /\ Remember /\ UNCHANGED part]_<<part, upset, vars>>

\* "Applying a version always writes the bundle to project_config_dir": whenever no
\* request is writing files they are those of the active version, drafts,
\* rejections and restarts between requests included, unless two requests wrote at
\* once, one was overtaken or the process stopped in the middle; and the next
\* version applied alone puts that right (_write_bundle_to_disk).
DiskFollows ==
    (\A a \in Admins : ~At(a, "disk")) /\ ~upset => disk = versions[Active].content
=============================================================================
