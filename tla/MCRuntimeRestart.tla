-------------------------- MODULE MCRuntimeRestart --------------------------
(* What one process leaves to the next.  A behaviour is of the runtime with   *)
(* its admissions, of the durable output of two turns of a task, or of the    *)
(* output of two tasks that share the quota, and leaves the others alone.     *)
EXTENDS RuntimeRestart, OutputSpool

CONSTANTS t1, t2, t3

\* One task of each kind.
Mixed == t1 :> "ordinary" @@ t2 :> "retry" @@ t3 :> "gateway"

\* Tokens are fresh and alike: the processes take them in the order 1, 2, ...
TokensInOrder ==
    \A k \in Token : phase'[k] # "new" => \A j \in 1..(k - 1) : phase'[j] # "new"

\* Two turns of one task.  The first text has a wide character that does not
\* fit into its first segment; the second is a single segment sent in two parts.
MCTaskOf == <<"t1", "t1">>
MCTextOf == <<<<2, 2>>, <<1, 2>>>>

\* A turn of each of two tasks, through one orderly restart.
Two == INSTANCE OutputSpool WITH TaskOf <- <<"t1", "t2">>, SpoolFaults <- 0, MaxEpoch <- 2

VARIABLE left

restartVars == <<left, vars, spoolVars>>

RestartInit ==
    /\ Init
    /\ \/ left \in {"admissions", "output"} /\ SpoolInit
       \/ left = "outputs" /\ Two!SpoolInit

\* A bridge with no output left to deliver and no start left rests.
RestartNext ==
    /\ UNCHANGED left
    /\ \/ left = "admissions" /\ Next /\ TokensInOrder /\ UNCHANGED spoolVars
       \/ left = "output" /\ (SpoolNext \/ UNCHANGED spoolVars) /\ UNCHANGED vars
       \/ left = "outputs" /\ (Two!SpoolNext \/ UNCHANGED spoolVars) /\ UNCHANGED vars

RestartSpec ==
    /\ RestartInit /\ [][RestartNext]_restartVars
    /\ ShutdownFair
    /\ WF_spoolVars(left # "admissions" /\ ~Settled /\ DrainStep)

\* The handoff is about the admissions only.
HandoffSpec == RestartInit /\ left = "admissions" /\ [][RestartNext]_restartVars

\* SpoolSound of the setting: rows, files and the quota account for each other at every
\* moment, also when two tasks share the quota.
OutputSound == IF left = "outputs" THEN Two!SpoolSound ELSE SpoolSound

\* StartRefusedOnlyByLeftovers of the setting: a start is refused only by a temp file in
\* a set it has to settle, or for want of room for an output it has to publish.
StartNotRefused ==
    IF left = "outputs" THEN Two!StartRefusedOnlyByLeftovers ELSE StartRefusedOnlyByLeftovers

\* A shutdown ends although the worker may hang in a task, and the drain delivers or
\* gives up every sealed output, also one whose claim a dead process left behind.
RestartSettles == []<>(NoneStopping /\ Settled)
=============================================================================
