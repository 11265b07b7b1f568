---------------------------- MODULE MCExecution ----------------------------
(* The execution of a task behind the worker, at its two levels.  A behaviour *)
(* is either of the leased dispatcher with its supervisors, or of the ACP     *)
(* backend that it drives, and leaves the other one alone.                    *)
EXTENDS AcpBackend, LeasedDispatcher

CONSTANTS t1, t2

VARIABLE level

execVars == <<level, acpVars, vars>>

ExecInit == level \in {"dispatcher", "backend"} /\ AcpInit /\ Init

\* The two tasks are interchangeable: t1 is delivered first.
ExecNext ==
    /\ UNCHANGED level
    /\ \/ level = "backend" /\ AcpNext /\ UNCHANGED vars
       \/ level = "dispatcher" /\ Next /\ (t1 \in todo' => t2 \in todo') /\ UNCHANGED acpVars

\* The liveness of the dispatcher is that of one task: t2 stays where it is.  The
\* dispatcher owes something while the worker waits for it or has gone.
Owing == t2 \in todo /\ (Waiting \/ (worker.pc = "gone" /\ phase # "down"))
\* Spawned tasks and the worker are polled; run_turn ends within max_inactivity and
\* max_wall_time, and max_turns bounds the loop.
Alone(step) == level = "dispatcher" /\ Owing /\ step

ExecSpec ==
    /\ ExecInit /\ [][ExecNext]_execVars
    /\ BridgeFair /\ StdoutFair
    /\ WF_vars(Alone(Execute)) /\ WF_vars(Alone(Pauser))
    /\ WF_vars(Alone(ShutdownDrains)) /\ WF_vars(Alone(ShutdownEnds))
    /\ WF_vars(Alone(Waiter(t1))) /\ WF_vars(Alone(Runner(t1)))
    /\ SF_vars(Alone(RunnerExhausts(t1))) /\ WF_vars(Alone(Cleanup(t1)))

\* Every call of the worker into the dispatcher returns, the dispatcher's shutdown joins
\* every supervisor and every cleanup, and a runtime that stops its adapter leaves no
\* agent behind.
ExecutionSettles == []<>(ChildrenGone /\ ~Owing)
=============================================================================
