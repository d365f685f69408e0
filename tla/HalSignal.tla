------------------------------ MODULE HalSignal -----------------------------
(***************************************************************************)
(* test_hal/main.cpp installs signalHandler for SIGTSTP.  The kernel runs  *)
(* it on one of the process's threads, which stays where it was until the  *)
(* handler is done.  The handler calls hal_route_table_usage_get, which    *)
(* takes the table mutex, and then leaves the process with exit.           *)
(***************************************************************************)
EXTENDS Hal

VARIABLES sig,    \* the thread the handler runs on, NoThread before the signal
          exited  \* the process has left through exit

sigVars == <<halVars, sig, exited>>

SigInit == HalInit /\ sig = NoThread /\ exited = FALSE

(* Ctrl+Z: the handler starts on thread t. *)
Deliver(t) ==
  /\ ~exited /\ sig = NoThread
  /\ sig' = t
  /\ UNCHANGED <<halVars, exited>>

(* signalHandler: read the usage under the mutex, which must be free, and exit. *)
SignalHandler ==
  /\ ~exited /\ sig # NoThread /\ table_mutex_ = NoThread
  /\ exited' = TRUE
  /\ UNCHANGED <<halVars, sig>>

(* Every thread but the interrupted one goes on. *)
RunThread(t) == ~exited /\ t # sig /\ ThreadStep(t) /\ UNCHANGED <<sig, exited>>

Traffic == ~exited /\ (\E f \in Flow : Report(f)) /\ UNCHANGED <<sig, exited>>

SigNext ==
  \/ \E t \in Thread : Deliver(t) \/ RunThread(t)
  \/ SignalHandler
  \/ Traffic

SigSpec ==
  /\ SigInit /\ [][SigNext]_sigVars
  /\ \A t \in Thread : WF_sigVars(RunThread(t))
  /\ SF_sigVars(SignalHandler)

(* Ctrl+Z ends the process: once the signal is delivered, it exits. *)
SignalEndsProcess == sig # NoThread ~> exited
=============================================================================
