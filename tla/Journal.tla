------------------------------ MODULE Journal -------------------------------
(***************************************************************************)
(* One stream of the system log: handleJournalSSE of internal/httpserver   *)
(* and Stream, ScanLines and procReader.Close of internal/logs/journal.go. *)
(* The handler closes the reader when it returns, and so does a goroutine  *)
(* of its own when the request's context is done: both close the pipe,     *)
(* kill journalctl and wait for it, in any order.  A third goroutine, of   *)
(* os/exec, kills journalctl when the context is done, and hands its       *)
(* result to one call of Wait and no more.                                 *)
(***************************************************************************)
EXTENDS Naturals

Closer == {"handler", "closer"}

VARIABLES
    browser,    \* "here" or "gone"
    journalctl, \* "running", "exited" or "reaped"
    pipe,       \* the read end of its output
    waited,     \* cmd.ProcessState is set
    at,         \* at[c]: where the handler and the closing goroutine are
    watch       \* where the goroutine of os/exec is

journalVars == <<browser, journalctl, pipe, waited, at, watch>>

(* The stream was started; handler and closer wait for its end. *)
JournalInit ==
    /\ browser = "here" /\ journalctl = "running" /\ pipe = "open" /\ waited = FALSE
    /\ at = [c \in Closer |-> "stream"]
    /\ watch = "watching"

(* The context of a request is done when its connection is closed or its   *)
(* handler has returned.                                                   *)
ContextDone == browser = "gone" \/ at["handler"] = "done"
Move(c, pc) == at' = [at EXCEPT ![c] = pc]
Killed == IF journalctl = "running" THEN "exited" ELSE journalctl

----------------------------------------------------------------------------
(* ScanLines: no more output, or the other goroutine closed the pipe.      *)
ScanEnds ==
    /\ at["handler"] = "stream"
    /\ journalctl # "running" \/ pipe = "closed"
    /\ Move("handler", "close")
    /\ UNCHANGED <<browser, journalctl, pipe, waited, watch>>

(* A line that is longer than the scanner's buffer ends it as well. *)
LineTooLong ==
    /\ at["handler"] = "stream"
    /\ Move("handler", "close")
    /\ UNCHANGED <<browser, journalctl, pipe, waited, watch>>

AwaitDone ==
    /\ at["closer"] = "stream" /\ ContextDone
    /\ Move("closer", "close")
    /\ UNCHANGED <<browser, journalctl, pipe, waited, watch>>

(* procReader.Close up to Wait. *)
CloseAndKill(c) ==
    /\ at[c] = "close"
    /\ pipe' = "closed" /\ journalctl' = Killed
    /\ Move(c, "wait")
    /\ UNCHANGED <<browser, waited, watch>>

(* A wrong variant: a process that was killed needs no waiting for. *)
WaitNever(c) ==
    /\ at[c] = "wait"
    /\ Move(c, "done")
    /\ UNCHANGED <<browser, journalctl, pipe, waited, watch>>

(* Wait returns at once after another call has returned from the kernel.   *)
Wait(c) ==
    /\ at[c] = "wait"
    /\ Move(c, IF waited THEN "done" ELSE "reap")
    /\ UNCHANGED <<browser, journalctl, pipe, waited, watch>>

(* The kernel lets one of two callers reap the process; ProcessState is    *)
(* what that call returned, nothing for the other.                         *)
Reap(c) ==
    /\ at[c] = "reap" /\ journalctl # "running"
    /\ journalctl' = "reaped" /\ waited' = (journalctl = "exited")
    /\ Move(c, "result")
    /\ UNCHANGED <<browser, pipe, watch>>

(* Wait takes the result of the watching goroutine, which is there once:   *)
(* a second call that got this far never returns.                          *)
TakeResult(c) ==
    /\ at[c] = "result" /\ watch # "done"
    /\ watch' = "done"
    /\ Move(c, "done")
    /\ UNCHANGED <<browser, journalctl, pipe, waited>>

Watch ==
    /\ watch = "watching" /\ ContextDone
    /\ journalctl' = Killed /\ watch' = "offer"
    /\ UNCHANGED <<browser, pipe, waited, at>>

----------------------------------------------------------------------------
LeavePage ==
    /\ browser = "here" /\ browser' = "gone"
    /\ UNCHANGED <<journalctl, pipe, waited, at, watch>>

JournalctlExits ==
    /\ journalctl = "running" /\ journalctl' = "exited"
    /\ UNCHANGED <<browser, pipe, waited, at, watch>>

(* Another stream, once this one is over or stuck. *)
FollowJournal ==
    /\ browser = "gone" /\ \A c \in Closer : at[c] \in {"result", "done"}
    /\ watch = "done"
    /\ browser' = "here" /\ journalctl' = "running" /\ pipe' = "open" /\ waited' = FALSE
    /\ at' = [c \in Closer |-> "stream"] /\ watch' = "watching"

CloserStep(c) == CloseAndKill(c) \/ Wait(c) \/ Reap(c) \/ TakeResult(c)

JournalNext ==
    \/ ScanEnds \/ LineTooLong \/ AwaitDone \/ Watch
    \/ \E c \in Closer : CloserStep(c)
    \/ LeavePage \/ JournalctlExits \/ FollowJournal

(* Goroutines run; nobody has to leave and journalctl need not end.        *)
JournalFairness ==
    /\ WF_journalVars(ScanEnds) /\ WF_journalVars(AwaitDone) /\ WF_journalVars(Watch)
    /\ \A c \in Closer : WF_journalVars(CloserStep(c))

----------------------------------------------------------------------------
(* Stream: "Closing the reader (or cancelling ctx) stops journalctl."      *)
(* Whichever of browser, journalctl, handler and goroutine is first, a     *)
(* journalctl whose stream is over is ended and reaped, no zombie is left. *)
JournalctlIsReaped ==
    browser = "gone" \/ journalctl = "exited" \/ pipe = "closed" ~> journalctl = "reaped"
=============================================================================
