--------------------------- MODULE TerminalBridge ---------------------------
(***************************************************************************)
(* One web terminal: handleTerminalWS of internal/httpserver and Dial and  *)
(* Close of internal/terminal, with the goroutines they start.             *)
(*                                                                         *)
(*   handler   the WebSocket handler: auth frame, dial, keys, clean up     *)
(*   out       goroutine of the handler: shell output to the browser       *)
(*   copier    goroutine of the ssh library: channel to the io.Pipe        *)
(*   waiter    goroutine of Dial: closes the pipe after sess.Wait          *)
(*                                                                         *)
(* An io.Pipe has no buffer: a write waits for a read or for the reader's  *)
(* end to close.  sess.Wait returns when the shell has exited and the      *)
(* copier has ended.  With a PTY, stderr is empty and its copier idle.     *)
(***************************************************************************)
EXTENDS Integers

CONSTANTS
    MaxOutput,  \* bound: chunks the shell prints
    MaxKeys     \* bound: frames with keys that are on their way

ASSUME MaxOutputAssumption == MaxOutput \in Nat
ASSUME MaxKeysAssumption == MaxKeys \in Nat

VARIABLES
    handler,    \* where handleTerminalWS is
    out,        \* where the output goroutine is
    copier,     \* where the ssh library's copying goroutine is
    waiter,     \* where the waiting goroutine is
    conn,       \* the server's end of the WebSocket
    peer,       \* the browser: "here" or "gone"
    shell,      \* the shell at the other end of the ssh channel
    typed,      \* frames with keys on their way to the handler
    printed,    \* chunks the shell has printed
    copied,     \* chunks the copier has taken from the channel
    sent,       \* chunks written to the WebSocket
    refused     \* history: a key found the shell gone

goroutines == <<handler, out, copier, waiter>>
keys == <<typed, refused>>
chunks == <<printed, copied, sent>>
bridgeVars == <<goroutines, conn, peer, shell, keys, chunks>>

BridgeTypeOK ==
    /\ handler \in {"auth", "dial", "opened", "read", "write", "closeShell",
                    "closeConn", "done"}
    /\ out \in {"none", "read", "send", "eof", "done"}
    /\ copier \in {"none", "copy", "put", "done"}
    /\ waiter \in {"none", "wait", "done"}
    /\ conn \in {"open", "closed"}
    /\ peer \in {"here", "gone"}
    /\ shell \in {"none", "running", "exited"}
    /\ typed \in 0..MaxKeys
    /\ printed \in 0..MaxOutput
    /\ copied \in 0..printed
    /\ sent \in 0..copied
    /\ refused \in BOOLEAN

(* The WebSocket was upgraded. *)
BridgeInit ==
    /\ handler = "auth" /\ out = "none" /\ copier = "none" /\ waiter = "none"
    /\ conn = "open" /\ peer = "here" /\ shell = "none"
    /\ printed = 0 /\ copied = 0 /\ sent = 0
    /\ typed = 0 /\ refused = FALSE

----------------------------------------------------------------------------
(* Wrong variants of actions below: each is a bug a property must catch.   *)

(* A waiter that does not wait for the output to be copied. *)
WaitForExit ==
    /\ waiter = "wait" /\ shell = "exited"
    /\ waiter' = "done"
    /\ UNCHANGED <<handler, out, copier, conn, peer, shell, keys, chunks>>

(* An output goroutine that leaves the WebSocket open at the end. *)
OutEofKeepsConn ==
    /\ out = "eof"
    /\ out' = "done"
    /\ UNCHANGED <<handler, copier, waiter, conn, peer, shell, keys, chunks>>

(* An output goroutine that leaves what it read where it was. *)
OutReadAgain ==
    /\ out = "read"
    /\ \/ copier = "put" /\ out' = "send"
       \/ waiter = "done" /\ out' = "eof"
    /\ UNCHANGED <<handler, copier, waiter, conn, peer, shell, keys, chunks>>

----------------------------------------------------------------------------
(* The handler. *)

(* The first frame: no frame or a bad one ends the handler. *)
ReadAuth ==
    /\ handler = "auth"
    /\ handler' \in {"dial", "closeConn"}
    /\ UNCHANGED <<out, copier, waiter, conn, peer, shell, keys, chunks>>

(* Dial: on an error whatever was opened is closed again, and a row and a   *)
(* message say so.                                                         *)
Dial ==
    /\ handler = "dial"
    /\ \/ /\ shell' = "running" /\ copier' = "copy" /\ waiter' = "wait"
          /\ handler' = "opened"
       \/ UNCHANGED <<shell, copier, waiter>> /\ handler' = "closeConn"
    /\ UNCHANGED <<out, conn, peer, keys, chunks>>

(* The audit row terminal_open; the output goroutine starts. *)
StartOutput ==
    /\ handler = "opened"
    /\ out' = "read" /\ handler' = "read"
    /\ UNCHANGED <<copier, waiter, conn, peer, shell, keys, chunks>>

(* ReadMessage: frames sent before the browser left still arrive.  Text    *)
(* frames only resize the PTY.  At the end the deferred calls run.         *)
ReadFrame ==
    /\ handler = "read"
    /\ \/ conn = "open" /\ typed > 0 /\ typed' = typed - 1 /\ handler' = "write"
       \/ /\ conn = "closed" \/ (peer = "gone" /\ typed = 0)
          /\ handler' = "closeShell" /\ UNCHANGED typed
    /\ UNCHANGED <<out, copier, waiter, conn, peer, shell, refused, chunks>>

(* sess.Write: returns when the shell took the keys, or fails. *)
WriteKeys ==
    /\ handler = "write"
    /\ handler' = IF shell = "running" THEN "read" ELSE "closeShell"
    /\ refused' = (shell # "running")
    /\ UNCHANGED <<out, copier, waiter, conn, peer, shell, typed, chunks>>

(* The deferred calls: the audit row terminal_close, then the ssh session, *)
CloseShell ==
    /\ handler = "closeShell"
    /\ shell' = "exited" /\ handler' = "closeConn"
    /\ UNCHANGED <<out, copier, waiter, conn, peer, keys, chunks>>

(* and last the WebSocket. *)
CloseConn ==
    /\ handler = "closeConn"
    /\ conn' = "closed" /\ handler' = "done"
    /\ UNCHANGED <<out, copier, waiter, peer, shell, keys, chunks>>

----------------------------------------------------------------------------
(* The other goroutines. *)

(* sess.Read: takes the chunk the copier offers, or finds the pipe closed. *)
OutRead ==
    /\ out = "read"
    /\ \/ copier = "put" /\ copier' = "copy" /\ out' = "send"
       \/ waiter = "done" /\ out' = "eof" /\ UNCHANGED copier
    /\ UNCHANGED <<handler, waiter, conn, peer, shell, keys, chunks>>

(* WriteMessage: after the browser left it may succeed for a while. *)
OutSend ==
    /\ out = "send"
    /\ \/ conn = "open" /\ sent' = sent + 1 /\ out' = "read"
       \/ (conn = "closed" \/ peer = "gone") /\ out' = "done" /\ UNCHANGED sent
    /\ UNCHANGED <<handler, copier, waiter, conn, peer, shell, keys, printed, copied>>

OutEof ==
    /\ out = "eof"
    /\ conn' = "closed" /\ out' = "done"
    /\ UNCHANGED <<handler, copier, waiter, peer, shell, keys, chunks>>

(* The channel's buffer is read to its end also after the shell exited. *)
Copy ==
    /\ copier = "copy"
    /\ \/ copied < printed /\ copier' = "put" /\ copied' = copied + 1
       \/ copied = printed /\ shell = "exited" /\ copier' = "done" /\ UNCHANGED copied
    /\ UNCHANGED <<handler, out, waiter, conn, peer, shell, keys, printed, sent>>

(* sess.Wait, then pw.Close. *)
WaitForShell ==
    /\ waiter = "wait" /\ shell = "exited" /\ copier = "done"
    /\ waiter' = "done"
    /\ UNCHANGED <<handler, out, copier, conn, peer, shell, keys, chunks>>

----------------------------------------------------------------------------
(* The browser and the shell. *)

Type ==
    /\ peer = "here" /\ conn = "open" /\ typed < MaxKeys
    /\ typed' = typed + 1
    /\ UNCHANGED <<goroutines, conn, peer, shell, refused, chunks>>

CloseTab ==
    /\ peer = "here"
    /\ peer' = "gone"
    /\ UNCHANGED <<goroutines, conn, shell, keys, chunks>>

ShellPrints ==
    /\ shell = "running" /\ printed < MaxOutput
    /\ printed' = printed + 1
    /\ UNCHANGED <<goroutines, conn, peer, shell, keys, copied, sent>>

(* The user logs out, or sshd goes away. *)
ShellExits ==
    /\ shell = "running"
    /\ shell' = "exited"
    /\ UNCHANGED <<goroutines, conn, peer, keys, chunks>>

HandlerStep == Dial \/ StartOutput \/ ReadFrame \/ WriteKeys \/ CloseShell \/ CloseConn

BridgeNext ==
    \/ ReadAuth \/ HandlerStep
    \/ OutRead \/ OutSend \/ OutEof \/ Copy \/ WaitForShell
    \/ Type \/ CloseTab \/ ShellPrints \/ ShellExits

(* Goroutines are scheduled; the browser reads and the shell takes keys    *)
(* until they are gone.                                                    *)
BridgeFairness ==
    /\ WF_bridgeVars(ReadAuth /\ peer = "gone") /\ WF_bridgeVars(HandlerStep)
    /\ WF_bridgeVars(OutRead) /\ WF_bridgeVars(OutSend) /\ WF_bridgeVars(OutEof)
    /\ WF_bridgeVars(Copy) /\ WF_bridgeVars(WaitForShell)

BridgeSpec == BridgeInit /\ [][BridgeNext]_bridgeVars /\ BridgeFairness

----------------------------------------------------------------------------
(* What the shell printed before it exited is on the WebSocket before that *)
(* is closed, unless the browser left or typed on into the ended shell.    *)
OutputComplete ==
    conn = "closed" /\ shell # "none" /\ peer = "here" /\ ~refused => sent = printed

(* When one side ends so does the other, whatever the goroutines wait for: *)
(* no shell is left without a browser, no browser without a shell.         *)
BothEnd ==
    (shell # "none" /\ (peer = "gone" \/ shell = "exited"))
        ~> (handler = "done" /\ conn = "closed" /\ shell = "exited")
=============================================================================
