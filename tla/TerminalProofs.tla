--------------------------- MODULE TerminalProofs ---------------------------
(***************************************************************************)
(* Proofs about one web terminal, for every amount of output and keys: the *)
(* output is on the WebSocket before that is closed.                       *)
(***************************************************************************)
EXTENDS TerminalBridge, TLAPS

(* Before the shell is there nothing is copied, and no key was refused.    *)
NotDialed ==
    handler \in {"auth", "dial"} =>
        /\ shell = "none" /\ conn = "open"
        /\ copier = "none" /\ waiter = "none" /\ out = "none"
        /\ copied = 0 /\ refused = FALSE

DialedHasShell == handler \in {"opened", "read", "write", "closeShell"} => shell # "none"

(* A chunk is with the copier, with the output goroutine or sent, until    *)
(* the output goroutine has ended.                                         *)
ChunksAccountedFor ==
    /\ out = "none" => sent = 0
    /\ handler = "opened" => out = "none"
    /\ out # "done" =>
           copied = sent + (IF copier = "put" THEN 1 ELSE 0) + (IF out = "send" THEN 1 ELSE 0)

(* The goroutines end one after the other. *)
EndsInOrder ==
    /\ copier = "done" => shell = "exited" /\ copied = printed
    /\ waiter = "done" => copier = "done"
    /\ out = "eof" => waiter = "done"
    /\ conn = "closed" => shell # "running"

(* The handler leaves for a reason, a refused key is one. *)
LeavesForReason ==
    /\ handler \in {"closeShell", "closeConn"} =>
           shell = "none" \/ conn = "closed" \/ peer = "gone" \/ refused
    /\ handler = "closeConn" => shell # "running"
    /\ handler = "done" => conn = "closed"
    /\ refused => handler \in {"closeShell", "closeConn", "done"}

(* The inductive invariant: where the goroutines are tells where the       *)
(* chunks are.                                                             *)
BridgeInv ==
    /\ BridgeTypeOK
    /\ NotDialed
    /\ DialedHasShell
    /\ ChunksAccountedFor
    /\ EndsInOrder
    /\ LeavesForReason
    /\ OutputComplete

----------------------------------------------------------------------------
(* A session starts without a shell and with nothing printed.              *)
LEMMA InitBridge == BridgeInit => BridgeInv
<1> SUFFICES ASSUME BridgeInit PROVE BridgeInv
    OBVIOUS
<1>1. BridgeTypeOK
  <2>1. typed \in 0..MaxKeys /\ printed \in 0..MaxOutput
    BY MaxOutputAssumption, MaxKeysAssumption DEF BridgeInit
  <2>2. copied \in 0..printed /\ sent \in 0..copied
    BY DEF BridgeInit
  <2>3. refused \in BOOLEAN
    BY DEF BridgeInit
  <2> QED
    BY <2>1, <2>2, <2>3 DEF BridgeInit, BridgeTypeOK
<1>2. NotDialed /\ DialedHasShell
  BY DEF BridgeInit, NotDialed, DialedHasShell
<1>3. ChunksAccountedFor
  BY DEF BridgeInit, ChunksAccountedFor
<1>4. EndsInOrder /\ LeavesForReason /\ OutputComplete
  BY DEF BridgeInit, EndsInOrder, LeavesForReason, OutputComplete
<1> QED
  BY <1>1, <1>2, <1>3, <1>4 DEF BridgeInv

(* No step of a goroutine, of the browser or of the shell loses a chunk.   *)
LEMMA NextBridge == BridgeInv /\ [BridgeNext]_bridgeVars => BridgeInv'
<1> SUFFICES ASSUME BridgeInv, [BridgeNext]_bridgeVars PROVE BridgeInv'
    OBVIOUS
<1> USE MaxOutputAssumption, MaxKeysAssumption
<1> USE DEF BridgeInv, BridgeTypeOK, NotDialed, DialedHasShell, ChunksAccountedFor,
            EndsInOrder, LeavesForReason, OutputComplete
<1>1. CASE ReadAuth
  BY <1>1 DEF ReadAuth, keys, chunks
<1>2. CASE Dial
  BY <1>2 DEF Dial, keys, chunks
<1>3. CASE StartOutput
  BY <1>3 DEF StartOutput, keys, chunks
<1>4. CASE ReadFrame
  BY <1>4 DEF ReadFrame, chunks
<1>5. CASE WriteKeys
  BY <1>5 DEF WriteKeys, chunks
<1>6. CASE CloseShell
  BY <1>6 DEF CloseShell, keys, chunks
<1>7. CASE CloseConn
  BY <1>7 DEF CloseConn, keys, chunks
<1>8. CASE OutRead
  BY <1>8 DEF OutRead, keys, chunks
<1>9. CASE OutSend
  BY <1>9 DEF OutSend, keys
<1>10. CASE OutEof
  BY <1>10 DEF OutEof, keys, chunks
<1>11. CASE Copy
  BY <1>11 DEF Copy, keys
<1>12. CASE WaitForShell
  BY <1>12 DEF WaitForShell, keys, chunks
<1>13. CASE Type
  BY <1>13 DEF Type, goroutines, chunks
<1>14. CASE CloseTab
  BY <1>14 DEF CloseTab, goroutines, keys, chunks
<1>15. CASE ShellPrints
  BY <1>15 DEF ShellPrints, goroutines, keys
<1>16. CASE ShellExits
  BY <1>16 DEF ShellExits, goroutines, keys, chunks
<1>17. CASE UNCHANGED bridgeVars
  BY <1>17 DEF bridgeVars, goroutines, keys, chunks
<1> QED
  BY <1>1, <1>2, <1>3, <1>4, <1>5, <1>6, <1>7, <1>8, <1>9, <1>10, <1>11, <1>12,
     <1>13, <1>14, <1>15, <1>16, <1>17 DEF BridgeNext, HandlerStep

THEOREM BridgeCorrect == BridgeSpec => []BridgeInv
  BY InitBridge, NextBridge, PTL DEF BridgeSpec

(* The goroutines of a session and its chunks stay what they are.          *)
THEOREM BridgeTyped == BridgeSpec => []BridgeTypeOK
<1>1. BridgeInv => BridgeTypeOK
  BY DEF BridgeInv
<1> QED
  BY <1>1, BridgeCorrect, PTL

(* handleTerminalWS and Dial: everything the shell printed before it       *)
(* exited has been sent when the WebSocket is closed, unless the browser   *)
(* left or a key was typed into the ended shell.                           *)
THEOREM OutputCorrect == BridgeSpec => []OutputComplete
<1>1. BridgeInv => OutputComplete
  BY DEF BridgeInv
<1> QED
  BY <1>1, BridgeCorrect, PTL
=============================================================================
