----------------------------- MODULE MCUpdates ------------------------------
(* Constants and the bounds of TLC's run of the modules that act on the     *)
(* device's files and its update client, and of the page about the cloud.   *)
EXTENDS UpdatesInductive, Cloud, FiniteSets, TLC

CONSTANTS text, polling_sec, crlf, lf, nul, fragment, doc, compose

Texts == {text, polling_sec} \cup Digit
Decimals == (4 :> <<4>>) @@ (5 :> <<5>>) @@ (100 :> <<1, 0, 0>>)

(* In the order of their names. *)
ConfDirectory == <<fragment, doc>>

Secondaries == <<compose>>

(* Empty, mixed, with a line end in front, past the view's cap, binary.    *)
Contents == {None, <<text, crlf>>, <<lf, text>>, <<text, text, text, text>>, <<nul>>}
Uploads == {<<polling_sec, 4, lf>>, <<text, text, text, text>>}
Typings == {<<text, lf>>}

(* A bound: when a request works through the explorer, at most one other   *)
(* does anything.                                                          *)
AtWork == {q \in Request : req[q] # NoRequest}
FewExplorers ==
    \A q \in AtWork : req[q].kind \in {"save", "upload", "delete"} => Cardinality(AtWork) <= 2

(* The files and the cloud share no state: a behaviour is one of either.   *)
VARIABLE part
updatesParts == <<vars, cloudVars, part>>

MCInit ==
    /\ part \in {"files", "cloud"}
    /\ Init(Contents)
    /\ fs[Fragment] = None
    /\ \A p \in Path \ {Fragment, doc} : fs[p] = <<text, crlf>>
    /\ part = "cloud" => fs[doc] = None
    /\ CloudInit
    /\ part = "files" => installed = NoTargets

MCSpec ==
    /\ MCInit
    /\ [][/\ UNCHANGED part
          /\ \/ part = "files" /\ Next /\ FewExplorers' /\ UNCHANGED cloudVars
             \/ part = "cloud" /\ CloudNext /\ UNCHANGED vars
         ]_updatesParts

Symmetry == Permutations(Request)
=============================================================================
