--------------------------- MODULE GpioInductive ---------------------------
(* The inductive invariant behind the theorems of GpioProofs. *)
EXTENDS GpioLines

(* Requests that work on one line. *)
OnLine == PC \ {"idle", "chips", "done", "dead"}
(* Requests that have a line open as an input. *)
Reading == {"sample", "remember", "close"}
(* Requests that list the lines. *)
Listing == {"chips", "entry"}

LineTyped == \A q \in Request : req[q].pc \in OnLine => req[q].line \in Line

(* While a request reads a line the kernel gives it to nobody else. *)
ReadingIsOwner == \A q \in Request : req[q].pc \in Reading => owner[req[q].line] = q

SampleTyped == \A q \in Request : At(q, "remember") => req[q].value \in Level

(* The mutex is locked by the request that lists the lines. *)
MutexIsListing ==
    \A q \in Request : req[q].pc \in Listing <=> (mu = q)

(* Where a request is tells what it is for. *)
PlaceTellsKind ==
    \A q \in Request :
        /\ req[q].pc \in Listing => req[q].kind = "page"
        /\ req[q].pc \in OnLine \ Listing => req[q].kind # "page"
        /\ At(q, "release") => req[q].kind = "release"

(* Between the two looks at a line, the mutex keeps held as it was. *)
EntryIsUsed ==
    \A q \in Request : At(q, "entry") =>
        /\ ~req[q].row.ours
        /\ held[req[q].line] # None => req[q].row.used

(* What is about to be recorded was done. *)
RecordedWasDriven ==
    \A q \in Request : At(q, "record") /\ req[q].kind = "set" =>
        <<req[q].line, Normal(Atoi(req[q].value))>> \in driven

(* The inductive invariant: the lines, the maps and the mutex agree with    *)
(* the requests under way.                                                 *)
GpioInv ==
    /\ TypeOK
    /\ LineTyped
    /\ ReadingIsOwner
    /\ SampleTyped
    /\ MutexIsListing
    /\ PlaceTellsKind
    /\ EntryIsUsed
    /\ RecordedWasDriven
    /\ HeldIsDriven
    /\ ReadIsForgotten
    /\ PageIsConsistent
    /\ AuditTellsLevel
=============================================================================
