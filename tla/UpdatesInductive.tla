--------------------------- MODULE UpdatesInductive ----------------------------
(***************************************************************************)
(* The inductive invariants behind the theorems of UpdatesProofs: who has  *)
(* which file open, and what is in it then.                                *)
(***************************************************************************)
EXTENDS Updates

File == Seq(Chunk) \cup {None}
Work == [pc : RequestPC, kind : Kind \cup {None}, path : Path \cup {None},
         data : File, orig : File]

(* A request that is under way has a path, one with a file open a content; *)
(* only an upload removes what it wrote, and only a new one has no kind.   *)
(* What the editor lets be saved is all of a file that was read to its end. *)
Fits(w) ==
    /\ w.pc \notin {"idle", "done"} => w.path \in Path
    /\ w.pc \in {"editing", "open", "write"} => w.data # None
    /\ w.pc = "idle" => w.kind = None
    /\ w.pc = "remove" => w.kind = "upload"
    /\ w.pc = "editing" => w.kind = "save"
    /\ w.pc = "editing" /\ w.orig # None => w.data = Shown(w.orig)
    /\ w.pc = "open" /\ w.orig # None => Normal(w.orig) \in {w.data, <<LF>> \o w.data}

FilesTyped ==
    /\ fs \in [Path -> File] /\ last \in [Path -> File]
    /\ req \in [Request -> Work] /\ \A q \in Request : Fits(req[q])
    /\ audit \subseteq {"done", "failed"} \X Request
    /\ torn \subseteq Path

(* A file that is open for writing has its name; whoever lost it is an     *)
(* orphan.                                                                 *)
WritersHaveFile == \A q \in Request : At(q, "write") => fs[req[q].path] # None

(* A file whose writes did not overlap has one writer at most, is empty    *)
(* until that one writes, and when it vanishes before an upload that is    *)
(* too long removes it, somebody meant that.                               *)
LoneWriter ==
    \A p \in Path \ torn : \A q \in Busy(p) :
        /\ Busy(p) \subseteq {q}
        /\ At(q, "write") => fs[p] = <<>>
        /\ At(q, "remove") /\ fs[p] = None => last[p] = None

FilesInv ==
    /\ FilesTyped
    /\ WritersHaveFile
    /\ LoneWriter
    /\ AtRestIsLast

(* What a polling request carries until it is over. *)
CarriesBody ==
    \A q \in Request : req[q].kind = "polling" /\ req[q].pc # "done" =>
        \E n \in Seconds \cap PollingRange : req[q].data = Body(n)

UpdatesInv ==
    /\ FilesInv
    /\ job \in BOOLEAN /\ unapplied \in BOOLEAN
    /\ CarriesBody
    /\ PollingTakesEffect

(* The explorer and the update client, from any files. *)
UpdatesSpec == Init(File) /\ [][Next]_vars
=============================================================================
