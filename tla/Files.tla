------------------------------- MODULE Files --------------------------------
(***************************************************************************)
(* The file explorer (internal/files/files.go, handlers_files.go): view,   *)
(* edit, save, upload and delete.  Requests run concurrently and nothing   *)
(* locks a file; a write truncates the file first and fills it later, at   *)
(* offset 0, so two of them can leave a mixture and a crash a rest.        *)
(*                                                                         *)
(* A file is a sequence of chunks.  Paths are cleaned names of files; what *)
(* cleanUser and isSensitive say of a name is given by constants.          *)
(***************************************************************************)
EXTENDS Integers, Sequences

CONSTANTS
    Path,       \* cleaned paths
    WriteRoot,  \* those below /etc or /var
    Sensitive,  \* those with the name of a secret
    Writable,   \* the master switch for edit, upload and delete
    Text,       \* chunks of text
    CRLF, LF,   \* the two line ends
    Nul,        \* a chunk that is not text
    ViewCap,    \* chunks a view reads at most (1 MiB)
    UploadCap,  \* chunks an upload may have (16 MiB)
    Upload,     \* contents that are uploaded
    Typed,      \* contents that are typed into the editor
    Request,    \* requests
    None        \* no file, no path, no content

ASSUME WritableAssumption == Writable \in BOOLEAN
ASSUME CapAssumption == ViewCap \in Nat /\ UploadCap \in Nat

VARIABLES
    fs,         \* fs[p]: the content of p, None when there is no such file
    req,        \* req[q]: progress of request q
    audit,      \* the audit rows handed to the store
    last,       \* last[p]: history, what the last finished operation meant
    torn        \* history, paths whose writes overlapped or were cut short

fileVars == <<fs, req, audit, last, torn>>

Chunk == Text \cup {CRLF, LF, Nul}
RequestPC == {"idle", "editing", "locked", "open", "write", "orphan", "remove",
              "restart", "record", "done"}
Kind == {"save", "upload", "delete", "polling"}
NoRequest == [pc |-> "idle", kind |-> None, path |-> None, data |-> None, orig |-> None]

ASSUME ContentAssumption == Upload \cup Typed \subseteq Seq(Chunk)
ASSUME NoneAssumption == None \notin Seq(Chunk) \cup Path \cup Kind

TypeOK ==
    /\ \A p \in Path : fs[p] # None =>
          \A i \in DOMAIN fs[p] : fs[p][i] \in Chunk
    /\ \A q \in Request :
          /\ req[q].pc \in RequestPC
          /\ req[q].kind \in Kind \cup {None}
          /\ req[q].path \in Path \cup {None}
          /\ req[q].pc \in {"open", "write"} => req[q].data # None
    /\ audit \subseteq {"done", "failed"} \X Request
    /\ torn \subseteq Path

InitFiles(contents) ==
    /\ fs \in [Path -> contents]
    /\ req = [q \in Request |-> NoRequest]
    /\ audit = {}
    /\ last = fs
    /\ torn = {}

----------------------------------------------------------------------------
(* CanWrite and checkWrite. *)
CanWrite(p) == Writable /\ p \in WriteRoot /\ p \notin Sensitive

(* isBinary: a NUL, or what is not UTF-8. *)
IsBinary(c) == \E i \in DOMAIN c : c[i] = Nul

(* How much of a content f.Read puts into a buffer of ViewCap + 1.         *)
Fill(c) == IF Len(c) > ViewCap THEN ViewCap + 1 ELSE Len(c)
Gets(p) == IF fs[p] = None THEN {0} ELSE 0..Fill(fs[p])

NoView == [ok |-> FALSE, content |-> None, truncated |-> FALSE, binary |-> FALSE]
View(data, truncated) ==
    [ok |-> TRUE, content |-> data, truncated |-> truncated, binary |-> IsBinary(data)]

(* Wrong variant of Read, a bug a property must catch: a buffer that is    *)
(* full counts as the end of the file.                                     *)
ReadUpTo(p, got) ==
    IF p \in Sensitive \/ fs[p] = None THEN NoView
    ELSE View(SubSeq(fs[p], 1, IF got > ViewCap THEN ViewCap ELSE got), got > ViewCap + 1)

(* Read: a secret or a missing file is refused; otherwise the first        *)
(* ViewCap chunks, whether there are more, and whether it is text.  f.Read *)
(* gets got chunks; when that fails, got is fewer, or 0, and nobody is     *)
(* told: its error is dropped.                                             *)
Read(p, got) ==
    IF p \in Sensitive \/ fs[p] = None THEN NoView
    ELSE View(SubSeq(fs[p], 1, IF got > ViewCap THEN ViewCap ELSE got), got > ViewCap)

(* handleFileSave turns every CRLF into LF. *)
Normal(c) == [i \in DOMAIN c |-> IF c[i] = CRLF THEN LF ELSE c[i]]

(* The editor's text area: HTML has one kind of line end there, and drops  *)
(* one that stands directly behind <textarea>; posted, each is a CRLF.     *)
Shown(c) ==
    LET n == Normal(c) IN IF n # <<>> /\ n[1] = LF THEN SubSeq(n, 2, Len(n)) ELSE n
Posted(c) == [i \in DOMAIN c |-> IF c[i] = LF THEN CRLF ELSE c[i]]

(* The editor's page: nothing can be typed or saved when the view was cut  *)
(* off.                                                                    *)
Page(view) == IF view.truncated THEN "locked" ELSE "editing"

(* What is left of a file when data is written to it from offset 0. *)
Overlay(c, data) == data \o SubSeq(c, Len(data) + 1, Len(c))

At(q, pc) == req[q].pc = pc
Goto(q, pc) == req' = [req EXCEPT ![q].pc = pc]
AddAudit(row, q) == audit' = audit \cup {<<row, q>>}
Busy(p) == {q \in Request : req[q].path = p /\ req[q].pc \in {"write", "remove"}}

(* The request fails with an audit row, having touched nothing. *)
Refuse(q, kind, p) ==
    /\ req' = [req EXCEPT ![q] = [@ EXCEPT !.pc = "done", !.kind = kind, !.path = p]]
    /\ AddAudit("failed", q)
    /\ UNCHANGED <<fs, last, torn>>

----------------------------------------------------------------------------
(* Wrong variants of actions below: each is a bug a property must catch.   *)

(* A write that opens the file without truncating it. *)
OpenInPlace(q) ==
    /\ At(q, "open")
    /\ fs' = [fs EXCEPT ![req[q].path] = IF @ = None THEN <<>> ELSE @]
    /\ Goto(q, "write")
    /\ torn' = IF Busy(req[q].path) = {} THEN torn \ {req[q].path} ELSE torn \cup {req[q].path}
    /\ UNCHANGED <<audit, last>>

(* An upload over the limit is left where it is. *)
WriteKeepsLong(q) ==
    LET p == req[q].path
        long == req[q].kind = "upload" /\ Len(req[q].data) > UploadCap
        data == IF long THEN SubSeq(req[q].data, 1, UploadCap + 1) ELSE req[q].data
    IN
    /\ At(q, "write")
    /\ fs' = [fs EXCEPT ![p] = Overlay(@, data)]
    /\ last' = IF long THEN last ELSE [last EXCEPT ![p] = data]
    /\ Goto(q, IF req[q].kind = "polling" THEN "restart" ELSE "record")
    /\ UNCHANGED <<audit, torn>>

----------------------------------------------------------------------------
(* handleFileEdit shows the editor; orig is the file, if it was read to    *)
(* its end.                                                                *)
Edit(q, p, got) ==
    LET view == Read(p, got) IN
    /\ At(q, "idle")
    /\ CanWrite(p) /\ view.ok /\ ~view.binary
    /\ req' = [req EXCEPT ![q] = [pc |-> Page(view), kind |-> "save", path |-> p,
                                  data |-> Shown(view.content),
                                  orig |-> IF got = Fill(fs[p]) THEN fs[p] ELSE None]]
    /\ UNCHANGED <<fs, audit, last, torn>>

(* handleFileSave: the text as it was shown or another one, for a file     *)
(* that is still there.                                                    *)
Save(q, c) ==
    LET p == req[q].path IN
    /\ At(q, "editing")
    /\ IF CanWrite(p) /\ fs[p] # None
       THEN /\ req' = [req EXCEPT ![q] = [@ EXCEPT !.pc = "open", !.data = Normal(c),
                            !.orig = IF c = Posted(req[q].data) THEN req[q].orig ELSE None]]
            /\ UNCHANGED <<fs, audit, last, torn>>
       ELSE Refuse(q, "save", p)

(* handleFileUpload, for a directory that is there. *)
BeginUpload(q, p, c) ==
    /\ At(q, "idle")
    /\ IF CanWrite(p)
       THEN /\ req' = [req EXCEPT ![q] = [pc |-> "open", kind |-> "upload", path |-> p,
                                          data |-> c, orig |-> None]]
            /\ UNCHANGED <<fs, audit, last, torn>>
       ELSE Refuse(q, "upload", p)

(* The file is created or truncated. *)
Open(q) ==
    LET p == req[q].path IN
    /\ At(q, "open")
    /\ fs' = [fs EXCEPT ![p] = <<>>]
    /\ Goto(q, "write")
    /\ torn' = IF Busy(p) = {} THEN torn \ {p} ELSE torn \cup {p}
    /\ UNCHANGED <<audit, last>>

(* Opening fails: a read-only host, a full disk. *)
OpenFails(q) ==
    /\ At(q, "open")
    /\ Goto(q, "done")
    /\ AddAudit("failed", q)
    /\ UNCHANGED <<fs, last, torn>>

(* The content is written; an upload stops one chunk past its limit.       *)
Write(q) ==
    LET p == req[q].path
        long == req[q].kind = "upload" /\ Len(req[q].data) > UploadCap
        data == IF long THEN SubSeq(req[q].data, 1, UploadCap + 1) ELSE req[q].data
    IN
    /\ At(q, "write")
    /\ fs' = [fs EXCEPT ![p] = Overlay(@, data)]
    /\ last' = IF long THEN last ELSE [last EXCEPT ![p] = data]
    /\ Goto(q, IF long THEN "remove" ELSE IF req[q].kind = "polling" THEN "restart" ELSE "record")
    /\ UNCHANGED <<audit, torn>>

(* The disk is full or the upload breaks off: part of it is left. *)
WriteFails(q) ==
    LET p == req[q].path IN
    /\ At(q, "write")
    /\ \E n \in 0..Len(req[q].data) : fs' = [fs EXCEPT ![p] = Overlay(@, SubSeq(req[q].data, 1, n))]
    /\ torn' = torn \cup {p}
    /\ Goto(q, "done")
    /\ AddAudit("failed", q)
    /\ UNCHANGED last

(* The file was removed while it was open: nobody sees what is written.    *)
WriteOrphan(q) ==
    /\ At(q, "orphan")
    /\ Goto(q, IF req[q].kind = "polling" THEN "restart" ELSE "record")
    /\ UNCHANGED <<fs, audit, last, torn>>

(* os.Remove of p by request q, which is over then.  Whoever writes to the *)
(* file goes on writing to a file without a name.                          *)
Unlink(q, p) ==
    /\ fs' = [fs EXCEPT ![p] = None]
    /\ last' = [last EXCEPT ![p] = None]
    /\ req' = [r \in Request |->
          IF r = q THEN [req[r] EXCEPT !.pc = "done"]
          ELSE IF r \in Busy(p) /\ At(r, "write") THEN [req[r] EXCEPT !.pc = "orphan"]
          ELSE req[r]]
    /\ torn' = IF Busy(p) \ {q} = {} THEN torn \ {p} ELSE torn

(* An upload over the limit removes what it wrote; that the file stays     *)
(* when it cannot be removed, nobody is told.                              *)
RemoveLong(q) ==
    LET p == req[q].path IN
    /\ At(q, "remove")
    /\ \/ fs[p] # None /\ Unlink(q, p)
       \/ /\ Goto(q, "done") /\ UNCHANGED <<fs, last>>
          /\ torn' = IF fs[p] # None THEN torn \cup {p} ELSE torn
    /\ AddAudit("failed", q)

(* handleFileDelete. *)
Delete(q, p) ==
    /\ At(q, "idle")
    /\ IF CanWrite(p) /\ fs[p] # None
       THEN Unlink(q, p) /\ AddAudit("done", q)
       ELSE Refuse(q, "delete", p)

(* The row of an operation that went well. *)
Record(q) ==
    /\ At(q, "record")
    /\ AddAudit("done", q)
    /\ Goto(q, "done")
    /\ UNCHANGED <<fs, last, torn>>

(* The gateway dies: a file that was truncated stays so. *)
Crash ==
    /\ torn' = torn \cup {p \in Path : Busy(p) # {}}
    /\ req' = [q \in Request |-> IF At(q, "idle") THEN req[q] ELSE [req[q] EXCEPT !.pc = "done"]]
    /\ UNCHANGED <<fs, audit, last>>

FileOp(q) ==
    \/ \E p \in Path : \E got \in Gets(p) : Edit(q, p, got)
    \/ \E p \in Path : Delete(q, p) \/ \E c \in Upload : BeginUpload(q, p, c)
    \/ At(q, "editing") /\ \E c \in Typed \cup {Posted(req[q].data)} : Save(q, c)
    \/ Open(q) \/ OpenFails(q) \/ Write(q) \/ WriteFails(q) \/ WriteOrphan(q)
    \/ RemoveLong(q) \/ Record(q)

----------------------------------------------------------------------------
(* A file nobody is writing is what the last operation on it meant, whole  *)
(* and nothing else, as long as its writes did not overlap and none was    *)
(* cut short: truncation, the removal of an upload that is too long and    *)
(* files that vanish while they are open included.                         *)
AtRestIsLast ==
    \A p \in Path : p \notin torn /\ Busy(p) = {} => fs[p] = last[p]

(* Saving a file as the editor showed it changes its line ends to LF and   *)
(* nothing else, but for a first one, which is lost: no file can be saved  *)
(* that the view has cut off.  Of a file that could not be read to its end *)
(* (files.go:253) this says nothing, and it is cut off.                    *)
UntouchedSaveKeeps ==
    \A q \in Request :
        At(q, "open") /\ req[q].orig # None =>
            Normal(req[q].orig) \in {req[q].data, <<LF>> \o req[q].data}
=============================================================================
