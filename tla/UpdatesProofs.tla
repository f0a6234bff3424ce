----------------------------- MODULE UpdatesProofs -----------------------------
(***************************************************************************)
(* The file explorer and the polling interval, for any paths, contents,    *)
(* caps and requests: a file at rest is what the last operation meant,     *)
(* saving what the editor showed changes line ends only, and aktualizr     *)
(* runs the interval on file once all requests are through.  After that,   *)
(* the page about the cloud, for any ECUs and releases: the state on it    *)
(* was the state of the device while the page was made.                    *)
(***************************************************************************)
EXTENDS UpdatesInductive, Cloud, SequenceTheorems, WellFoundedInduction, TLAPS

----------------------------------------------------------------------------
(* What the operators make of a content is a content.                      *)
LEMMA NoneIsNoContent == None \notin Seq(Chunk)
  BY NoneAssumption

LEMMA PrefixTyped ==
    ASSUME NEW C, NEW c \in Seq(C), NEW n \in 0..Len(c)
    PROVE  SubSeq(c, 1, n) \in Seq(C)
  BY SubSeqProperties

LEMMA OverlayTyped ==
    ASSUME NEW C, NEW c \in Seq(C), NEW data \in Seq(C)
    PROVE  Overlay(c, data) \in Seq(C)
<1>1. Len(data) + 1 \in 1..(Len(c) + 1) \/ Len(data) + 1 > Len(c)
  OBVIOUS
<1>2. SubSeq(c, Len(data) + 1, Len(c)) \in Seq(C)
  BY <1>1, SubSeqProperties, SubSeqEmpty, EmptySeq
<1>3. QED
  BY <1>2, ConcatProperties DEF Overlay

(* Writing to an empty file leaves what is written. *)
LEMMA OverlayEmpty ==
    ASSUME NEW C, NEW data \in Seq(C)
    PROVE  Overlay(<<>>, data) = data
<1>1. SubSeq(<<>>, Len(data) + 1, Len(<<>>)) = <<>>
  BY SubSeqEmpty, EmptySeq
<1>2. QED
  BY <1>1, ConcatEmptySeq DEF Overlay

LEMMA NormalTyped ==
    ASSUME NEW C, LF \in C, NEW c \in Seq(C)
    PROVE  /\ Normal(c) \in Seq(C) /\ Len(Normal(c)) = Len(c)
           /\ \A i \in 1..Len(c) : Normal(c)[i] = IF c[i] = CRLF THEN LF ELSE c[i]
<1>1. Normal(c) \in [1..Len(c) -> C]
  BY DEF Normal
<1>2. QED
  BY <1>1, SeqDef DEF Normal

LEMMA PostedTyped ==
    ASSUME NEW c \in Seq(Chunk)
    PROVE  /\ Posted(c) \in Seq(Chunk) /\ Len(Posted(c)) = Len(c)
           /\ \A i \in 1..Len(c) : Posted(c)[i] = IF c[i] = LF THEN CRLF ELSE c[i]
<1>1. Posted(c) \in [1..Len(c) -> Chunk]
  BY DEF Posted, Chunk
<1>2. QED
  BY <1>1, SeqDef DEF Posted

(* The text area shows the normal form without a first line end. *)
LEMMA ShownIsNormal ==
    ASSUME NEW c \in Seq(Chunk)
    PROVE  /\ Shown(c) \in Seq(Chunk)
           /\ Normal(c) \in {Shown(c), <<LF>> \o Shown(c)}
           /\ \A i \in 1..Len(Shown(c)) : Shown(c)[i] = CRLF => CRLF = LF
<1> DEFINE n == Normal(c)
           d == SubSeq(n, 2, Len(n))
<1>1. n \in Seq(Chunk) /\ \A i \in 1..Len(n) : n[i] = CRLF => CRLF = LF
  BY NormalTyped DEF Chunk
<1>2. Shown(c) = IF n # <<>> /\ n[1] = LF THEN d ELSE n
  BY DEF Shown
<1> HIDE DEF n
<1>3. CASE n # <<>> /\ n[1] = LF
  <2>1. Len(n) \in Nat \ {0} /\ n[1] \in Chunk
    BY <1>1, <1>3, EmptySeq
  <2>2. d \in Seq(Chunk) /\ Len(d) = Len(n) - 1 /\ \A i \in 1..Len(d) : d[i] = n[i + 1]
    <3> DEFINE N == Len(n)
    <3>1. N \in Int /\ 2 \in Int /\ \A i \in 2..N : n[i] \in Chunk
      BY <1>1, <2>1
    <3>2. /\ d \in Seq(Chunk) /\ Len(d) = IF 2 <= N THEN N - 2 + 1 ELSE 0
          /\ \A i \in 1..(N - 2 + 1) : d[i] = n[2 + i - 1]
      BY <3>1, SubSeqProperties
    <3>3. N \in Nat \ {0}
      BY <2>1
    <3> HIDE DEF d, N
    <3>4. Len(d) = N - 1 /\ \A i \in 1..Len(d) : d[i] = n[i + 1]
      BY <3>2, <3>3
    <3>5. QED
      BY <3>2, <3>4 DEF N
  <2> HIDE DEF d
  <2>3. <<LF>> \o d \in Seq(Chunk) /\ Len(<<LF>> \o d) = Len(n)
    BY <1>1, <1>3, <2>1, <2>2
  <2>4. \A i \in 1..Len(n) : (<<LF>> \o d)[i] = n[i]
    BY <1>1, <1>3, <2>1, <2>2
  <2>5. <<LF>> \o d = n
    BY <1>1, <2>3, <2>4, SeqEqual
  <2>6. \A i \in 1..Len(d) : d[i] = CRLF => CRLF = LF
    BY <1>1, <2>1, <2>2
  <2>7. QED
    BY <1>2, <1>3, <2>2, <2>5, <2>6 DEF n
<1>4. CASE ~(n # <<>> /\ n[1] = LF)
  BY <1>1, <1>2, <1>4 DEF n
<1>5. QED
  BY <1>3, <1>4

(* What is posted as it was shown is saved as it was shown. *)
LEMMA PostedIsShown ==
    ASSUME NEW d \in Seq(Chunk), \A i \in 1..Len(d) : d[i] = CRLF => CRLF = LF
    PROVE  Normal(Posted(d)) = d
<1>1. Posted(d) \in Seq(Chunk) /\ Len(Posted(d)) = Len(d)
  BY PostedTyped
<1>2. Normal(Posted(d)) \in Seq(Chunk) /\ Len(Normal(Posted(d))) = Len(d)
  BY <1>1, NormalTyped DEF Chunk
<1>3. ASSUME NEW i \in 1..Len(d) PROVE Normal(Posted(d))[i] = d[i]
  <2>1. Posted(d)[i] = IF d[i] = LF THEN CRLF ELSE d[i]
    BY PostedTyped
  <2>2. Normal(Posted(d))[i] = IF Posted(d)[i] = CRLF THEN LF ELSE Posted(d)[i]
    BY <1>1, NormalTyped DEF Chunk
  <2>3. QED
    BY <2>1, <2>2
<1>4. QED
  BY <1>2, <1>3, SeqEqual

(* A page shows all of a file that was read to its end. *)
LEMMA ReadTyped ==
    ASSUME NEW p \in Path, fs[p] \in File, NEW got \in Gets(p), Read(p, got).ok
    PROVE  /\ fs[p] \in Seq(Chunk) /\ Read(p, got).content \in Seq(Chunk)
           /\ ~Read(p, got).truncated /\ got = Fill(fs[p]) => Read(p, got).content = fs[p]
<1>1. fs[p] \in Seq(Chunk) /\ p \notin Sensitive
  BY DEF Read, NoView, File
<1>2. got \in 0..Fill(fs[p]) /\ fs[p] # None
  BY <1>1, NoneIsNoContent DEF Gets
<1> DEFINE top == IF got > ViewCap THEN ViewCap ELSE got
<1>3. top \in 0..Len(fs[p]) /\ (~(got > ViewCap) /\ got = Fill(fs[p]) => top = Len(fs[p]))
  BY <1>1, <1>2, CapAssumption DEF Fill
<1>4. Read(p, got).content = SubSeq(fs[p], 1, top) /\ Read(p, got).truncated = (got > ViewCap)
  BY <1>1, <1>2 DEF Read, View
<1> HIDE DEF top
<1>5. SubSeq(fs[p], 1, top) \in Seq(Chunk)
  BY <1>1, <1>3, PrefixTyped
<1>6. SubSeq(fs[p], 1, Len(fs[p])) = fs[p]
  BY <1>1, SubSeqFull
<1>7. QED
  BY <1>1, <1>3, <1>4, <1>5, <1>6

----------------------------------------------------------------------------
(* A request that moves on keeps its shape. *)
LEMMA WorkSet ==
    ASSUME NEW w \in Work, NEW pc \in RequestPC, NEW kind \in Kind \cup {None},
           NEW path \in Path \cup {None}, NEW data \in File, NEW orig \in File
    PROVE  /\ w.path \in Path \cup {None} /\ w.data \in File /\ w.orig \in File
           /\ [w EXCEPT !.pc = pc] \in Work
           /\ [w EXCEPT !.pc = pc, !.kind = kind, !.path = path] \in Work
           /\ [w EXCEPT !.pc = pc, !.data = data, !.orig = orig] \in Work
           /\ [pc |-> pc, kind |-> kind, path |-> path, data |-> data, orig |-> orig] \in Work
  BY DEF Work

(* A step of request q alone, to a place that fits. *)
Moves(q) ==
    /\ req' = [req EXCEPT ![q] = req'[q]]
    /\ req'[q] \in Work /\ Fits(req'[q])
    /\ audit' \subseteq {"done", "failed"} \X Request

Writing == {"write", "remove"}

LEMMA MovesTyped ==
    ASSUME FilesTyped, NEW q \in Request, Moves(q),
           fs' \in [Path -> File], last' \in [Path -> File], torn' \subseteq Path
    PROVE  FilesTyped'
<1>1. req' \in [Request -> Work] /\ \A r \in Request : Fits(req'[r])
  BY DEF FilesTyped, Moves
<1>2. QED
  BY <1>1 DEF FilesTyped, Fits, Moves

(* A request that neither has nor gets a file open disturbs no file. *)
LEMMA QuietStep ==
    ASSUME FilesInv, NEW q \in Request, Moves(q), UNCHANGED <<fs, last, torn>>,
           req[q].pc \notin Writing, req'[q].pc \notin Writing
    PROVE  FilesInv'
<1>1. FilesTyped'
  BY MovesTyped DEF FilesInv, FilesTyped
<1>2. \A r \in Request : req'[r].pc \in Writing \/ req[r].pc \in Writing => req'[r] = req[r]
  BY DEF FilesInv, FilesTyped, Moves
<1>3. \A p \in Path : Busy(p)' = Busy(p)
  BY <1>2 DEF Busy, Writing
<1>4. WritersHaveFile'
  BY <1>2 DEF FilesInv, WritersHaveFile, At, Writing
<1>5. LoneWriter' /\ AtRestIsLast'
  BY <1>2, <1>3 DEF FilesInv, LoneWriter, AtRestIsLast, At, Writing, Busy
<1>6. QED
  BY <1>1, <1>4, <1>5 DEF FilesInv
(* What Goto does to a request under way. *)
LEMMA GotoMoves ==
    ASSUME FilesTyped, NEW q \in Request, NEW pc \in RequestPC \ {"idle", "editing", "locked", "open"},
           Goto(q, pc), ~At(q, "idle"), ~At(q, "done"),
           pc = "write" => req[q].data # None, pc = "remove" => req[q].kind = "upload",
           audit' \subseteq {"done", "failed"} \X Request
    PROVE  Moves(q) /\ req'[q] = [req[q] EXCEPT !.pc = pc]
<1>1. req[q] \in Work /\ Fits(req[q])
  BY DEF FilesTyped
<1>2. req'[q] = [req[q] EXCEPT !.pc = pc] /\ req' = [req EXCEPT ![q] = req'[q]]
  BY DEF Goto, FilesTyped
<1>3. req'[q] \in Work
  BY <1>1, <1>2 DEF Work
<1>4. /\ req'[q].pc = pc /\ req'[q].path = req[q].path
      /\ req'[q].kind = req[q].kind /\ req'[q].data = req[q].data
  BY <1>1, <1>2 DEF Work
<1>5. Fits(req'[q])
  BY <1>1, <1>4 DEF Fits, At
<1>6. QED
  BY <1>2, <1>3, <1>5 DEF Moves

(* Whoever opens a file empties it, and is its lone writer if nobody else  *)
(* has it open.                                                            *)
LEMMA OpenKeeps ==
    ASSUME FilesInv, NEW q \in Request, Open(q)
    PROVE  FilesInv'
<1>0. PICK p \in Path : p = req[q].path
  BY DEF FilesInv, FilesTyped, Fits, Open, At
<1>1. p \in Path /\ p = req[q].path /\ req[q].data # None /\ FilesTyped /\ req[q] \in Work
  BY <1>0 DEF FilesInv, FilesTyped, Fits, Open, At
<1>2. Moves(q) /\ req'[q] = [req[q] EXCEPT !.pc = "write"]
  BY <1>1, GotoMoves DEF Open, At, RequestPC, FilesTyped
<1>3. req'[q].pc = "write" /\ req'[q].path = p /\ \A r \in Request \ {q} : req'[r] = req[r]
  BY <1>1, <1>2 DEF Work, Moves, FilesTyped
<1>4. fs' \in [Path -> File] /\ last' = last /\ fs'[p] = <<>>
      /\ \A x \in Path \ {p} : fs'[x] = fs[x]
  BY <1>1, EmptySeq DEF Open, FilesTyped, File
<1>5. FilesTyped'
  BY <1>1, <1>2, <1>4, MovesTyped DEF Open, FilesTyped
<1>6. /\ Busy(p)' = Busy(p) \cup {q}
      /\ \A x \in Path \ {p} : Busy(x)' = Busy(x)
  BY <1>0, <1>3 DEF Busy, Open, At
<1>7. WritersHaveFile'
  <2>1. <<>> # None
    BY NoneIsNoContent, EmptySeq
  <2> SUFFICES ASSUME NEW r \in Request, req'[r].pc = "write"
               PROVE  fs'[req'[r].path] # None
    BY DEF WritersHaveFile, At
  <2>2. CASE req'[r].path = p
    BY <1>4, <2>1, <2>2
  <2>3. CASE req'[r].path # p
    BY <1>3, <1>4, <2>3 DEF WritersHaveFile, FilesInv, At, FilesTyped, Fits
  <2>4. QED
    BY <2>2, <2>3
<1>8. AtRestIsLast'
  <2> SUFFICES ASSUME NEW x \in Path \ torn', Busy(x)' = {}
               PROVE  fs'[x] = last'[x]
    BY DEF AtRestIsLast
  <2>1. x # p
    BY <1>6
  <2>2. x \notin torn /\ Busy(x) = {}
    BY <2>1, <1>1, <1>6 DEF Open
  <2>3. QED
    BY <1>4, <2>1, <2>2 DEF AtRestIsLast, FilesInv
<1>9. LoneWriter'
  <2> SUFFICES ASSUME NEW x \in Path \ torn', NEW r \in Busy(x)'
               PROVE  /\ Busy(x)' \subseteq {r}
                      /\ req'[r].pc = "write" => fs'[x] = <<>>
                      /\ req'[r].pc = "remove" /\ fs'[x] = None => last'[x] = None
    BY DEF LoneWriter, At
  <2>1. CASE x = p
    <3>1. Busy(p) = {}
      BY <1>0, <2>1 DEF Open, Busy
    <3>2. QED
      BY <2>1, <3>1, <1>3, <1>4, <1>6
  <2>2. CASE x # p
    <3>1. x \notin torn /\ r \in Busy(x) /\ r # q
      BY <2>2, <1>6, <1>1 DEF Open, Busy, At
    <3>2. QED
      BY <2>2, <3>1, <1>3, <1>4, <1>6 DEF FilesInv, LoneWriter, At, Busy
  <2>3. QED
    BY <2>1, <2>2
<1>10. QED
  BY <1>5, <1>7, <1>8, <1>9 DEF FilesInv

(* Whoever had the file open alone wrote what it meant, all of it; an      *)
(* upload that is too long has still to remove it.                         *)
LEMMA WriteKeeps ==
    ASSUME FilesInv, NEW q \in Request, Write(q)
    PROVE  FilesInv'
<1>0. PICK p \in Path : p = req[q].path
  BY DEF FilesInv, FilesTyped, Fits, Write, At
<1> DEFINE long == req[q].kind = "upload" /\ Len(req[q].data) > UploadCap
           data == IF long THEN SubSeq(req[q].data, 1, UploadCap + 1) ELSE req[q].data
           pc == IF long THEN "remove" ELSE IF req[q].kind = "polling" THEN "restart" ELSE "record"
<1>1. p = req[q].path /\ req[q].data \in Seq(Chunk) /\ FilesTyped /\ req[q] \in Work
  BY <1>0 DEF FilesInv, FilesTyped, Fits, Write, At, Work, File
<1>2. fs[p] \in Seq(Chunk)
  BY <1>1 DEF FilesInv, WritersHaveFile, Write, FilesTyped, File
<1>3. data \in Seq(Chunk)
  BY <1>1, CapAssumption, PrefixTyped
<1>4. Moves(q) /\ req'[q] = [req[q] EXCEPT !.pc = pc]
  <2>1. pc \in RequestPC \ {"idle", "editing", "locked", "open", "write"}
    BY DEF RequestPC
  <2>2. Goto(q, pc) /\ audit' = audit
    BY DEF Write
  <2> HIDE DEF data
  <2>3. QED
    BY <1>1, <2>1, <2>2, GotoMoves DEF Write, At, FilesTyped
<1>5. req'[q].pc = pc /\ req'[q].path = p /\ \A r \in Request \ {q} : req'[r] = req[r]
  <2> HIDE DEF pc
  <2>1. QED
    BY <1>1, <1>4 DEF Work, Moves, FilesTyped
<1>6. /\ fs' = [fs EXCEPT ![p] = Overlay(fs[p], data)]
      /\ last' = IF long THEN last ELSE [last EXCEPT ![p] = data]
      /\ torn' = torn /\ audit' = audit /\ At(q, "write")
  BY <1>1 DEF Write
<1>a. pc \notin {"write", "idle"} /\ (pc = "remove" <=> long)
  OBVIOUS
<1> HIDE DEF data, pc, long
<1>7. Overlay(fs[p], data) \in Seq(Chunk)
  BY <1>2, <1>3, OverlayTyped
<1>8. fs' \in [Path -> File] /\ last' \in [Path -> File]
  BY <1>1, <1>3, <1>6, <1>7 DEF FilesTyped, File
<1>9. FilesTyped'
  BY <1>1, <1>4, <1>6, <1>8, MovesTyped DEF FilesTyped
<1>10. /\ fs'[p] = Overlay(fs[p], data) /\ (~long => last'[p] = data)
       /\ \A x \in Path \ {p} : fs'[x] = fs[x] /\ last'[x] = last[x]
  BY <1>1, <1>6 DEF FilesTyped
<1>11. /\ q \in Busy(p) /\ Busy(p)' \subseteq Busy(p)
       /\ \A x \in Path \ {p} : Busy(x)' = Busy(x)
  BY <1>1, <1>5, <1>6, <1>a DEF Busy, At
<1>12. WritersHaveFile'
  BY SMTT(30), <1>1, <1>5, <1>7, <1>10, <1>a, NoneIsNoContent DEF WritersHaveFile, FilesInv, At, FilesTyped, Fits
<1>13. ASSUME p \notin torn
       PROVE  /\ Busy(p)' \subseteq {q} /\ fs'[p] = data
              /\ q \notin Busy(p)' => last'[p] = data
  <2>1. Busy(p) \subseteq {q} /\ fs[p] = <<>>
    BY <1>1, <1>6, <1>11, <1>13 DEF FilesInv, LoneWriter
  <2>2. q \notin Busy(p)' => ~long
    BY <1>5, <1>a DEF Busy
  <2>3. QED
    BY <1>3, <1>10, <1>11, <2>1, <2>2, OverlayEmpty
<1>14. AtRestIsLast'
  <2> SUFFICES ASSUME NEW x \in Path \ torn', Busy(x)' = {}
               PROVE  fs'[x] = last'[x]
    BY DEF AtRestIsLast
  <2>1. CASE x = p
    BY <1>6, <1>13, <2>1
  <2>2. CASE x # p
    BY <1>6, <1>10, <1>11, <2>2 DEF AtRestIsLast, FilesInv
  <2>3. QED
    BY <2>1, <2>2
<1>15. LoneWriter'
  <2> SUFFICES ASSUME NEW x \in Path \ torn', NEW r \in Busy(x)'
               PROVE  /\ Busy(x)' \subseteq {r}
                      /\ req'[r].pc = "write" => fs'[x] = <<>>
                      /\ req'[r].pc = "remove" /\ fs'[x] = None => last'[x] = None
    BY DEF LoneWriter, At
  <2>1. CASE x = p
    BY <1>3, <1>5, <1>6, <1>13, <1>a, <2>1, NoneIsNoContent
  <2>2. CASE x # p
    <3>1. x \notin torn /\ r \in Busy(x) /\ r # q
      BY <2>2, <1>6, <1>11, <1>1 DEF Busy
    <3>2. QED
      BY <2>2, <3>1, <1>5, <1>10, <1>11 DEF FilesInv, LoneWriter, At, Busy
  <2>3. QED
    BY <2>1, <2>2
<1>16. QED
  BY <1>9, <1>12, <1>14, <1>15 DEF FilesInv
(* A write that breaks off leaves a file that is torn. *)
LEMMA WriteFailsKeeps ==
    ASSUME FilesInv, NEW q \in Request, WriteFails(q)
    PROVE  FilesInv'
<1>0. PICK p \in Path : p = req[q].path
  BY DEF FilesInv, FilesTyped, Fits, WriteFails, At
<1>1. /\ p = req[q].path /\ req[q].data \in Seq(Chunk) /\ FilesTyped /\ req[q] \in Work
      /\ q \in Busy(p)
  BY <1>0 DEF FilesInv, FilesTyped, Fits, WriteFails, At, Work, File, Busy
<1>2. fs[p] \in Seq(Chunk)
  BY <1>1 DEF FilesInv, WritersHaveFile, WriteFails, FilesTyped, File
<1>3. Moves(q) /\ req'[q] = [req[q] EXCEPT !.pc = "done"]
  BY <1>1, GotoMoves DEF WriteFails, At, AddAudit, FilesTyped, RequestPC
<1>4. req'[q].pc = "done" /\ \A r \in Request \ {q} : req'[r] = req[r]
  BY <1>1, <1>3 DEF Work, Moves, FilesTyped
<1>5. PICK n \in 0..Len(req[q].data) :
          fs' = [fs EXCEPT ![p] = Overlay(fs[p], SubSeq(req[q].data, 1, n))]
  BY <1>1 DEF WriteFails
<1>6. Overlay(fs[p], SubSeq(req[q].data, 1, n)) \in Seq(Chunk)
  BY <1>1, <1>2, PrefixTyped, OverlayTyped
<1>7. /\ fs' \in [Path -> File] /\ last' = last /\ torn' = torn \cup {p} /\ fs'[p] # None
      /\ \A x \in Path \ {p} : fs'[x] = fs[x]
  BY <1>1, <1>5, <1>6, NoneIsNoContent DEF WriteFails, FilesTyped, File
<1>8. FilesTyped'
  BY <1>1, <1>3, <1>7, MovesTyped DEF FilesTyped
<1>9. \A x \in Path \ {p} : Busy(x)' = Busy(x)
  BY <1>1, <1>4 DEF Busy
<1>10. WritersHaveFile'
  BY <1>1, <1>4, <1>7 DEF WritersHaveFile, FilesInv, At, FilesTyped, Fits
<1>11. AtRestIsLast'
  BY <1>7, <1>9 DEF AtRestIsLast, FilesInv, Busy
<1>12. LoneWriter'
  <2> SUFFICES ASSUME NEW x \in Path \ torn', NEW r \in Busy(x)'
               PROVE  /\ Busy(x)' \subseteq {r}
                      /\ req'[r].pc = "write" => fs'[x] = <<>>
                      /\ req'[r].pc = "remove" /\ fs'[x] = None => last'[x] = None
    BY DEF LoneWriter, At
  <2>1. x # p /\ x \notin torn /\ Busy(x)' = Busy(x)
    BY <1>7, <1>9
  <2>2. r \in Busy(x) /\ r \in Request \ {q}
    BY <2>1, <1>4, <1>1 DEF Busy
  <2>3. QED
    BY <2>1, <2>2, <1>4, <1>7 DEF FilesInv, LoneWriter, At
<1>13. QED
  BY <1>8, <1>10, <1>11, <1>12 DEF FilesInv

(* A file that is removed is nobody's: its writers are orphans from then   *)
(* on, and only an upload that wanted to remove it is still busy with it.  *)
LEMMA UnlinkKeeps ==
    ASSUME FilesInv, NEW q \in Request, NEW p \in Path, Unlink(q, p),
           At(q, "idle") \/ (At(q, "remove") /\ req[q].path = p),
           audit' \subseteq {"done", "failed"} \X Request
    PROVE  FilesInv'
<1>1. FilesTyped /\ \A r \in Request : req[r] \in Work /\ Fits(req[r])
  BY DEF FilesInv, FilesTyped
<1>2. \A r \in Request : req'[r] =
          IF r = q THEN [req[r] EXCEPT !.pc = "done"]
          ELSE IF r \in Busy(p) /\ At(r, "write") THEN [req[r] EXCEPT !.pc = "orphan"]
          ELSE req[r]
  BY DEF Unlink
<1>3. /\ fs' \in [Path -> File] /\ last' \in [Path -> File] /\ torn' \subseteq torn
      /\ fs'[p] = None /\ last'[p] = None /\ torn \ {p} = torn' \ {p}
      /\ \A x \in Path \ {p} : fs'[x] = fs[x] /\ last'[x] = last[x]
  BY <1>1 DEF Unlink, FilesTyped, File
<1>4. \A r \in Request :
          /\ req'[r].path = req[r].path /\ req'[r].kind = req[r].kind
          /\ req'[r].data = req[r].data /\ req'[r].orig = req[r].orig
          /\ req'[r].pc = IF r = q THEN "done"
                          ELSE IF r \in Busy(p) /\ At(r, "write") THEN "orphan" ELSE req[r].pc
  BY <1>1, <1>2 DEF Work
<1>5. \A r \in Request : req'[r] \in Work
  <2>1. \A r \in Request : /\ [req[r] EXCEPT !.pc = "done"] \in Work
                           /\ [req[r] EXCEPT !.pc = "orphan"] \in Work
    BY <1>1 DEF Work, RequestPC
  <2>2. QED
    BY <1>1, <1>2, <2>1
<1>6. \A r \in Request : Fits(req'[r])
  BY <1>1, <1>4 DEF Fits, Busy, At
<1>7. FilesTyped'
  BY <1>1, <1>3, <1>5, <1>6 DEF FilesTyped, Unlink
<1>8. /\ Busy(p)' \subseteq Busy(p) \ {q}
      /\ \A r \in Busy(p)' : req'[r].pc = "remove"
      /\ \A x \in Path \ {p} : Busy(x)' = Busy(x)
  <2>1. q \in Busy(p) => At(q, "remove")
    BY DEF Busy, At
  <2>2. QED
    BY <1>4 DEF Busy, At<1>9. WritersHaveFile'
  BY <1>1, <1>3, <1>4 DEF WritersHaveFile, FilesInv, At, Fits, Busy
<1>10. AtRestIsLast'
  <2> SUFFICES ASSUME NEW x \in Path \ torn', Busy(x)' = {}
               PROVE  fs'[x] = last'[x]
    BY DEF AtRestIsLast
  <2>1. CASE x = p
    BY <1>3, <2>1
  <2>2. CASE x # p
    BY <1>3, <1>8, <2>2 DEF AtRestIsLast, FilesInv, Busy
  <2>3. QED
    BY <2>1, <2>2
<1>11. LoneWriter'
  <2> SUFFICES ASSUME NEW x \in Path \ torn', NEW r \in Busy(x)'
               PROVE  /\ Busy(x)' \subseteq {r}
                      /\ req'[r].pc = "write" => fs'[x] = <<>>
                      /\ req'[r].pc = "remove" /\ fs'[x] = None => last'[x] = None
    BY DEF LoneWriter, At
  <2>1. CASE x = p
    <3>1. r \in Busy(p) \ {q} /\ req'[r].pc = "remove"
      BY <1>8, <2>1
    <3>2. p \notin torn
      BY <2>1, <3>1 DEF Unlink
    <3>3. Busy(p) \subseteq {r}
      BY <3>1, <3>2 DEF FilesInv, LoneWriter
    <3>4. QED
      BY <1>3, <1>8, <2>1, <3>1, <3>3
  <2>2. CASE x # p
    <3>1. x \notin torn /\ Busy(x)' = Busy(x) /\ r \in Busy(x)
      BY <1>3, <1>8, <2>2
    <3>2. req'[r].pc = req[r].pc
      BY <1>4, <3>1, <2>2 DEF Busy, At
    <3>3. QED
      BY <1>3, <2>2, <3>1, <3>2 DEF FilesInv, LoneWriter, At
  <2>3. QED
    BY <2>1, <2>2
<1>12. QED
  BY <1>7, <1>9, <1>10, <1>11 DEF FilesInv

(* A long upload whose file stays is torn; one whose file is gone is over. *)
LEMMA RemoveLongKeeps ==
    ASSUME FilesInv, NEW q \in Request, RemoveLong(q)
    PROVE  FilesInv'
<1>0. PICK p \in Path : p = req[q].path
  BY DEF FilesInv, FilesTyped, Fits, RemoveLong, At
<1>1. FilesTyped /\ req[q] \in Work /\ q \in Busy(p) /\ p = req[q].path
      /\ audit' \subseteq {"done", "failed"} \X Request
  BY <1>0 DEF FilesInv, FilesTyped, RemoveLong, AddAudit, Busy, At
<1>2. CASE Unlink(q, p)
  BY <1>1, <1>2, UnlinkKeeps DEF RemoveLong
<1>3. CASE Goto(q, "done") /\ UNCHANGED <<fs, last>>
           /\ torn' = IF fs[p] # None THEN torn \cup {p} ELSE torn
  <2>1. Moves(q) /\ req'[q] = [req[q] EXCEPT !.pc = "done"]
    BY <1>1, <1>3, GotoMoves DEF RemoveLong, At, RequestPC
  <2>2. req'[q].pc = "done" /\ \A r \in Request \ {q} : req'[r] = req[r]
    BY <1>1, <2>1 DEF Work, Moves, FilesTyped
  <2>3. UNCHANGED <<fs, last>> /\ torn' \ {p} = torn \ {p}
        /\ (p \notin torn' => p \notin torn /\ fs[p] = None)
    BY <1>1, <1>3
  <2>4. torn' \subseteq Path
    BY <1>1, <1>3 DEF FilesTyped
  <2>5. FilesTyped'
    BY <1>1, <2>1, <2>3, <2>4, MovesTyped DEF FilesTyped
  <2>6. /\ Busy(p)' = Busy(p) \ {q}
        /\ \A x \in Path \ {p} : Busy(x)' = Busy(x)
    BY <1>1, <2>2 DEF Busy
  <2>7. WritersHaveFile'
    BY <1>1, <2>2, <2>3 DEF WritersHaveFile, FilesInv, At
  <2>8. p \notin torn' => fs[p] = last[p] /\ Busy(p)' = {}
    BY <1>1, <2>3, <2>6 DEF FilesInv, LoneWriter, RemoveLong
  <2>9. \A x \in Path \ {p} : x \notin torn' => x \notin torn
    BY <2>3
  <2>10. AtRestIsLast'
    <3> SUFFICES ASSUME NEW x \in Path \ torn', Busy(x)' = {}
                 PROVE  fs'[x] = last'[x]
      BY DEF AtRestIsLast
    <3>1. CASE x = p
      BY <2>3, <2>8, <3>1
    <3>2. CASE x # p
      BY <2>3, <2>6, <2>9, <3>2 DEF AtRestIsLast, FilesInv, Busy
    <3>3. QED
      BY <3>1, <3>2
  <2>11. LoneWriter'
    <3> SUFFICES ASSUME NEW x \in Path \ torn', NEW r \in Busy(x)'
                 PROVE  /\ Busy(x)' \subseteq {r}
                        /\ req'[r].pc = "write" => fs'[x] = <<>>
                        /\ req'[r].pc = "remove" /\ fs'[x] = None => last'[x] = None
      BY DEF LoneWriter, At
    <3>1. x # p /\ x \notin torn /\ Busy(x)' = Busy(x) /\ r \in Busy(x)
      BY <2>6, <2>8, <2>9
    <3>2. r \in Request /\ r # q
      BY <1>1, <3>1 DEF Busy
    <3>3. QED
      BY <2>2, <2>3, <3>1, <3>2 DEF FilesInv, LoneWriter, At
  <2>12. QED
    BY <2>5, <2>7, <2>10, <2>11 DEF FilesInv
<1>4. QED
  BY <1>1, <1>2, <1>3 DEF RemoveLong

(* After a crash nobody has a file open, and what was open is torn. *)
LEMMA CrashKeeps ==
    ASSUME FilesInv, Crash
    PROVE  FilesInv'
<1>1. FilesTyped /\ \A r \in Request : req[r] \in Work /\ Fits(req[r])
  BY DEF FilesInv, FilesTyped
<1>2. \A r \in Request : /\ req'[r] \in Work /\ Fits(req'[r])
                         /\ req'[r].pc \in {"idle", "done"}
  <2> SUFFICES ASSUME NEW r \in Request
               PROVE  req'[r] \in Work /\ Fits(req'[r]) /\ req'[r].pc \in {"idle", "done"}
    OBVIOUS
  <2>1. CASE At(r, "idle")
    BY <1>1, <2>1 DEF Crash, At
  <2>2. CASE ~At(r, "idle")
    <3>1. req'[r] = [req[r] EXCEPT !.pc = "done"]
      BY <2>2 DEF Crash
    <3>2. req'[r] \in Work /\ req'[r].pc = "done"
      BY <1>1, <3>1 DEF Work, RequestPC
    <3>3. QED
      BY <3>2 DEF Fits
  <2>3. QED
    BY <2>1, <2>2
<1>3. FilesTyped'
  BY <1>1, <1>2 DEF FilesTyped, Crash
<1>4. \A p \in Path : Busy(p)' = {} /\ (p \notin torn' => p \notin torn /\ Busy(p) = {})
  BY <1>2 DEF Busy, Crash
<1>5. WritersHaveFile' /\ LoneWriter'
  BY <1>2, <1>4 DEF WritersHaveFile, LoneWriter, At
<1>6. AtRestIsLast'
  BY <1>4 DEF AtRestIsLast, FilesInv, Crash, Busy
<1>7. QED
  BY <1>3, <1>5, <1>6 DEF FilesInv
----------------------------------------------------------------------------
(* Steps that leave all files alone. *)
LEMMA RefuseKeeps ==
    ASSUME FilesInv, NEW q \in Request, NEW kind \in Kind, NEW p \in Path,
           At(q, "idle") \/ At(q, "editing"), Refuse(q, kind, p)
    PROVE  FilesInv'
<1>1. req[q] \in Work
  BY DEF FilesInv, FilesTyped
<1>2. req'[q] = [req[q] EXCEPT !.pc = "done", !.kind = kind, !.path = p]
      /\ req' = [req EXCEPT ![q] = req'[q]]
  BY DEF Refuse, FilesInv, FilesTyped
<1>3. req'[q] \in Work /\ req'[q].pc = "done"
  BY <1>1, <1>2 DEF Work, RequestPC
<1>4. Moves(q)
  BY <1>2, <1>3 DEF Moves, Fits, Refuse, AddAudit, FilesInv, FilesTyped
<1>5. QED
  BY <1>3, <1>4, QuietStep DEF Refuse, At, Writing

(* A request that begins, with a record of its own. *)
LEMMA BeginKeeps ==
    ASSUME FilesInv, NEW q \in Request, NEW w \in Work, Fits(w), w.pc \notin Writing,
           At(q, "idle"), req' = [req EXCEPT ![q] = w], UNCHANGED <<fs, audit, last, torn>>
    PROVE  FilesInv'
<1>1. req'[q] = w
  BY DEF FilesInv, FilesTyped
<1>2. Moves(q)
  BY <1>1 DEF Moves, FilesInv, FilesTyped
<1>3. QED
  BY <1>1, <1>2, QuietStep DEF At, Writing

LEMMA EditKeeps ==
    ASSUME FilesInv, NEW q \in Request, NEW p \in Path, NEW got \in Gets(p), Edit(q, p, got)
    PROVE  FilesInv'
<1> DEFINE view == Read(p, got)
           orig == IF got = Fill(fs[p]) THEN fs[p] ELSE None
           w == [pc |-> Page(view), kind |-> "save", path |-> p,
                 data |-> Shown(view.content), orig |-> orig]
<1>1. fs[p] \in File /\ view.ok
  BY DEF Edit, FilesInv, FilesTyped
<1>2. /\ fs[p] \in Seq(Chunk) /\ view.content \in Seq(Chunk)
      /\ ~view.truncated /\ got = Fill(fs[p]) => view.content = fs[p]
  BY <1>1, ReadTyped
<1>3. At(q, "idle") /\ req' = [req EXCEPT ![q] = w] /\ UNCHANGED <<fs, audit, last, torn>>
  BY DEF Edit
<1>4. Page(view) \in {"editing", "locked"} /\ (Page(view) = "editing" => ~view.truncated)
  BY DEF Page
<1> HIDE DEF view
<1>5. Shown(view.content) \in Seq(Chunk)
  BY <1>2, ShownIsNormal
<1>6. orig \in File /\ (Page(view) = "editing" /\ orig # None => view.content = orig)
  BY <1>2, <1>4 DEF File
<1> HIDE DEF orig
<1>7. w \in Work
  BY <1>4, <1>5, <1>6 DEF Work, RequestPC, Kind, File
<1>8. Fits(w) /\ w.pc \notin Writing
  BY <1>4, <1>5, <1>6, NoneIsNoContent DEF Fits, Writing
<1> HIDE DEF w
<1>9. QED
  BY <1>3, <1>7, <1>8, BeginKeeps

LEMMA SaveKeeps ==
    ASSUME FilesInv, NEW q \in Request, NEW c \in Typed \cup {Posted(req[q].data)}, Save(q, c)
    PROVE  FilesInv'
<1>0. PICK p \in Path : p = req[q].path
  BY DEF FilesInv, FilesTyped, Fits, Save, At
<1>1. /\ req[q] \in Work /\ At(q, "editing") /\ req[q].data \in Seq(Chunk)
      /\ req[q].orig \in File /\ (req[q].orig # None => req[q].data = Shown(req[q].orig))
  BY DEF FilesInv, FilesTyped, Fits, Save, At, Work, File
<1>2. CASE Refuse(q, "save", p)
  BY <1>1, <1>2, RefuseKeeps DEF Kind
<1> DEFINE orig == IF c = Posted(req[q].data) THEN req[q].orig ELSE None
<1>3. CASE req' = [req EXCEPT ![q] = [@ EXCEPT !.pc = "open", !.data = Normal(c), !.orig = orig]]
           /\ UNCHANGED <<fs, audit, last, torn>>
  <2>1. c \in Seq(Chunk) /\ Normal(c) \in Seq(Chunk)
    BY <1>1, ContentAssumption, NormalTyped, PostedTyped DEF Chunk
  <2>2. ASSUME orig # None PROVE Normal(orig) \in {Normal(c), <<LF>> \o Normal(c)}
    <3>1. c = Posted(req[q].data) /\ orig = req[q].orig /\ req[q].data = Shown(orig)
          /\ orig \in Seq(Chunk)
      BY <1>1, <2>2 DEF File
    <3>2. /\ Normal(orig) \in {req[q].data, <<LF>> \o req[q].data}
          /\ \A i \in 1..Len(req[q].data) : req[q].data[i] = CRLF => CRLF = LF
      BY <3>1, ShownIsNormal
    <3>3. Normal(c) = req[q].data
      BY <1>1, <3>1, <3>2, PostedIsShown
    <3>4. QED
      BY <3>2, <3>3
  <2>3. orig \in File
    BY <1>1 DEF File
  <2> HIDE DEF orig
  <2>4. req'[q] = [req[q] EXCEPT !.pc = "open", !.data = Normal(c), !.orig = orig]
        /\ req' = [req EXCEPT ![q] = req'[q]]
    BY <1>3 DEF FilesInv, FilesTyped
  <2>5. req'[q] \in Work
    BY <1>1, <2>1, <2>3, <2>4 DEF Work, RequestPC, File
  <2>6. /\ req'[q].pc = "open" /\ req'[q].data = Normal(c) /\ req'[q].orig = orig
        /\ req'[q].path = req[q].path
    BY <1>1, <2>4 DEF Work
  <2>7. Fits(req'[q])
    BY <1>0, <2>1, <2>2, <2>6, NoneIsNoContent DEF Fits
  <2>8. Moves(q)
    BY <1>3, <2>4, <2>5, <2>7 DEF Moves, FilesInv, FilesTyped
  <2>9. QED
    BY <1>1, <1>3, <2>6, <2>8, QuietStep DEF At, Writing
<1>4. QED
  BY <1>0, <1>2, <1>3 DEF Save

LEMMA UploadKeeps ==
    ASSUME FilesInv, NEW q \in Request, NEW p \in Path, NEW c \in Upload, BeginUpload(q, p, c)
    PROVE  FilesInv'
<1> DEFINE w == [pc |-> "open", kind |-> "upload", path |-> p, data |-> c, orig |-> None]
<1>1. c \in Seq(Chunk)
  BY ContentAssumption
<1>2. w \in Work
  BY <1>1 DEF Work, RequestPC, Kind, File
<1>3. Fits(w) /\ w.pc \notin Writing
  BY <1>1, NoneIsNoContent DEF Fits, Writing
<1>4. CASE Refuse(q, "upload", p)
  BY <1>4, RefuseKeeps DEF BeginUpload, Kind
<1>5. CASE req' = [req EXCEPT ![q] = w] /\ UNCHANGED <<fs, audit, last, torn>>
  <2>1. At(q, "idle")
    BY DEF BeginUpload
  <2> HIDE DEF w
  <2>2. QED
    BY <1>2, <1>3, <1>5, <2>1, BeginKeeps
<1>6. QED
  BY <1>4, <1>5 DEF BeginUpload
LEMMA DeleteKeeps ==
    ASSUME FilesInv, NEW q \in Request, NEW p \in Path, Delete(q, p)
    PROVE  FilesInv'
<1>1. CASE Unlink(q, p) /\ AddAudit("done", q)
  <2>1. audit' \subseteq {"done", "failed"} \X Request
    BY <1>1 DEF AddAudit, FilesInv, FilesTyped
  <2>2. QED
    BY <1>1, <2>1, UnlinkKeeps DEF Delete
<1>2. CASE Refuse(q, "delete", p)
  BY <1>2, RefuseKeeps DEF Delete, Kind
<1>3. QED
  BY <1>1, <1>2 DEF Delete

(* A request that goes to a place without a file from another such place. *)
LEMMA GoesQuietly ==
    ASSUME FilesInv, NEW q \in Request, NEW pc \in {"restart", "record", "done"},
           At(q, "open") \/ At(q, "orphan") \/ At(q, "restart") \/ At(q, "record"),
           Goto(q, pc), UNCHANGED <<fs, last, torn>>,
           audit' = audit \/ AddAudit("done", q) \/ AddAudit("failed", q)
    PROVE  FilesInv'
<1>1. FilesTyped /\ req[q] \in Work /\ ~At(q, "idle") /\ ~At(q, "done") /\ req[q].pc \notin Writing
  BY DEF FilesInv, FilesTyped, At, Writing
<1>2. audit' \subseteq {"done", "failed"} \X Request
  BY <1>1 DEF FilesTyped, AddAudit
<1>3. Moves(q) /\ req'[q] = [req[q] EXCEPT !.pc = pc]
  BY <1>1, <1>2, GotoMoves DEF RequestPC
<1>4. req'[q].pc = pc
  BY <1>1, <1>3 DEF Work
<1>5. QED
  BY <1>1, <1>3, <1>4, QuietStep DEF Writing

LEMMA FileOpKeeps ==
    ASSUME FilesInv, NEW q \in Request, FileOp(q)
    PROVE  FilesInv'
<1>0. ASSUME NEW p \in Path, NEW got \in Gets(p), Edit(q, p, got)
      PROVE  FilesInv'
  BY <1>0, EditKeeps
<1>1. ASSUME NEW p \in Path, Delete(q, p) \/ \E c \in Upload : BeginUpload(q, p, c)
      PROVE  FilesInv'
  BY <1>1, DeleteKeeps, UploadKeeps
<1>2. ASSUME NEW c \in Typed \cup {Posted(req[q].data)}, Save(q, c)
      PROVE  FilesInv'
  BY <1>2, SaveKeeps
<1>3. CASE Open(q)
  BY <1>3, OpenKeeps
<1>4. CASE OpenFails(q)
  BY <1>4, GoesQuietly DEF OpenFails
<1>5. CASE Write(q)
  BY <1>5, WriteKeeps
<1>6. CASE WriteFails(q)
  BY <1>6, WriteFailsKeeps
<1>7. CASE WriteOrphan(q)
  BY <1>7, GoesQuietly DEF WriteOrphan
<1>8. CASE RemoveLong(q)
  BY <1>8, RemoveLongKeeps
<1>9. CASE Record(q)
  BY <1>9, GoesQuietly DEF Record
<1>10. QED
  BY <1>0, <1>1, <1>2, <1>3, <1>4, <1>5, <1>6, <1>7, <1>8, <1>9 DEF FileOp

LEMMA BodyTyped ==
    ASSUME NEW n \in Seconds
    PROVE  Body(n) \in Seq(Chunk)
<1>1. Decimal[n] \in Seq(Digit) /\ Digit \subseteq Chunk /\ Key \in Chunk /\ LF \in Chunk
  BY DecimalAssumption DEF Chunk
<1> DEFINE D == Digit
<1> HIDE DEF D
<1>2. Decimal[n] \in Seq(Chunk)
  <2>1. Decimal[n] \in Seq(D) /\ D \subseteq Chunk
    BY <1>1 DEF D
  <2>2. QED
    BY <2>1
<1>3. <<Key>> \in Seq(Chunk) /\ <<LF>> \in Seq(Chunk)
  BY <1>1
<1>4. QED
  BY <1>2, <1>3, ConcatProperties DEF Body

LEMMA PollingKeeps ==
    ASSUME FilesInv, NEW q \in Request, NEW n \in Seconds, SetPolling(q, n)
    PROVE  FilesInv'
<1> DEFINE w == [pc |-> "open", kind |-> "polling", path |-> Fragment,
                 data |-> Body(n), orig |-> None]
<1>0. At(q, "idle")
  BY DEF SetPolling
<1>1. Body(n) \in Seq(Chunk)
  BY BodyTyped
<1>2. w \in Work
  BY <1>1, FragmentAssumption DEF Work, RequestPC, Kind, File
<1>3. Fits(w) /\ w.pc \notin Writing
  BY <1>1, NoneIsNoContent, FragmentAssumption DEF Fits, Writing
<1>4. CASE Refuse(q, "polling", Fragment)
  BY <1>0, <1>4, RefuseKeeps, FragmentAssumption DEF Kind
<1>5. CASE req' = [req EXCEPT ![q] = w] /\ UNCHANGED <<fs, audit, last, torn>>
  <2> HIDE DEF w
  <2>1. QED
    BY <1>0, <1>2, <1>3, <1>5, BeginKeeps
<1>6. QED
  BY <1>4, <1>5 DEF SetPolling

LEMMA FilesStutter == FilesInv /\ UNCHANGED fileVars => FilesInv'
  BY DEF FilesInv, fileVars, FilesTyped, WritersHaveFile, LoneWriter, AtRestIsLast, At, Busy

----------------------------------------------------------------------------
(* What a step of a request does to the requests that have the fragment    *)
(* open: others go on with it, and it goes on itself or is done; one that  *)
(* was not at it yet opens it or leaves all files alone.                   *)
PollsOn(q) ==
    /\ \A r \in Request \ {q} : Polling(r)' = Polling(r)
    /\ Polling(q) => Polling(q)' \/ req'[q].pc = "done"
    /\ req[q].kind = "polling" /\ ~Polling(q) => Polling(q)' \/ fs' = fs

LEMMA AlonePolls ==
    ASSUME FilesTyped, NEW q \in Request, req' = [req EXCEPT ![q] = req'[q]],
           Polling(q) => Polling(q)' \/ req'[q].pc = "done",
           req[q].kind = "polling" /\ ~Polling(q) => Polling(q)' \/ fs' = fs
    PROVE  PollsOn(q)
<1>1. \A r \in Request \ {q} : req'[r] = req[r]
  BY DEF FilesTyped
<1>2. QED
  BY <1>1 DEF PollsOn, Polling

LEMMA IdlePollsNot ==
    ASSUME FilesTyped, NEW q \in Request, At(q, "idle") \/ At(q, "remove")
    PROVE  req[q].kind # "polling"
  BY NoneAssumption DEF FilesTyped, Fits, At, Kind

LEMMA UnlinkPolls ==
    ASSUME FilesTyped, NEW q \in Request, NEW p \in Path, Unlink(q, p), req[q].kind # "polling"
    PROVE  PollsOn(q)
<1>1. \A r \in Request : req[r] \in Work
  BY DEF FilesTyped
<1>2. \A r \in Request \ {q} :
          \/ req'[r] = req[r]
          \/ At(r, "write") /\ req'[r] = [req[r] EXCEPT !.pc = "orphan"]
  BY DEF Unlink
<1>3. \A r \in Request \ {q} :
          /\ req'[r].kind = req[r].kind
          /\ req'[r].pc = req[r].pc \/ (req[r].pc = "write" /\ req'[r].pc = "orphan")
  BY <1>1, <1>2 DEF Work, At
<1>4. QED
  BY <1>3 DEF PollsOn, Polling

LEMMA FileOpPolls ==
    ASSUME FilesInv, NEW q \in Request, FileOp(q)
    PROVE  PollsOn(q)
<1>1. FilesTyped /\ req \in [Request -> Work] /\ req[q] \in Work /\ Fits(req[q])
  BY DEF FilesInv, FilesTyped
<1>2. ASSUME NEW p \in Path, (\E got \in Gets(p) : Edit(q, p, got)) \/ Refuse(q, "delete", p) \/ \E c \in Upload : BeginUpload(q, p, c),
             At(q, "idle")
      PROVE  PollsOn(q)
  <2>1. req' = [req EXCEPT ![q] = req'[q]]
    BY <1>1, <1>2 DEF Edit, BeginUpload, Refuse
  <2>2. QED
    BY <1>1, <1>2, <2>1, IdlePollsNot, AlonePolls DEF Polling
<1>3. ASSUME NEW p \in Path, Delete(q, p)
      PROVE  PollsOn(q)
  BY <1>1, <1>2, <1>3, IdlePollsNot, UnlinkPolls DEF Delete
<1>4. ASSUME NEW c \in Typed \cup {Posted(req[q].data)}, Save(q, c)
      PROVE  PollsOn(q)
  <2>1. req' = [req EXCEPT ![q] = req'[q]] /\ fs' = fs /\ At(q, "editing")
    BY <1>1, <1>4 DEF Save, Refuse
  <2>2. QED
    BY <1>1, <2>1, AlonePolls DEF Polling, At
<1>5. ASSUME NEW pc, Goto(q, pc)
      PROVE  req' = [req EXCEPT ![q] = req'[q]] /\ req'[q].pc = pc /\ req'[q].kind = req[q].kind
  BY <1>1, <1>5 DEF Goto, Work
<1>6. CASE Open(q)
  BY <1>1, <1>5, <1>6, AlonePolls DEF Open, At, Polling
<1>7. CASE OpenFails(q) \/ Record(q)
  BY <1>1, <1>5, <1>7, AlonePolls DEF OpenFails, Record, At, Polling
<1>8. CASE Write(q)
  <2>1. /\ req' = [req EXCEPT ![q] = req'[q]] /\ req'[q].kind = req[q].kind
        /\ req[q].kind = "polling" => req'[q].pc = "restart"
        /\ At(q, "write")
    BY <1>5, <1>8 DEF Write
  <2>2. QED
    BY <1>1, <2>1, AlonePolls DEF At, Polling
<1>9. CASE WriteFails(q)
  BY <1>1, <1>5, <1>9, AlonePolls DEF WriteFails, At, Polling
<1>10. CASE WriteOrphan(q)
  <2>1. /\ req' = [req EXCEPT ![q] = req'[q]] /\ req'[q].kind = req[q].kind
        /\ req[q].kind = "polling" => req'[q].pc = "restart"
        /\ At(q, "orphan")
    BY <1>5, <1>10 DEF WriteOrphan
  <2>2. QED
    BY <1>1, <2>1, AlonePolls DEF At, Polling
<1>11. CASE RemoveLong(q)
  <2>1. req[q].kind # "polling" /\ req[q].path \in Path
    BY <1>1, <1>11, IdlePollsNot DEF RemoveLong, At, Fits
  <2>2. Unlink(q, req[q].path) \/ Goto(q, "done")
    BY <1>11 DEF RemoveLong
  <2>3. QED
    BY <1>1, <1>5, <2>1, <2>2, AlonePolls, UnlinkPolls DEF Polling
<1>12. QED
  BY <1>2, <1>3, <1>4, <1>6, <1>7, <1>8, <1>9, <1>10, <1>11 DEF FileOp, Edit, BeginUpload

(* What the page and aktualizr read is all in the fragments. *)
LEMMA SameFragments ==
    ASSUME Fragments' = Fragments
    PROVE  /\ Effective(Fragments)' = Effective(Fragments)
           /\ \A n \in DOMAIN ConfD : WellFormed(fs[ConfD[n]])' = WellFormed(fs[ConfD[n]])
<1>1. Effective(Fragments') = Effective(Fragments)
  OBVIOUS
<1>2. \A n \in DOMAIN ConfD : fs'[ConfD[n]] = fs[ConfD[n]]
  BY DEF Fragments
<1>3. \A n \in DOMAIN ConfD : WellFormed(fs'[ConfD[n]]) = WellFormed(fs[ConfD[n]])
  BY <1>2
<1>4. QED
  BY <1>1, <1>3 DEF Effective, WellFormed, LineStarts, LineAt, SetsKey, IsNumber, Value, mergeToml, atoi, LineEnd, Digit

(* Whoever changes a fragment, and whoever gives up on a restart, is on    *)
(* record until aktualizr has read what is on file.                        *)
LEMMA FileStepPolls ==
    ASSUME UpdatesInv, NEW q \in Request, FileStep(q)
    PROVE  PollingTakesEffect'
<1> SUFFICES ASSUME ~job', ~unapplied', \A r \in Request : ~Polling(r)',
                    \A n \in DOMAIN ConfD : WellFormed(fs[ConfD[n]])'
             PROVE  ran' = Effective(Fragments)'
  BY DEF PollingTakesEffect
<1>1. /\ FileOp(q) /\ job' = job /\ ran' = ran /\ ~unapplied /\ FilesInv
      /\ ~(Polling(q) /\ req'[q].pc = "done")
      /\ req[q].kind # "polling" => Fragments' = Fragments
  BY DEF FileStep, UpdatesInv
<1>2. PollsOn(q)
  BY <1>1, FileOpPolls
<1>3. \A r \in Request : ~Polling(r)
  BY <1>1, <1>2 DEF PollsOn
<1>4. Fragments' = Fragments
  <2>1. CASE req[q].kind = "polling"
    BY <1>1, <1>2, <1>3, <2>1 DEF PollsOn, Fragments
  <2>2. QED
    BY <1>1, <2>1
<1>5. QED
  BY <1>1, <1>3, <1>4, SameFragments DEF UpdatesInv, PollingTakesEffect

(* Nobody but SetPolling makes a request for an interval, or changes what  *)
(* it carries.                                                             *)
CarriesOn ==
    \A r \in Request :
        req'[r].kind = "polling" /\ req'[r].pc # "done" =>
            req[r].kind = "polling" /\ req[r].pc # "done" /\ req'[r].data = req[r].data

LEMMA FileOpCarries ==
    ASSUME FilesInv, NEW q \in Request, FileOp(q)
    PROVE  CarriesOn
<1>1. req \in [Request -> Work] /\ \A r \in Request : req[r] \in Work /\ Fits(req[r])
  BY DEF FilesInv, FilesTyped
<1>2. ASSUME NEW w, req' = [req EXCEPT ![q] = w], w.kind # "polling" \/ w.pc = "done"
      PROVE  CarriesOn
  BY <1>1, <1>2 DEF CarriesOn
<1>3. ASSUME NEW kind, NEW p, Refuse(q, kind, p)
      PROVE  CarriesOn
  <2>1. [req[q] EXCEPT !.pc = "done", !.kind = kind, !.path = p].pc = "done"
    BY <1>1 DEF Work
  <2>2. QED
    BY <1>1, <1>2, <1>3, <2>1 DEF Refuse
<1>4. ASSUME NEW pc, Goto(q, pc), ~At(q, "idle"), ~At(q, "done")
      PROVE  CarriesOn
  BY <1>1, <1>4 DEF CarriesOn, Goto, Work, At
<1>5. ASSUME NEW p \in Path, NEW got \in Gets(p), Edit(q, p, got)
      PROVE  CarriesOn
  <2> DEFINE w == [pc |-> Page(Read(p, got)), kind |-> "save", path |-> p,
                   data |-> Shown(Read(p, got).content),
                   orig |-> IF got = Fill(fs[p]) THEN fs[p] ELSE None]
  <2>1. req' = [req EXCEPT ![q] = w] /\ w.kind = "save"
    BY <1>5 DEF Edit
  <2> HIDE DEF w
  <2>2. QED
    BY <1>2, <2>1
<1>6. ASSUME NEW p \in Path, Unlink(q, p)
      PROVE  CarriesOn
  <2>1. \A r \in Request : req'[r] =
            IF r = q THEN [req[r] EXCEPT !.pc = "done"]
            ELSE IF r \in Busy(p) /\ At(r, "write") THEN [req[r] EXCEPT !.pc = "orphan"]
            ELSE req[r]
    BY <1>6 DEF Unlink
  <2>2. \A r \in Request : /\ req'[r].kind = req[r].kind /\ req'[r].data = req[r].data
                           /\ req'[r].pc \in {"done", req[r].pc} \/ req[r].pc = "write"
    BY <1>1, <2>1 DEF Work, At
  <2>3. QED
    BY <2>2 DEF CarriesOn
<1>7. ASSUME NEW p \in Path, Delete(q, p)
      PROVE  CarriesOn
  BY <1>3, <1>6, <1>7 DEF Delete
<1>8. ASSUME NEW p \in Path, NEW c \in Upload, BeginUpload(q, p, c)
      PROVE  CarriesOn
  BY <1>2, <1>3, <1>8 DEF BeginUpload
<1>9. ASSUME NEW c \in Typed \cup {Posted(req[q].data)}, Save(q, c)
      PROVE  CarriesOn
  <2>1. req[q].kind = "save"
    BY <1>1, <1>9 DEF Save, At, Fits
  <2>2. ASSUME NEW orig
        PROVE  [req[q] EXCEPT !.pc = "open", !.data = Normal(c), !.orig = orig].kind # "polling"
    BY <1>1, <2>1 DEF Work
  <2>3. QED
    BY <1>2, <1>3, <1>9, <2>2 DEF Save
<1>10. CASE Open(q) \/ OpenFails(q) \/ WriteFails(q) \/ WriteOrphan(q) \/ Record(q)
  BY <1>4, <1>10 DEF Open, OpenFails, WriteFails, WriteOrphan, Record, At
<1>11. CASE Write(q)
  BY <1>4, <1>11 DEF Write, At
<1>12. CASE RemoveLong(q)
  <2>1. req[q].path \in Path
    BY <1>1, <1>12 DEF RemoveLong, At, Fits
  <2>2. QED
    BY <1>4, <1>6, <1>12, <2>1 DEF RemoveLong, At
<1>13. QED
  BY <1>5, <1>7, <1>8, <1>9, <1>10, <1>11, <1>12 DEF FileOp

LEMMA CarriedOn == CarriesBody /\ CarriesOn => CarriesBody'
  BY DEF CarriesBody, CarriesOn

LEMMA UpdatesStep ==
    ASSUME UpdatesInv, [Next]_vars
    PROVE  UpdatesInv'
<1>1. FilesInv /\ job \in BOOLEAN /\ unapplied \in BOOLEAN /\ FilesTyped /\ CarriesBody
      /\ req \in [Request -> Work]
  BY DEF UpdatesInv, FilesInv, FilesTyped
<1>2. ASSUME NEW q \in Request, FileStep(q)
      PROVE  UpdatesInv'
  <2>1. FilesInv' /\ CarriesBody'
    BY <1>1, <1>2, FileOpKeeps, FileOpCarries, CarriedOn DEF FileStep
  <2>2. job' \in BOOLEAN /\ unapplied' \in BOOLEAN
    BY <1>1, <1>2 DEF FileStep
  <2>3. QED
    BY <1>2, <2>1, <2>2, FileStepPolls DEF UpdatesInv
<1>3. ASSUME NEW q \in Request, RestartUnit(q) \/ RestartFails(q)
      PROVE  UpdatesInv'
  <2>1. FilesInv'
    BY <1>1, <1>3, GoesQuietly DEF RestartUnit, RestartFails
  <2>2. CarriesBody'
    <3>1. CarriesOn
      BY <1>1, <1>3 DEF CarriesOn, RestartUnit, RestartFails, Goto, Work, At
    <3>2. QED
      BY <1>1, <3>1, CarriedOn
  <2>3. CASE RestartUnit(q)
    BY <1>1, <2>1, <2>2, <2>3 DEF UpdatesInv, PollingTakesEffect, RestartUnit
  <2>4. CASE RestartFails(q)
    BY <1>1, <2>1, <2>2, <2>4 DEF UpdatesInv, PollingTakesEffect, RestartFails
  <2>5. QED
    BY <1>3, <2>3, <2>4
<1>4. ASSUME NEW q \in Request, NEW n \in Seconds, SetPolling(q, n)
      PROVE  UpdatesInv'
  <2>1. FilesInv'
    BY <1>1, <1>4, PollingKeeps
  <2>2. /\ fs' = fs /\ UNCHANGED updateVars /\ At(q, "idle")
        /\ \A r \in Request \ {q} : req'[r] = req[r]
    BY <1>1, <1>4 DEF SetPolling, Refuse, FilesTyped
  <2>3. \A r \in Request : Polling(r) => Polling(r)'
    BY <2>2 DEF Polling, At
  <2>4. req'[q].pc = "done" \/ (n \in PollingRange /\ req'[q].data = Body(n))
    <3>1. CASE n \in PollingRange
      BY <1>1, <1>4, <3>1 DEF SetPolling
    <3>2. CASE n \notin PollingRange
      BY <1>1, <1>4, <3>2 DEF SetPolling, Refuse, Work
    <3>3. QED
      BY <3>1, <3>2
  <2>5. CarriesBody'
    BY <1>1, <2>2, <2>4 DEF CarriesBody
  <2>6. Fragments' = Fragments
    BY <2>2 DEF Fragments
  <2>7. QED
    BY <1>1, <2>1, <2>2, <2>3, <2>5, <2>6, SameFragments DEF UpdatesInv, PollingTakesEffect, updateVars
<1>5. CASE Start
  <2>1. FilesInv'
    BY <1>1, <1>5, FilesStutter DEF Start
  <2>2. fs' = fs /\ req' = req /\ ran' \in Readings /\ job' \in BOOLEAN /\ unapplied' \in BOOLEAN
    BY <1>5 DEF Start, fileVars
  <2>3. Fragments' = Fragments /\ CarriesBody'
    BY <1>1, <2>2 DEF Fragments, CarriesBody
  <2>4. PollingTakesEffect'
    BY <2>2, <2>3, SameFragments DEF PollingTakesEffect, Readings
  <2>5. QED
    BY <2>1, <2>2, <2>3, <2>4 DEF UpdatesInv
<1>6. CASE GatewayCrash
  <2>1. FilesInv' /\ fs' = fs
    BY <1>1, <1>6, CrashKeeps DEF GatewayCrash, Crash
  <2>2. CarriesBody'
    <3>1. CarriesOn
      BY <1>1, <1>6 DEF CarriesOn, GatewayCrash, Crash, Work, At
    <3>2. QED
      BY <1>1, <3>1, CarriedOn
  <2>3. Fragments' = Fragments
    BY <2>1 DEF Fragments
  <2>4. PollingTakesEffect'
    BY <1>1, <1>6, <2>3, SameFragments DEF GatewayCrash, UpdatesInv, PollingTakesEffect
  <2>5. QED
    BY <1>1, <1>6, <2>1, <2>2, <2>4 DEF GatewayCrash, UpdatesInv
<1>7. CASE UNCHANGED vars
  <2>1. UNCHANGED fileVars /\ fs' = fs /\ req' = req /\ job' = job /\ ran' = ran /\ unapplied' = unapplied
    BY <1>7 DEF vars, fileVars, updateVars
  <2>2. Fragments' = Fragments /\ FilesInv' /\ CarriesBody'
    BY <1>1, <2>1, FilesStutter DEF Fragments, CarriesBody
  <2>3. PollingTakesEffect'
    BY <2>1, <2>2, SameFragments DEF UpdatesInv, PollingTakesEffect, Polling
  <2>4. QED
    BY <1>1, <2>1, <2>2, <2>3 DEF UpdatesInv
<1>8. QED
  BY <1>2, <1>3, <1>4, <1>5, <1>6, <1>7 DEF Next

LEMMA UpdatesInitial == Init(File) => UpdatesInv
<1> SUFFICES ASSUME Init(File) PROVE UpdatesInv
  OBVIOUS
<1>1. NoRequest \in Work /\ Fits(NoRequest) /\ NoRequest.pc = "idle"
  BY DEF NoRequest, Work, File, Fits, RequestPC
<1>2. FilesTyped
  BY <1>1 DEF Init, InitFiles, FilesTyped
<1>3. \A q \in Request : req[q].pc = "idle"
  BY <1>1 DEF Init, InitFiles
<1>4. WritersHaveFile /\ LoneWriter /\ AtRestIsLast
  BY <1>3 DEF Init, InitFiles, WritersHaveFile, LoneWriter, AtRestIsLast, At, Busy
<1>5. PollingTakesEffect
  BY DEF Init, PollingTakesEffect, Readings
<1>6. CarriesBody
  BY NoneAssumption DEF CarriesBody, Init, InitFiles, NoRequest, Kind
<1>7. QED
  BY <1>2, <1>4, <1>5, <1>6 DEF Init, UpdatesInv, FilesInv

(* Service.Write, SetPolling: the invariant that carries the four theorems *)
(* below, over any files, requests and crashes.                            *)
THEOREM UpdatesCorrect == UpdatesSpec => []UpdatesInv
<1>1. UpdatesInv /\ [Next]_vars => UpdatesInv'
  BY UpdatesStep
<1>2. QED
  BY UpdatesInitial, <1>1, PTL DEF UpdatesSpec

(* Service.Write and Remove, handleFileUpload: a file nobody has open is   *)
(* what the last operation on it meant, unless writes of it overlapped or  *)
(* one was cut short.                                                      *)
THEOREM RestCorrect == UpdatesSpec => []AtRestIsLast
<1>1. UpdatesInv => AtRestIsLast
  BY DEF UpdatesInv, FilesInv
<1>2. QED
  BY <1>1, UpdatesCorrect, PTL

(* handleFileEdit, its page and handleFileSave: what the editor showed and *)
(* nobody changed is saved with other line ends, at most without a first   *)
(* one, and otherwise as it was, if the file was read to its end.          *)
THEOREM SaveCorrect == UpdatesSpec => []UntouchedSaveKeeps
<1>1. UpdatesInv => UntouchedSaveKeeps
  BY DEF UpdatesInv, FilesInv, FilesTyped, Fits, UntouchedSaveKeeps, At
<1>2. QED
  BY <1>1, UpdatesCorrect, PTL

(* SetPolling and restartAktualizr: once all requests are through, nobody  *)
(* changed a fragment otherwise and all are well-formed, aktualizr runs    *)
(* what the page reads from them.                                          *)
THEOREM PollingCorrect == UpdatesSpec => []PollingTakesEffect
<1>1. UpdatesInv => PollingTakesEffect
  BY DEF UpdatesInv
<1>2. QED
  BY <1>1, UpdatesCorrect, PTL

(* SetPolling's range check: a request that is under way writes an         *)
(* interval in range and nothing else, whole requests and their rest after *)
(* the fragment was removed included; and every variable keeps its type.   *)
THEOREM RangeCorrect == UpdatesSpec => []UpdatesTypeOK
<1>1. ASSUME UpdatesInv PROVE UpdatesTypeOK
  <2>1. FilesTyped
    BY <1>1 DEF UpdatesInv, FilesInv
  <2>2. TypeOK
    BY <2>1 DEF TypeOK, FilesTyped, Work, File, Fits
  <2>3. QED
    BY <1>1, <2>2 DEF UpdatesTypeOK, UpdatesInv, CarriesBody
<1>2. QED
  BY <1>1, UpdatesCorrect, PTL

----------------------------------------------------------------------------
(***************************************************************************)
(* What parseInfo makes of what aktualizr-info prints.                     *)
(***************************************************************************)
(* Induction over the numbers up to N. *)
LEMMA UpTo ==
    ASSUME NEW N \in Nat, NEW S, 0 \in S, \A n \in 1..N : n - 1 \in S => n \in S
    PROVE  0..N \subseteq S
<1> SUFFICES ASSUME NEW m \in 0..N, m \notin S PROVE FALSE
  OBVIOUS
<1> DEFINE T == {n \in 0..N : n \notin S}
<1>1. T \subseteq Nat /\ T # {}
  OBVIOUS
<1>2. PICK x \in T : \A y \in T : ~(<<y, x>> \in OpToRel(<, Nat))
  BY <1>1, WFMin, NatLessThanWellFounded
<1>3. x \in 0..N /\ x \notin S /\ x # 0
  OBVIOUS
<1>4. x - 1 \in T
  BY <1>3
<1>5. <<x - 1, x>> \in OpToRel(<, Nat)
  BY <1>3 DEF OpToRel
<1>6. QED
  BY <1>2, <1>4, <1>5

LineKind == {"device", "primary", "running", "pending", "serial", "hardware", "hash"}
Lines == [kind : LineKind, val : Hardware \cup Release]

(* The entries of parseInfo, and where they are while it runs. *)
Entry == [hw : Hardware \cup {""}, hash : Release, primary : BOOLEAN]
Parsing == [subs : Seq(Entry), cur : Seq(Entry)]
Entries(q) == {q[i] : i \in DOMAIN q}
Found(s) == Entries(s.subs) \cup Entries(s.cur)

(* What is found of a list of lines, the open block not a primary's. *)
Finds(s, E) == s \in Parsing /\ Found(s) = E /\ \A e \in Entries(s.cur) : ~e.primary

(* parseInfo, one line after the other. *)
LEMMA ParseRuns ==
    ASSUME NEW start, NEW out, Len(out) \in Nat
    PROVE  \E f : /\ ParseOn(start, out) = f[Len(out)]
                  /\ f[0] = start
                  /\ \A n \in 1..Len(out) : f[n] = ParseLine(f[n - 1], out[n])
<1> DEFINE Loop(N, f) == f = [n \in 0..N |-> IF n = 0 THEN start ELSE ParseLine(f[n - 1], out[n])]
           S == {n \in 0..Len(out) : \E f : Loop(n, f)}
           run == CHOOSE f : Loop(Len(out), f)
<1>1. 0 \in S
  <2> DEFINE g == [n \in 0..0 |-> start]
  <2>1. Loop(0, g)
    OBVIOUS
  <2> HIDE DEF g, Loop
  <2>2. QED
    BY <2>1
<1>2. ASSUME NEW n \in 1..Len(out), n - 1 \in S
      PROVE  n \in S
  <2>1. PICK f : Loop(n - 1, f)
    BY <1>2
  <2> DEFINE g == [k \in 0..n |-> IF k = n THEN ParseLine(f[n - 1], out[n]) ELSE f[k]]
  <2>2. \A k \in 0..n : g[k] = IF k = 0 THEN start ELSE ParseLine(g[k - 1], out[k])
    BY <2>1
  <2>3. Loop(n, g)
    BY <2>2
  <2> HIDE DEF g, Loop
  <2>4. QED
    BY <2>3
<1>3. 0..Len(out) \subseteq S
  <2> HIDE DEF S
  <2>1. QED
    BY <1>1, <1>2, UpTo
<1>4. \E f : Loop(Len(out), f)
  <2> HIDE DEF Loop
  <2>1. QED
    BY <1>3
<1>5. Loop(Len(out), run)
  <2> HIDE DEF Loop
  <2>1. QED
    BY <1>4, Zenon
<1>6. /\ run[0] = start
      /\ \A n \in 1..Len(out) : run[n] = ParseLine(run[n - 1], out[n])
  <2>1. \A n \in 0..Len(out) : run[n] = IF n = 0 THEN start ELSE ParseLine(run[n - 1], out[n])
    BY <1>5
  <2>2. 0 \in 0..Len(out) /\ \A n \in 1..Len(out) : n \in 0..Len(out) /\ n # 0
    OBVIOUS
  <2> HIDE DEF run
  <2>3. QED
    BY <2>1, <2>2, Zenon
<1>7. ParseOn(start, out) = run[Len(out)]
  BY DEF ParseOn
<1> HIDE DEF run
<1>8. QED
  BY <1>6, <1>7

LEMMA ParseNone == ASSUME NEW start PROVE ParseOn(start, <<>>) = start
<1>1. Len(<<>>) = 0
  OBVIOUS
<1>2. PICK f : ParseOn(start, <<>>) = f[0] /\ f[0] = start
  BY <1>1, ParseRuns
<1>3. QED
  BY <1>2

LEMMA ParseMore ==
    ASSUME NEW start, NEW out \in Seq(Lines), NEW l \in Lines
    PROVE  ParseOn(start, Append(out, l)) = ParseLine(ParseOn(start, out), l)
<1> DEFINE N == Len(out)
           more == Append(out, l)
<1>1. N \in Nat /\ Len(more) = N + 1 /\ more[N + 1] = l /\ \A n \in 1..N : more[n] = out[n]
  BY AppendProperties
<1> HIDE DEF N, more
<1>2. PICK f : /\ ParseOn(start, out) = f[N]
               /\ f[0] = start
               /\ \A n \in 1..N : f[n] = ParseLine(f[n - 1], out[n])
  BY <1>1, ParseRuns DEF N
<1>3. PICK g : /\ ParseOn(start, more) = g[N + 1]
               /\ g[0] = start
               /\ \A n \in 1..(N + 1) : g[n] = ParseLine(g[n - 1], more[n])
  <2> DEFINE M == Len(more)
  <2>1. M \in Nat /\ M = N + 1
    BY <1>1
  <2>2. \E g : /\ ParseOn(start, more) = g[M]
               /\ g[0] = start
               /\ \A n \in 1..M : g[n] = ParseLine(g[n - 1], more[n])
    BY <2>1, ParseRuns
  <2> HIDE DEF M
  <2>3. QED
    BY <2>1, <2>2
<1> DEFINE S == {n \in 0..N : f[n] = g[n]}
<1>4. 0..N \subseteq S
  <2>1. 0 \in S
    BY <1>1, <1>2, <1>3
  <2>2. ASSUME NEW n \in 1..N, n - 1 \in S
        PROVE  n \in S
    <3>1. n \in 1..(N + 1) /\ n \in 0..N
      BY <1>1
    <3>2. f[n - 1] = g[n - 1]
      BY <2>2
    <3>3. f[n] = ParseLine(f[n - 1], out[n]) /\ g[n] = ParseLine(g[n - 1], more[n])
      BY <1>2, <1>3, <3>1
    <3>4. f[n] = g[n]
      BY <1>1, <3>2, <3>3
    <3>5. QED
      BY <3>1, <3>4
  <2> HIDE DEF S
  <2>3. QED
    BY <1>1, <2>1, <2>2, UpTo
<1>5. f[N] = g[N]
  BY <1>1, <1>4
<1>6. g[N + 1] = ParseLine(g[N], l)
  <2>1. N + 1 \in 1..(N + 1) /\ (N + 1) - 1 = N
    BY <1>1
  <2>2. QED
    BY <1>1, <1>3, <2>1
<1>7. QED
  BY <1>2, <1>3, <1>5, <1>6 DEF more

(* Entries of lists put together. *)
LEMMA EntriesConcat ==
    ASSUME NEW X, NEW a \in Seq(X), NEW b \in Seq(X)
    PROVE  Entries(a \o b) = Entries(a) \cup Entries(b)
<1>1. /\ Len(a) \in Nat /\ Len(b) \in Nat /\ DOMAIN a = 1..Len(a) /\ DOMAIN b = 1..Len(b)
      /\ a \o b \in Seq(X) /\ Len(a \o b) = Len(a) + Len(b)
      /\ \A i \in 1..(Len(a) + Len(b)) : (a \o b)[i] = IF i <= Len(a) THEN a[i] ELSE b[i - Len(a)]
  BY ConcatProperties
<1>2. DOMAIN (a \o b) = 1..(Len(a) + Len(b))
  BY <1>1
<1> DEFINE c == a \o b
           m == Len(a)
           n == Len(b)
<1>3. /\ m \in Nat /\ n \in Nat /\ DOMAIN a = 1..m /\ DOMAIN b = 1..n /\ DOMAIN c = 1..(m + n)
      /\ \A i \in 1..(m + n) : c[i] = IF i <= m THEN a[i] ELSE b[i - m]
  BY <1>1, <1>2
<1> HIDE DEF c, m, n
<1>4. ASSUME NEW e \in Entries(c) PROVE e \in Entries(a) \cup Entries(b)
  <2>1. PICK i \in 1..(m + n) : e = c[i]
    BY <1>3, <1>4 DEF Entries
  <2>2. CASE i <= m
    BY <1>3, <2>1, <2>2 DEF Entries
  <2>3. CASE ~(i <= m)
    <3>1. i - m \in 1..n /\ e = b[i - m]
      BY <1>3, <2>1, <2>3
    <3>2. QED
      BY <1>3, <3>1 DEF Entries
  <2>4. QED
    BY <2>2, <2>3
<1>5. ASSUME NEW e \in Entries(a) PROVE e \in Entries(c)
  <2>1. PICK i \in 1..m : e = a[i]
    BY <1>3, <1>5 DEF Entries
  <2>2. i \in 1..(m + n) /\ c[i] = a[i]
    BY <1>3, <2>1
  <2>3. QED
    BY <1>3, <2>1, <2>2 DEF Entries
<1>6. ASSUME NEW e \in Entries(b) PROVE e \in Entries(c)
  <2>1. PICK i \in 1..n : e = b[i]
    BY <1>3, <1>6 DEF Entries
  <2>2. i + m \in 1..(m + n) /\ ~(i + m <= m) /\ (i + m) - m = i
    BY <1>3, <2>1
  <2>3. c[i + m] = b[i]
    BY <1>3, <2>2
  <2>4. QED
    BY <1>3, <2>1, <2>2, <2>3 DEF Entries
<1>7. QED
  BY <1>4, <1>5, <1>6 DEF c

LEMMA EntriesOfOne == ASSUME NEW e PROVE Entries(<<e>>) = {e} /\ Entries(<<>>) = {}
  BY DEF Entries

LEMMA EntriesAppend ==
    ASSUME NEW X, NEW a \in Seq(X), NEW e \in X
    PROVE  Entries(Append(a, e)) = Entries(a) \cup {e}
<1>1. Append(a, e) = a \o <<e>> /\ <<e>> \in Seq(X)
  BY AppendIsConcat
<1>2. Entries(a \o <<e>>) = Entries(a) \cup Entries(<<e>>)
  BY ZenonT(40), <1>1, EntriesConcat
<1>3. QED
  BY <1>1, <1>2, EntriesOfOne

LEMMA FlushFinds ==
    ASSUME NEW s \in Parsing
    PROVE  flush(s) \in Parsing /\ Entries(flush(s).subs) = Found(s) /\ flush(s).cur = <<>>
<1>1. s.subs \in Seq(Entry) /\ s.cur \in Seq(Entry)
  BY DEF Parsing
<1>2. s.subs \o s.cur \in Seq(Entry) /\ Entries(s.subs \o s.cur) = Found(s)
  BY <1>1, ConcatProperties, EntriesConcat DEF Found
<1> HIDE DEF Found
<1>3. flush(s).subs = s.subs \o s.cur /\ flush(s).cur = <<>>
  BY DEF flush
<1>4. flush(s) \in Parsing
  BY <1>2 DEF flush, Parsing
<1>5. QED
  BY <1>2, <1>3, <1>4

LEMMA EntryChanged ==
    ASSUME NEW e \in Entry, NEW v
    PROVE  /\ [e EXCEPT !.hw = v] = [hw |-> v, hash |-> e.hash, primary |-> e.primary]
           /\ [e EXCEPT !.hash = v] = [hw |-> e.hw, hash |-> v, primary |-> e.primary]
<1>1. e = [hw |-> e.hw, hash |-> e.hash, primary |-> e.primary]
  BY DEF Entry
<1> DEFINE x == e.hw
           y == e.hash
           z == e.primary
<1>2. e = [hw |-> x, hash |-> y, primary |-> z]
  BY <1>1
<1> HIDE DEF x, y, z
<1>3. /\ [e EXCEPT !.hw = v] = [hw |-> v, hash |-> y, primary |-> z]
      /\ [e EXCEPT !.hash = v] = [hw |-> x, hash |-> v, primary |-> z]
  BY <1>2
<1>4. QED
  BY <1>3 DEF x, y, z

Sub(h) == [hw |-> h, hash |-> installed[h], primary |-> FALSE]
NotPending(out) == \A l \in Entries(out) : l.kind # "pending"

(* A line tells the truth, behind the line it belongs to. *)
Truthful(l, first, before) ==
    /\ l.kind = "primary" => l.val = Primary
    /\ l.kind = "running" => l.val = installed[Primary]
    /\ l.kind = "pending" => staged # NoTargets
    /\ l.kind = "hardware" => ~first /\ before.kind = "serial" /\ l.val \in Hardware
    /\ l.kind = "hash" => /\ ~first /\ before.kind = "hardware" /\ before.val \in Hardware
                          /\ l.val = installed[before.val]
Honest(out) == \A i \in 1..Len(out) : Truthful(out[i], i = 1, out[i - 1])

LEMMA HonestAppend ==
    ASSUME NEW out \in Seq(Lines), Honest(out), NEW l \in Lines,
           Truthful(l, out = <<>>, out[Len(out)])
    PROVE  Honest(Append(out, l))
<1> DEFINE more == Append(out, l)
           N == Len(out)
<1>1. N \in Nat /\ Len(more) = N + 1 /\ more[N + 1] = l /\ \A n \in 1..N : more[n] = out[n]
  BY AppendProperties
<1>2. Truthful(l, N = 0, out[N])
  <2>1. (out = <<>>) = (N = 0)
    BY EmptySeq
  <2>2. Truthful(l, out = <<>>, out[N])
    OBVIOUS
  <2>3. QED
    BY <2>1, <2>2
<1>3. \A i \in 1..N : Truthful(out[i], i = 1, out[i - 1])
  BY DEF Honest
<1> HIDE DEF more, N
<1>4. ASSUME NEW i \in 1..(N + 1) PROVE Truthful(more[i], i = 1, more[i - 1])
  <2>1. CASE i = N + 1
    <3>1. more[i] = l /\ (N # 0 => more[i - 1] = out[N]) /\ (i = 1 <=> N = 0)
      BY <1>1, <2>1
    <3>2. QED
      BY <1>2, <3>1 DEF Truthful
  <2>2. CASE i # N + 1
    <3>1. i \in 1..N
      BY <1>1, <2>2
    <3>2. more[i] = out[i] /\ (i # 1 => more[i - 1] = out[i - 1])
      BY <1>1, <3>1
    <3>3. QED
      BY <1>3, <3>1, <3>2 DEF Truthful
  <2>3. QED
    BY <2>1, <2>2
<1>5. QED
  BY <1>1, <1>4 DEF Honest, more

(* A block adds one entry, with the hash if there is one. *)
LEMMA ParseBlock ==
    ASSUME installed \in [Hardware -> Release], NEW h \in Hardware,
           NEW out \in Seq(Lines), NotPending(out), Honest(out),
           NEW E, Finds(ParseOn(Unparsed, out), E)
    PROVE  /\ out \o Block(h) \in Seq(Lines)
           /\ NotPending(out \o Block(h)) /\ Honest(out \o Block(h))
           /\ Finds(ParseOn(Unparsed, out \o Block(h)), E \cup {Sub(h)})
<1> DEFINE a == Printed("serial", 0)
           b == Printed("hardware", h)
           c == Printed("hash", installed[h])
           out1 == Append(out, a)
           out2 == Append(out1, b)
           out3 == Append(out2, c)
           s == ParseOn(Unparsed, out)
<1>1. /\ a \in Lines /\ b \in Lines /\ c \in Lines
      /\ a.kind = "serial" /\ b.kind = "hardware" /\ c.kind = "hash"
      /\ b.val = h /\ c.val = installed[h] /\ 0 \in Release
  <2>1. 0 \in Release /\ installed[h] \in Release
    BY CloudAssumption DEF Release
  <2>2. QED
    BY <2>1 DEF Printed, Lines, LineKind
<1> HIDE DEF a, b, c
<1>2. out1 \in Seq(Lines) /\ out2 \in Seq(Lines) /\ out3 \in Seq(Lines)
  BY <1>1, AppendProperties
<1>3. NotPending(out1) /\ NotPending(out2) /\ NotPending(out3)
  <2>1. ASSUME NEW q \in Seq(Lines), NotPending(q), NEW l \in Lines, l.kind # "pending"
        PROVE  NotPending(Append(q, l))
    <3>1. Entries(Append(q, l)) = Entries(q) \cup {l}
      BY EntriesAppend
    <3>2. QED
      BY <2>1, <3>1 DEF NotPending
  <2>2. NotPending(out1)
    BY <1>1, <2>1
  <2> HIDE DEF out1
  <2>3. NotPending(out2)
    BY <1>1, <1>2, <2>1, <2>2
  <2> HIDE DEF out2
  <2>4. NotPending(out3)
    BY <1>1, <1>2, <2>1, <2>3
  <2>5. QED
    BY <2>2, <2>3, <2>4
<1>h. Honest(out1) /\ Honest(out2) /\ Honest(out3)
  <2>1. Honest(out1)
    <3>1. Truthful(a, out = <<>>, out[Len(out)])
      BY <1>1 DEF Truthful
    <3>2. QED
      BY <1>1, <3>1, HonestAppend
  <2>2. out1 # <<>> /\ out1[Len(out1)] = a
    BY <1>1
  <2>3. out2 # <<>> /\ out2[Len(out2)] = b
    BY <1>1, <1>2
  <2> HIDE DEF out1
  <2>4. Honest(out2)
    <3>1. Truthful(b, out1 = <<>>, out1[Len(out1)])
      BY <1>1, <2>2 DEF Truthful
    <3>2. QED
      BY <1>1, <1>2, <2>1, <3>1, HonestAppend
  <2> HIDE DEF out2
  <2>5. Honest(out3)
    <3>1. Truthful(c, out2 = <<>>, out2[Len(out2)])
      BY <1>1, <2>3 DEF Truthful
    <3>2. QED
      BY <1>1, <1>2, <2>4, <3>1, HonestAppend
  <2>6. QED
    BY <2>1, <2>4, <2>5
<1>4. Block(h) = IF installed[h] = 0 THEN <<a, b>> ELSE <<a, b, c>>
  <2>1. CASE installed[h] = 0
    BY <2>1 DEF Block, a, b
  <2>2. CASE installed[h] # 0
    BY <2>2 DEF Block, a, b, c
  <2>3. QED
    BY <2>1, <2>2
<1>5. out2 = out \o <<a, b>> /\ out3 = out \o <<a, b, c>>
  <2>1. ASSUME NEW q \in Seq(Lines), NEW l \in Lines
        PROVE  Append(out \o q, l) = out \o Append(q, l)
    <3>1. <<l>> \in Seq(Lines) /\ out \o q \in Seq(Lines)
      BY ConcatProperties
    <3>2. Append(out \o q, l) = (out \o q) \o <<l>> /\ Append(q, l) = q \o <<l>>
      BY <3>1, AppendIsConcat
    <3>3. (out \o q) \o <<l>> = out \o (q \o <<l>>)
      BY <3>1, ConcatAssociative
    <3>4. QED
      BY <3>2, <3>3
  <2>2. <<a>> \in Seq(Lines) /\ <<a, b>> \in Seq(Lines)
    BY <1>1
  <2>3. Append(<<a>>, b) = <<a, b>> /\ Append(<<a, b>>, c) = <<a, b, c>>
    <3>1. /\ Append(<<a>>, b) \in Seq(Lines) /\ Len(Append(<<a>>, b)) = 2
          /\ Append(<<a>>, b)[1] = a /\ Append(<<a>>, b)[2] = b
      BY <1>1, <2>2
    <3>2. /\ Append(<<a, b>>, c) \in Seq(Lines) /\ Len(Append(<<a, b>>, c)) = 3
          /\ Append(<<a, b>>, c)[1] = a /\ Append(<<a, b>>, c)[2] = b
          /\ Append(<<a, b>>, c)[3] = c
      BY <1>1, <2>2
    <3>3. <<a, b>> \in Seq(Lines) /\ <<a, b, c>> \in Seq(Lines)
      BY <1>1
    <3>4. Append(<<a>>, b) = <<a, b>>
      <4> DEFINE p == Append(<<a>>, b)
                 q == <<a, b>>
      <4>1. Len(p) = 2 /\ Len(q) = 2 /\ \A i \in 1..2 : p[i] = q[i]
        BY <3>1
      <4>2. p \in Seq(Lines) /\ q \in Seq(Lines)
        BY <3>1, <3>3
      <4> HIDE DEF p, q
      <4>3. p = q
        BY <4>1, <4>2, SeqEqual
      <4>4. QED
        BY <4>3 DEF p, q
    <3>5. Append(<<a, b>>, c) = <<a, b, c>>
      <4> DEFINE p == Append(<<a, b>>, c)
                 q == <<a, b, c>>
      <4>1. Len(p) = 3 /\ Len(q) = 3 /\ \A i \in 1..3 : p[i] = q[i]
        BY <3>2
      <4>2. p \in Seq(Lines) /\ q \in Seq(Lines)
        BY <3>2, <3>3
      <4> HIDE DEF p, q
      <4>3. p = q
        BY <4>1, <4>2, SeqEqual
      <4>4. QED
        BY <4>3 DEF p, q
    <3>6. QED
      BY <3>4, <3>5
  <2>4. out1 = out \o <<a>>
    BY <1>1, AppendIsConcat
  <2> HIDE DEF out1
  <2>5. out2 = out \o <<a, b>>
    BY <1>1, <2>1, <2>2, <2>3, <2>4
  <2> HIDE DEF out2
  <2>6. out3 = out \o <<a, b, c>>
    BY <1>1, <2>1, <2>2, <2>3, <2>5
  <2>7. QED
    BY <2>5, <2>6
<1>6. /\ ParseOn(Unparsed, out1) = ParseLine(s, a)
      /\ ParseOn(Unparsed, out2) = ParseLine(ParseOn(Unparsed, out1), b)
      /\ ParseOn(Unparsed, out3) = ParseLine(ParseOn(Unparsed, out2), c)
  BY <1>1, <1>2, ParseMore
<1> DEFINE F == flush(s).subs
           InBlock(e) == [subs |-> F, cur |-> <<e>>]
           bare == [hw |-> h, hash |-> 0, primary |-> FALSE]
<1>7. F \in Seq(Entry) /\ Entries(F) = E
  BY FlushFinds DEF Finds, Parsing
<1>8. ParseLine(s, a) = InBlock(Ecu("", FALSE))
  BY <1>1 DEF ParseLine, flush
<1> HIDE DEF F, s
<1>9. ParseLine(InBlock(Ecu("", FALSE)), b) = InBlock(bare)
  <2> DEFINE e == Ecu("", FALSE)
             t == InBlock(e)
  <2>1. [e EXCEPT !.hw = h] = bare
    <3>1. e \in Entry /\ e.hash = 0 /\ e.primary = FALSE
      BY <1>1 DEF Ecu, Entry
    <3> HIDE DEF e
    <3>2. QED
      BY <3>1, EntryChanged
  <2> HIDE DEF e, bare
  <2>2. t.cur # <<>> /\ t.cur[1] = e
    OBVIOUS
  <2>3. ParseLine(t, b) = [t EXCEPT !.cur = <<[t.cur[1] EXCEPT !.hw = h]>>]
    <3> HIDE DEF t
    <3>1. QED
      BY <1>1, <2>2 DEF ParseLine
  <2>4. [t EXCEPT !.cur = <<bare>>] = InBlock(bare)
    OBVIOUS
  <2> HIDE DEF t
  <2>5. ParseLine(t, b) = InBlock(bare)
    BY <2>1, <2>2, <2>3, <2>4
  <2>6. QED
    BY <2>5 DEF t, e
<1>10. ParseLine(InBlock(bare), c) = InBlock(Sub(h))
  <2> DEFINE t == InBlock(bare)
             v == installed[h]
  <2>1. [bare EXCEPT !.hash = v] = Sub(h)
    <3>1. bare \in Entry /\ bare.hw = h /\ bare.primary = FALSE
      BY <1>1 DEF Entry
    <3> HIDE DEF bare, v
    <3>2. [bare EXCEPT !.hash = v] = [hw |-> h, hash |-> v, primary |-> FALSE]
      BY ZenonT(40), <3>1, EntryChanged
    <3>3. QED
      BY <3>2 DEF Sub, v
  <2> HIDE DEF bare
  <2>2. t.cur # <<>> /\ t.cur[1] = bare
    OBVIOUS
  <2>3. ParseLine(t, c) = [t EXCEPT !.cur = <<[t.cur[1] EXCEPT !.hash = v]>>]
    <3> HIDE DEF t
    <3>1. QED
      BY <1>1, <2>2 DEF ParseLine
  <2>4. [t EXCEPT !.cur = <<Sub(h)>>] = InBlock(Sub(h))
    OBVIOUS
  <2> HIDE DEF t
  <2>5. ParseLine(t, c) = InBlock(Sub(h))
    BY <2>1, <2>2, <2>3, <2>4
  <2>6. QED
    BY <2>5 DEF t
<1> DEFINE e == Sub(h)
<1>11. e \in Entry /\ ~e.primary
  BY DEF Sub, Entry
<1>12. Finds(InBlock(e), E \cup {e})
  <2> HIDE DEF e
  <2>1. InBlock(e).subs = F /\ InBlock(e).cur = <<e>> /\ InBlock(e) \in Parsing
    BY <1>7, <1>11 DEF Parsing
  <2>2. Entries(<<e>>) = {e}
    BY EntriesOfOne
  <2> HIDE DEF InBlock
  <2>3. QED
    BY <1>7, <1>11, <2>1, <2>2 DEF Finds, Found
<1>13. installed[h] = 0 => e = bare
  BY DEF Sub
<1> HIDE DEF out1, out2, out3, InBlock, e, bare
<1>14. CASE installed[h] = 0
  <2>1. ParseOn(Unparsed, out2) = InBlock(e)
    BY <1>6, <1>8, <1>9, <1>13, <1>14
  <2>2. QED
    BY <1>2, <1>3, <1>h, <1>4, <1>5, <1>12, <1>14, <2>1 DEF e
<1>15. CASE installed[h] # 0
  <2>1. ParseOn(Unparsed, out3) = InBlock(e)
    BY <1>6, <1>8, <1>9, <1>10 DEF e
  <2>2. QED
    BY <1>2, <1>3, <1>h, <1>4, <1>5, <1>12, <1>15, <2>1 DEF e
<1>16. QED
  BY <1>14, <1>15

(* The blocks, one after the other. *)
LEMMA ListedRuns ==
    \E f : /\ Listed = f[Len(Secondary)]
           /\ f[0] = <<Printed("device", 0), Printed("primary", Primary)>>
           /\ \A n \in 1..Len(Secondary) : f[n] = AddBlock(f[n - 1], Secondary[n])
<1> DEFINE Top == <<Printed("device", 0), Printed("primary", Primary)>>
           N == Len(Secondary)
           Loop(m, f) == f = [n \in 0..m |-> IF n = 0 THEN Top ELSE AddBlock(f[n - 1], Secondary[n])]
           S == {n \in 0..N : \E f : Loop(n, f)}
           run == CHOOSE f : Loop(N, f)
<1>1. Listed = run[N]
  BY DEF Listed
<1>2. N \in Nat
  BY CloudAssumption
<1> HIDE DEF Top, N
<1>3. 0 \in S
  <2> DEFINE g == [n \in 0..0 |-> Top]
  <2>1. Loop(0, g)
    OBVIOUS
  <2> HIDE DEF g, Loop
  <2>2. QED
    BY <1>2, <2>1
<1>4. ASSUME NEW n \in 1..N, n - 1 \in S
      PROVE  n \in S
  <2>1. PICK f : Loop(n - 1, f)
    BY <1>4
  <2> DEFINE g == [k \in 0..n |-> IF k = n THEN AddBlock(f[n - 1], Secondary[n]) ELSE f[k]]
  <2>2. \A k \in 0..n : g[k] = IF k = 0 THEN Top ELSE AddBlock(g[k - 1], Secondary[k])
    BY <1>2, <2>1
  <2>3. Loop(n, g)
    BY <2>2
  <2> HIDE DEF g, Loop
  <2>4. QED
    BY <1>2, <2>3
<1>5. 0..N \subseteq S
  <2> HIDE DEF S
  <2>1. QED
    BY <1>2, <1>3, <1>4, UpTo
<1>6. \E f : Loop(N, f)
  <2> HIDE DEF Loop
  <2>1. QED
    BY <1>2, <1>5
<1>7. Loop(N, run)
  <2> HIDE DEF Loop
  <2>1. QED
    BY <1>6, Zenon
<1>8. run[0] = Top /\ \A n \in 1..N : run[n] = AddBlock(run[n - 1], Secondary[n])
  <2>1. \A n \in 0..N : run[n] = IF n = 0 THEN Top ELSE AddBlock(run[n - 1], Secondary[n])
    BY <1>7
  <2>2. QED
    BY <1>2, <2>1
<1> HIDE DEF run
<1>9. QED
  BY <1>1, <1>8 DEF Top, N

(* The entries of what is installed, of the primary before its hash is     *)
(* known and with it.                                                      *)
OS == [hw |-> Primary, hash |-> installed[Primary], primary |-> TRUE]
Subs(n) == {Sub(Secondary[k]) : k \in 1..n}

LEMMA PrimaryIsHardware == Primary \in Hardware /\ 0 \in Release
<1>1. Primary \in Hardware
  BY DEF Hardware
<1>2. 0 \in Release
  BY CloudAssumption DEF Release
<1>3. QED
  BY <1>1, <1>2

LEMMA ParseHead ==
    LET out == <<Printed("device", 0), Printed("primary", Primary)>> IN
    /\ out \in Seq(Lines) /\ NotPending(out) /\ Honest(out)
    /\ Finds(ParseOn(Unparsed, out), {Ecu(Primary, TRUE)})
<1> DEFINE a == Printed("device", 0)
           b == Printed("primary", Primary)
<1>1. /\ a \in Lines /\ b \in Lines /\ a.kind = "device" /\ b.kind = "primary" /\ b.val = Primary
  BY PrimaryIsHardware DEF Printed, Lines, LineKind
<1> HIDE DEF a, b
<1>2. <<>> \in Seq(Lines) /\ <<a>> \in Seq(Lines) /\ <<a, b>> \in Seq(Lines)
  BY <1>1
<1>3. Append(<<>>, a) = <<a>> /\ Append(<<a>>, b) = <<a, b>>
  <2>1. Append(<<>>, a) = <<a>>
    <3> DEFINE p == Append(<<>>, a)
               q == <<a>>
    <3>1. Len(p) = 1 /\ Len(q) = 1 /\ \A i \in 1..1 : p[i] = q[i]
      BY <1>1, <1>2
    <3>2. p \in Seq(Lines) /\ q \in Seq(Lines)
      BY <1>1, <1>2
    <3> HIDE DEF p, q
    <3>3. p = q
      BY <3>1, <3>2, SeqEqual
    <3>4. QED
      BY <3>3 DEF p, q
  <2>2. Append(<<a>>, b) = <<a, b>>
    <3> DEFINE p == Append(<<a>>, b)
               q == <<a, b>>
    <3>1. Len(p) = 2 /\ Len(q) = 2 /\ \A i \in 1..2 : p[i] = q[i]
      BY <1>1, <1>2
    <3>2. p \in Seq(Lines) /\ q \in Seq(Lines)
      BY <1>1, <1>2
    <3> HIDE DEF p, q
    <3>3. p = q
      BY <3>1, <3>2, SeqEqual
    <3>4. QED
      BY <3>3 DEF p, q
  <2>3. QED
    BY <2>1, <2>2
<1>4. /\ ParseOn(Unparsed, <<a>>) = ParseLine(ParseOn(Unparsed, <<>>), a)
      /\ ParseOn(Unparsed, <<a, b>>) = ParseLine(ParseOn(Unparsed, <<a>>), b)
      /\ ParseOn(Unparsed, <<>>) = Unparsed
  <2>1. /\ ParseOn(Unparsed, Append(<<>>, a)) = ParseLine(ParseOn(Unparsed, <<>>), a)
        /\ ParseOn(Unparsed, Append(<<a>>, b)) = ParseLine(ParseOn(Unparsed, <<a>>), b)
    BY <1>1, <1>2, ParseMore
  <2>2. QED
    BY <1>3, <2>1, ParseNone
<1> DEFINE e == Ecu(Primary, TRUE)
<1>5. ParseLine(Unparsed, a) = Unparsed
  BY <1>1 DEF ParseLine
<1>6. ParseLine(Unparsed, b) = [subs |-> <<e>>, cur |-> <<>>]
  <2>1. ParseLine(Unparsed, b) = [subs |-> Append(flush(Unparsed).subs, e), cur |-> <<>>]
    BY <1>1 DEF ParseLine
  <2>2. e \in Entry
    BY PrimaryIsHardware DEF Ecu, Entry
  <2> HIDE DEF e
  <2>3. flush(Unparsed).subs = <<>>
    <3>1. <<>> \o <<>> = <<>>
      OBVIOUS
    <3>2. QED
      BY <3>1 DEF flush, Unparsed
  <2>4. Append(<<>>, e) = <<e>>
    <3> DEFINE p == Append(<<>>, e)
               q == <<e>>
    <3>1. Len(p) = 1 /\ Len(q) = 1 /\ \A i \in 1..1 : p[i] = q[i]
      BY <2>2
    <3>2. p \in Seq(Entry) /\ q \in Seq(Entry)
      BY <2>2
    <3> HIDE DEF p, q
    <3>3. p = q
      BY <3>1, <3>2, SeqEqual
    <3>4. QED
      BY <3>3 DEF p, q
  <2>5. QED
    BY <2>1, <2>3, <2>4
<1>7. Finds([subs |-> <<e>>, cur |-> <<>>], {e})
  <2>1. e \in Entry
    BY PrimaryIsHardware DEF Ecu, Entry
  <2> HIDE DEF e
  <2> DEFINE s == [subs |-> <<e>>, cur |-> <<>>]
  <2>2. s \in Parsing /\ s.subs = <<e>> /\ s.cur = <<>>
    BY <2>1 DEF Parsing
  <2>3. Entries(<<e>>) = {e} /\ Entries(<<>>) = {}
    BY EntriesOfOne
  <2> HIDE DEF s
  <2>4. Finds(s, {e})
    BY <2>2, <2>3 DEF Finds, Found
  <2>5. QED
    BY <2>4 DEF s
<1>8. NotPending(<<a, b>>)
  <2>1. Entries(<<a>>) = {a}
    BY EntriesOfOne
  <2>2. Entries(Append(<<a>>, b)) = Entries(<<a>>) \cup {b}
    <3> DEFINE q == <<a>>
    <3>1. q \in Seq(Lines)
      BY <1>2
    <3> HIDE DEF q
    <3>2. Entries(Append(q, b)) = Entries(q) \cup {b}
      BY <1>1, <3>1, EntriesAppend
    <3>3. QED
      BY <3>2 DEF q
  <2>3. QED
    BY <1>1, <1>3, <2>1, <2>2 DEF NotPending
<1>h. Honest(<<a, b>>)
  <2>1. Honest(<<>>)
    BY DEF Honest
  <2> DEFINE q == <<>>
             r == <<a>>
  <2>2. q \in Seq(Lines) /\ r \in Seq(Lines) /\ Append(q, a) = r /\ Append(r, b) = <<a, b>>
    BY <1>2, <1>3
  <2>3. Truthful(a, q = <<>>, q[Len(q)]) /\ Truthful(b, r = <<>>, r[Len(r)])
    BY <1>1 DEF Truthful
  <2>4. Honest(q)
    BY <2>1
  <2> HIDE DEF q, r
  <2>5. Honest(r)
    BY <1>1, <2>2, <2>3, <2>4, HonestAppend
  <2>6. Honest(Append(r, b))
    BY <1>1, <2>2, <2>3, <2>5, HonestAppend
  <2>7. QED
    BY <2>2, <2>6
<1>9. QED
  <2> HIDE DEF e
  <2>1. Finds(ParseOn(Unparsed, <<a, b>>), {e})
    BY <1>4, <1>5, <1>6, <1>7
  <2>2. QED
    BY <1>2, <1>8, <1>h, <2>1 DEF a, b, e

LEMMA ParseListed ==
    ASSUME installed \in [Hardware -> Release]
    PROVE  /\ Listed \in Seq(Lines) /\ NotPending(Listed) /\ Honest(Listed)
           /\ Finds(ParseOn(Unparsed, Listed), {Ecu(Primary, TRUE)} \cup Subs(Len(Secondary)))
<1> DEFINE N == Len(Secondary)
           e == Ecu(Primary, TRUE)
           out == <<Printed("device", 0), Printed("primary", Primary)>>
<1>1. N \in Nat /\ \A n \in 1..N : Secondary[n] \in Hardware
  BY CloudAssumption DEF Hardware
<1>2. PICK f : Listed = f[N] /\ f[0] = out /\ \A n \in 1..N : f[n] = AddBlock(f[n - 1], Secondary[n])
  BY ListedRuns
<1> DEFINE Right(n) == /\ f[n] \in Seq(Lines) /\ NotPending(f[n]) /\ Honest(f[n])
                       /\ Finds(ParseOn(Unparsed, f[n]), {e} \cup Subs(n))
           S == {n \in 0..N : Right(n)}
<1>3. out \in Seq(Lines) /\ NotPending(out) /\ Honest(out) /\ Finds(ParseOn(Unparsed, out), {e})
  BY ParseHead
<1> HIDE DEF N, e, out
<1>4. 0 \in S
  <2>1. Subs(0) = {}
    BY DEF Subs
  <2>2. {e} \cup Subs(0) = {e}
    BY <2>1
  <2>3. Right(0)
    BY <1>2, <1>3, <2>2
  <2> HIDE DEF Right
  <2>4. QED
    BY <1>1, <2>3
<1>5. ASSUME NEW n \in 1..N, n - 1 \in S
      PROVE  n \in S
  <2> DEFINE g == f[n - 1]
             h == Secondary[n]
             E == {e} \cup Subs(n - 1)
  <2>1. /\ g \in Seq(Lines) /\ NotPending(g) /\ Honest(g)
        /\ Finds(ParseOn(Unparsed, g), E) /\ n \in 0..N
    BY <1>1, <1>5
  <2>2. h \in Hardware /\ f[n] = g \o Block(h)
    BY <1>1, <1>2 DEF AddBlock
  <2>3. E \cup {Sub(h)} = {e} \cup Subs(n)
    <3>1. 1..n = (1..(n - 1)) \cup {n}
      BY <1>1
    <3>2. Subs(n) = Subs(n - 1) \cup {Sub(h)}
      BY <3>1 DEF Subs
    <3>3. QED
      BY <3>2
  <2> HIDE DEF g, h, E
  <2>4. /\ g \o Block(h) \in Seq(Lines) /\ NotPending(g \o Block(h)) /\ Honest(g \o Block(h))
        /\ Finds(ParseOn(Unparsed, g \o Block(h)), E \cup {Sub(h)})
    BY <2>1, <2>2, ParseBlock
  <2>5. QED
    BY <2>1, <2>2, <2>3, <2>4
<1>6. Right(N)
  <2>1. 0..N \subseteq S
    <3> HIDE DEF S
    <3>1. QED
      BY <1>1, <1>4, <1>5, UpTo
  <2> HIDE DEF Right
  <2>2. QED
    BY <1>1, <2>1
<1>7. QED
  BY <1>2, <1>6 DEF N, e

(* The line with the primary's hash sets it in the entries found. *)
LEMMA ParseRunning ==
    ASSUME NEW s, NEW E, Finds(s, E), NEW l \in Lines, l.kind = "running", l.val \in Release
    PROVE  Finds(ParseLine(s, l), {Running(e, l.val) : e \in E})
<1> DEFINE v == l.val
           q == s.subs
           r == [i \in DOMAIN q |-> Running(q[i], v)]
           t == [s EXCEPT !.subs = r]
<1>1. ParseLine(s, l) = t
  BY DEF ParseLine
<1>2. /\ s \in Parsing /\ q \in Seq(Entry) /\ s.cur \in Seq(Entry) /\ Found(s) = E
      /\ \A e \in Entries(s.cur) : ~e.primary
  BY DEF Finds, Parsing
<1>3. \A e \in Entry : Running(e, v) \in Entry
  BY DEF Running, Entry
<1> HIDE DEF v, q
<1>4. r \in Seq(Entry)
  <2>1. \A i \in 1..Len(q) : q[i] \in Entry
    BY <1>2
  <2>2. DOMAIN q = 1..Len(q) /\ Len(q) \in Nat
    BY <1>2
  <2>3. \A i \in 1..Len(q) : Running(q[i], v) \in Entry
    BY <1>3, <2>1
  <2>4. [i \in 1..Len(q) |-> Running(q[i], v)] \in Seq(Entry)
    BY <2>2, <2>3, IsASeq
  <2>5. QED
    BY <2>2, <2>4
<1>5. t.subs = r /\ t.cur = s.cur /\ t \in Parsing
  <2> HIDE DEF r
  <2>1. QED
    BY <1>2, <1>4 DEF Parsing
<1>6. Entries(r) = {Running(e, v) : e \in Entries(q)}
  BY DEF Entries
<1>7. Entries(s.cur) = {Running(e, v) : e \in Entries(s.cur)}
  <2>1. \A e \in Entries(s.cur) : Running(e, v) = e
    BY <1>2 DEF Running
  <2> DEFINE C == Entries(s.cur)
  <2> HIDE DEF C
  <2>2. \A e \in C : Running(e, v) = e
    BY <2>1 DEF C
  <2>3. C = {Running(e, v) : e \in C}
    BY <2>2
  <2>4. QED
    BY <2>3 DEF C
<1>8. Found(t) = {Running(e, v) : e \in E}
  <2> DEFINE A == Entries(q)
             C == Entries(s.cur)
  <2>1. E = A \cup C
    BY <1>2 DEF Found, q
  <2>2. Found(t) = Entries(r) \cup C
    BY <1>5 DEF Found
  <2>3. Entries(r) = {Running(e, v) : e \in A} /\ C = {Running(e, v) : e \in C}
    BY <1>6, <1>7
  <2> HIDE DEF A, C, r, t
  <2>4. QED
    BY <2>1, <2>2, <2>3
<1>9. Finds(t, {Running(e, v) : e \in E})
  <2> HIDE DEF t, r
  <2>1. QED
    BY <1>2, <1>5, <1>8 DEF Finds
<1>10. QED
  BY <1>1, <1>9 DEF v

(* What parseInfo makes of the output, and that a pending version shows.   *)
LEMMA OutputParsed ==
    ASSUME installed \in [Hardware -> Release], announced \/ installed[Primary] = 0
    PROVE  /\ Entries(parseInfo(Output)) = {OS} \cup Subs(Len(Secondary))
           /\ NotPending(Output) <=> staged = NoTargets
<1> DEFINE N == Len(Secondary)
           E0 == {Ecu(Primary, TRUE)} \cup Subs(N)
           E == {OS} \cup Subs(N)
           v == installed[Primary]
           run == Printed("running", v)
           pend == Printed("pending", 0)
           out == Listed \o RunningLine
<1>1. Listed \in Seq(Lines) /\ NotPending(Listed) /\ Finds(ParseOn(Unparsed, Listed), E0)
  BY ParseListed
<1>2. /\ run \in Lines /\ run.kind = "running" /\ run.val = v /\ v \in Release
      /\ pend \in Lines /\ pend.kind = "pending"
  BY PrimaryIsHardware DEF Printed, Lines, LineKind
<1>3. v = 0 => E = E0
  BY DEF OS, Ecu
<1>4. E = {Running(e, v) : e \in E0}
  <2>1. Running(Ecu(Primary, TRUE), v) = OS
    <3>1. Ecu(Primary, TRUE) \in Entry
      BY PrimaryIsHardware DEF Ecu, Entry
    <3> DEFINE e == Ecu(Primary, TRUE)
    <3>2. e.hw = Primary /\ e.primary = TRUE
      BY DEF Ecu
    <3> HIDE DEF e, v
    <3>3. [e EXCEPT !.hash = v] = [hw |-> e.hw, hash |-> v, primary |-> e.primary]
      <4>1. e \in Entry
        BY <3>1 DEF e
      <4>2. QED
        BY <4>1, EntryChanged
    <3>4. [e EXCEPT !.hash = v] = [hw |-> Primary, hash |-> v, primary |-> TRUE]
      BY <3>2, <3>3
    <3>5. QED
      BY <3>2, <3>4 DEF Running, OS, e, v
  <2>2. \A e \in Subs(N) : Running(e, v) = e
    BY DEF Subs, Sub, Running
  <2> DEFINE P == Ecu(Primary, TRUE)
             D == Subs(N)
  <2> HIDE DEF P, D, v
  <2>3. Running(P, v) = OS /\ (\A e \in D : Running(e, v) = e)
    BY <2>1, <2>2 DEF P, D
  <2>4. {OS} \cup D = {Running(e, v) : e \in {P} \cup D}
    BY <2>3
  <2>5. QED
    BY <2>4 DEF P, D
<1> HIDE DEF E, E0, v, run, pend
<1>5. out \in Seq(Lines) /\ NotPending(out) /\ Finds(ParseOn(Unparsed, out), E)
  <2>1. CASE v = 0
    <3>1. RunningLine = <<>>
      BY <2>1 DEF RunningLine, v
    <3>2. out = Listed
      BY <1>1, <3>1, ConcatEmptySeq
    <3>3. QED
      BY <1>1, <1>3, <2>1, <3>2
  <2>2. CASE v # 0
    <3>1. RunningLine = <<run>>
      BY <2>2 DEF RunningLine, run, v
    <3>2. out = Append(Listed, run)
      BY <1>1, <1>2, <3>1, AppendIsConcat
    <3>3. out \in Seq(Lines) /\ Entries(out) = Entries(Listed) \cup {run}
      BY <1>1, <1>2, <3>2, AppendProperties, EntriesAppend
    <3>4. ParseOn(Unparsed, out) = ParseLine(ParseOn(Unparsed, Listed), run)
      BY <1>1, <1>2, <3>2, ParseMore
    <3> HIDE DEF out
    <3>5. NotPending(out)
      BY <1>1, <1>2, <3>3 DEF NotPending
    <3>6. Finds(ParseLine(ParseOn(Unparsed, Listed), run), {Running(e, run.val) : e \in E0})
      BY <1>1, <1>2, ParseRunning
    <3>7. QED
      BY <1>2, <1>4, <3>3, <3>4, <3>5, <3>6
  <2>3. QED
    BY <2>1, <2>2
<1>6. Output = out \o PendingLine
  BY DEF Output
<1> HIDE DEF out
<1>7. /\ Finds(ParseOn(Unparsed, Output), E)
      /\ NotPending(Output) <=> staged = NoTargets
  <2>1. CASE staged = NoTargets
    <3>1. PendingLine = <<>>
      BY <2>1 DEF PendingLine
    <3>2. Output = out
      BY <1>5, <1>6, <3>1, ConcatEmptySeq
    <3>3. QED
      BY <1>5, <2>1, <3>2
  <2>2. CASE staged # NoTargets
    <3>1. PendingLine = <<pend>>
      BY <2>2 DEF PendingLine, pend
    <3>2. Output = Append(out, pend)
      BY <1>2, <1>5, <1>6, <3>1, AppendIsConcat
    <3>3. Entries(Output) = Entries(out) \cup {pend}
      BY <1>2, <1>5, <3>2, EntriesAppend
    <3>4. ParseOn(Unparsed, Output) = ParseLine(ParseOn(Unparsed, out), pend)
      BY <1>2, <1>5, <3>2, ParseMore
    <3>5. ~NotPending(Output)
      BY <1>2, <3>3 DEF NotPending
    <3>6. ASSUME NEW s PROVE ParseLine(s, pend) = s
      BY <1>2 DEF ParseLine
    <3>7. QED
      BY <1>5, <2>2, <3>4, <3>5, <3>6
  <2>3. QED
    BY <2>1, <2>2
<1> DEFINE s == ParseOn(Unparsed, Output)
<1>8. Entries(flush(s).subs) = E
  <2>1. s \in Parsing /\ Found(s) = E
    BY <1>7 DEF Finds
  <2> HIDE DEF s
  <2>2. QED
    BY <2>1, FlushFinds
<1>9. QED
  BY <1>7, <1>8 DEF parseInfo, E

(* Announced or not, the whole output is honest. *)
LEMMA OutputHonest ==
    ASSUME installed \in [Hardware -> Release]
    PROVE  Output \in Seq(Lines) /\ Honest(Output)
<1> DEFINE run == Printed("running", installed[Primary])
           pend == Printed("pending", 0)
           out == Listed \o RunningLine
<1>1. Listed \in Seq(Lines) /\ Honest(Listed)
  BY ParseListed
<1>2. /\ run \in Lines /\ run.kind = "running" /\ run.val = installed[Primary]
      /\ pend \in Lines /\ pend.kind = "pending"
  BY PrimaryIsHardware DEF Printed, Lines, LineKind
<1>3. RunningLine = <<run>> \/ RunningLine = <<>>
  BY DEF RunningLine
<1>4. PendingLine = IF staged = NoTargets THEN <<>> ELSE <<pend>>
  BY DEF PendingLine
<1> HIDE DEF run, pend
<1>5. out \in Seq(Lines) /\ Honest(out)
  <2>1. CASE RunningLine = <<>>
    <3>1. out = Listed
      BY <1>1, <2>1, ConcatEmptySeq
    <3>2. QED
      BY <1>1, <3>1
  <2>2. CASE RunningLine = <<run>>
    <3>1. out = Append(Listed, run)
      BY <1>1, <1>2, <2>2, AppendIsConcat
    <3>2. Truthful(run, Listed = <<>>, Listed[Len(Listed)])
      BY <1>2 DEF Truthful
    <3>3. QED
      BY <1>1, <1>2, <3>1, <3>2, AppendProperties, HonestAppend
  <2>3. QED
    BY <1>3, <2>1, <2>2
<1>6. Output = out \o PendingLine
  BY DEF Output
<1> HIDE DEF out
<1>7. CASE staged = NoTargets
  <2>1. Output = out
    BY <1>4, <1>5, <1>6, <1>7, ConcatEmptySeq
  <2>2. QED
    BY <1>5, <2>1
<1>8. CASE staged # NoTargets
  <2>1. Output = Append(out, pend)
    BY <1>2, <1>4, <1>5, <1>6, <1>8, AppendIsConcat
  <2>2. Truthful(pend, out = <<>>, out[Len(out)])
    BY <1>2, <1>8 DEF Truthful
  <2>3. QED
    BY <1>2, <1>5, <2>1, <2>2, AppendProperties, HonestAppend
<1>9. QED
  BY <1>7, <1>8

(* An entry with a hash tells what is installed. *)
TrueEntry(e) ==
    /\ e.hash # 0 => e.hw \in Hardware /\ e.hash = installed[e.hw]
    /\ e.primary => e.hw = Primary

(* Where parseInfo is behind line l of an honest list. *)
Bare(h) == [hw |-> h, hash |-> 0, primary |-> FALSE]
AllTrue(s) == \E E : Finds(s, E) /\ \A e \in E : TrueEntry(e)
Parsed(s, l) ==
    /\ AllTrue(s)
    /\ l.kind = "serial" => s.cur = <<Bare("")>>
    /\ l.kind = "hardware" => s.cur = <<Bare(l.val)>>

LEMMA OpenBlock ==
    ASSUME NEW F \in Seq(Entry), \A e \in Entries(F) : TrueEntry(e),
           NEW e \in Entry, ~e.primary, TrueEntry(e)
    PROVE  AllTrue([subs |-> F, cur |-> <<e>>])
<1> DEFINE s == [subs |-> F, cur |-> <<e>>]
<1>1. s \in Parsing /\ s.subs = F /\ s.cur = <<e>>
  BY DEF Parsing
<1>2. Entries(<<e>>) = {e}
  BY EntriesOfOne
<1> HIDE DEF s
<1>3. Finds(s, Entries(F) \cup {e})
  BY <1>1, <1>2 DEF Finds, Found
<1>4. AllTrue(s)
  BY <1>3 DEF AllTrue
<1>5. QED
  BY <1>4 DEF s

LEMMA ParseHonestLine ==
    ASSUME installed \in [Hardware -> Release], NEW s, AllTrue(s), NEW l \in Lines,
           NEW first \in BOOLEAN, NEW before, Truthful(l, first, before),
           ~first => Parsed(s, before)
    PROVE  Parsed(ParseLine(s, l), l)
<1>1. PICK E : Finds(s, E) /\ \A e \in E : TrueEntry(e)
  BY DEF AllTrue
<1>2. /\ s \in Parsing /\ s.subs \in Seq(Entry) /\ s.cur \in Seq(Entry) /\ Found(s) = E
      /\ s = [subs |-> s.subs, cur |-> s.cur]
  BY <1>1 DEF Finds, Parsing
<1>3. E \subseteq Entry
  <2>1. Entries(s.subs) \subseteq Entry /\ Entries(s.cur) \subseteq Entry
    BY <1>2 DEF Entries
  <2>2. QED
    BY <1>2, <2>1 DEF Found
<1>4. flush(s).subs \in Seq(Entry) /\ Entries(flush(s).subs) = E /\ flush(s).cur = <<>>
  BY <1>2, FlushFinds DEF Parsing
<1>5. Entries(s.subs) \subseteq E
  BY <1>2 DEF Found
<1>6. l.kind \in LineKind /\ l.val \in Hardware \cup Release /\ 0 \in Release
  BY PrimaryIsHardware DEF Lines
<1>7. CASE l.kind \in {"device", "pending"}
  <2>1. ParseLine(s, l) = s
    BY <1>7 DEF ParseLine
  <2>2. QED
    BY <1>7, <2>1 DEF Parsed
<1>8. CASE l.kind = "primary"
  <2> DEFINE F == flush(s).subs
             e == Ecu(Primary, TRUE)
             G == Append(F, e)
             t == [subs |-> G, cur |-> <<>>]
  <2>1. ParseLine(s, l) = t
    BY <1>8 DEF ParseLine, Truthful
  <2>2. e \in Entry /\ TrueEntry(e)
    BY PrimaryIsHardware DEF Ecu, Entry, TrueEntry
  <2>3. F \in Seq(Entry) /\ Entries(F) = E
    BY <1>4
  <2> HIDE DEF F, e
  <2>4. G \in Seq(Entry) /\ Entries(G) = E \cup {e}
    BY <2>2, <2>3, AppendProperties, EntriesAppend
  <2> HIDE DEF G
  <2>5. t \in Parsing /\ t.subs = G /\ t.cur = <<>>
    BY <2>4 DEF Parsing
  <2>6. Entries(<<>>) = {}
    BY EntriesOfOne
  <2> HIDE DEF t
  <2>7. Finds(t, E \cup {e})
    BY <2>4, <2>5, <2>6 DEF Finds, Found
  <2>8. AllTrue(t)
    BY <1>1, <2>2, <2>7 DEF AllTrue
  <2>9. QED
    BY <1>8, <2>1, <2>8 DEF Parsed
<1>9. CASE l.kind = "running"
  <2> DEFINE v == l.val
  <2>1. v = installed[Primary] /\ v \in Release
    BY <1>9, PrimaryIsHardware DEF Truthful
  <2>2. Finds(ParseLine(s, l), {Running(e, v) : e \in E})
    BY <1>1, <1>9, <2>1, ParseRunning
  <2> HIDE DEF v
  <2>3. ASSUME NEW e \in E PROVE TrueEntry(Running(e, v))
    <3>1. e \in Entry /\ TrueEntry(e)
      BY <1>1, <1>3
    <3>2. CASE e.primary
      <4>1. Running(e, v) = [hw |-> e.hw, hash |-> v, primary |-> e.primary]
        BY <3>1, <3>2, EntryChanged DEF Running
      <4>2. e.hw = Primary /\ Primary \in Hardware
        BY <3>1, <3>2, PrimaryIsHardware DEF TrueEntry
      <4>3. QED
        BY <2>1, <4>1, <4>2 DEF TrueEntry
    <3>3. CASE ~e.primary
      BY <3>1, <3>3 DEF Running
    <3>4. QED
      BY <3>2, <3>3
  <2>4. AllTrue(ParseLine(s, l))
    <3> DEFINE R == {Running(e, v) : e \in E}
    <3>1. \A e \in R : TrueEntry(e)
      BY <2>3
    <3>2. Finds(ParseLine(s, l), R)
      BY <2>2
    <3> HIDE DEF R
    <3>3. QED
      BY <3>1, <3>2 DEF AllTrue
  <2>5. QED
    BY <1>9, <2>4 DEF Parsed
<1>10. CASE l.kind = "serial"
  <2> DEFINE F == flush(s).subs
             e == Bare("")
  <2>1. ParseLine(s, l) = [subs |-> F, cur |-> <<e>>]
    BY <1>10 DEF ParseLine, flush, Ecu, Bare
  <2>2. e \in Entry /\ ~e.primary /\ TrueEntry(e)
    BY <1>6 DEF Bare, Entry, TrueEntry
  <2>3. F \in Seq(Entry) /\ \A x \in Entries(F) : TrueEntry(x)
    BY <1>1, <1>4
  <2> HIDE DEF F, e
  <2>4. AllTrue([subs |-> F, cur |-> <<e>>])
    BY <2>2, <2>3, OpenBlock
  <2>5. e = Bare("") /\ [subs |-> F, cur |-> <<e>>].cur = <<e>>
    BY DEF e
  <2>6. QED
    BY <1>10, <2>1, <2>4, <2>5 DEF Parsed
<1>11. CASE l.kind = "hardware"
  <2> DEFINE F == s.subs
             h == l.val
             b == Bare("")
             e == Bare(h)
  <2>1. h \in Hardware /\ s.cur = <<b>>
    BY <1>11 DEF Truthful, Parsed
  <2>2. b \in Entry /\ [b EXCEPT !.hw = h] = e
    <3>1. b \in Entry /\ b.hash = 0 /\ b.primary = FALSE
      BY <1>6 DEF Bare, Entry
    <3> HIDE DEF b
    <3>2. [b EXCEPT !.hw = h] = [hw |-> h, hash |-> b.hash, primary |-> b.primary]
      BY <3>1, EntryChanged
    <3>3. QED
      BY <3>1, <3>2 DEF Bare
  <2>3. e \in Entry /\ ~e.primary /\ TrueEntry(e)
    BY <1>6, <2>1 DEF Bare, Entry, TrueEntry
  <2> HIDE DEF b, e
  <2>4. ParseLine(s, l) = [subs |-> F, cur |-> <<e>>]
    <3>1. ParseLine(s, l) = [s EXCEPT !.cur = <<[s.cur[1] EXCEPT !.hw = h]>>]
      BY <1>11, <2>1 DEF ParseLine
    <3>2. s.cur[1] = b
      BY <2>1
    <3>3. [s EXCEPT !.cur = <<e>>] = [subs |-> F, cur |-> <<e>>]
      BY <1>2
    <3>4. QED
      BY <2>2, <3>1, <3>2, <3>3
  <2>5. F \in Seq(Entry) /\ \A x \in Entries(F) : TrueEntry(x)
    BY <1>1, <1>2, <1>5
  <2> HIDE DEF F, h
  <2>6. AllTrue([subs |-> F, cur |-> <<e>>])
    BY <2>3, <2>5, OpenBlock
  <2>7. e = Bare(l.val) /\ [subs |-> F, cur |-> <<e>>].cur = <<e>>
    BY DEF e, h
  <2>8. QED
    BY <1>11, <2>4, <2>6, <2>7 DEF Parsed
<1>12. CASE l.kind = "hash"
  <2> DEFINE F == s.subs
             h == before.val
             v == l.val
             b == Bare(h)
             e == [hw |-> h, hash |-> v, primary |-> FALSE]
  <2>1. s.cur = <<b>> /\ v = installed[h]
    BY <1>12 DEF Truthful, Parsed
  <2>a. h \in Hardware
    BY <1>12 DEF Truthful
  <2>2. [b EXCEPT !.hash = v] = e
    <3>1. b \in Entry /\ b.hw = h /\ b.primary = FALSE
      BY <1>6, <2>a DEF Bare, Entry
    <3> HIDE DEF b
    <3>2. [b EXCEPT !.hash = v] = [hw |-> b.hw, hash |-> v, primary |-> b.primary]
      BY <3>1, EntryChanged
    <3>3. QED
      BY <3>1, <3>2
  <2>3. e \in Entry /\ ~e.primary /\ TrueEntry(e)
    BY <2>1, <2>a DEF Entry, TrueEntry
  <2> HIDE DEF b, e
  <2>4. ParseLine(s, l) = [subs |-> F, cur |-> <<e>>]
    <3>1. ParseLine(s, l) = [s EXCEPT !.cur = <<[s.cur[1] EXCEPT !.hash = v]>>]
      BY <1>12, <2>1 DEF ParseLine
    <3>2. s.cur[1] = b
      BY <2>1
    <3>3. [s EXCEPT !.cur = <<e>>] = [subs |-> F, cur |-> <<e>>]
      BY <1>2
    <3>4. QED
      BY <2>2, <3>1, <3>2, <3>3
  <2>5. F \in Seq(Entry) /\ \A x \in Entries(F) : TrueEntry(x)
    BY <1>1, <1>2, <1>5
  <2> HIDE DEF F, h, v
  <2>6. AllTrue([subs |-> F, cur |-> <<e>>])
    BY <2>3, <2>5, OpenBlock
  <2>7. QED
    BY <1>12, <2>4, <2>6 DEF Parsed
<1>13. QED
  BY <1>6, <1>7, <1>8, <1>9, <1>10, <1>11, <1>12 DEF LineKind

LEMMA HonestParsed ==
    ASSUME installed \in [Hardware -> Release], NEW out \in Seq(Lines), Honest(out)
    PROVE  \A e \in Entries(parseInfo(out)) : TrueEntry(e)
<1> DEFINE N == Len(out)
<1>1. N \in Nat /\ \A n \in 1..N : out[n] \in Lines
  OBVIOUS
<1>3. \A n \in 1..N : Truthful(out[n], n = 1, out[n - 1])
  BY DEF Honest
<1> DEFINE u == Unparsed
<1> HIDE DEF N, u
<1>a. \E f : /\ ParseOn(u, out) = f[N] /\ f[0] = u
             /\ \A n \in 1..N : f[n] = ParseLine(f[n - 1], out[n])
  <2>1. Len(out) \in Nat
    BY <1>1 DEF N
  <2>2. \E f : /\ ParseOn(u, out) = f[Len(out)] /\ f[0] = u
               /\ \A n \in 1..Len(out) : f[n] = ParseLine(f[n - 1], out[n])
    BY ONLY <2>1, ParseRuns
  <2>3. QED
    BY <2>2 DEF N
<1>2. PICK f : /\ ParseOn(Unparsed, out) = f[N] /\ f[0] = Unparsed
               /\ \A n \in 1..N : f[n] = ParseLine(f[n - 1], out[n])
  BY <1>a DEF u
<1> DEFINE Right(n) == AllTrue(f[n]) /\ (n # 0 => Parsed(f[n], out[n]))
           S == {n \in 0..N : Right(n)}
<1>4. 0 \in S
  <2>1. u \in Parsing /\ u.subs = <<>> /\ u.cur = <<>>
    BY DEF u, Unparsed, Parsing
  <2>2. Entries(<<>>) = {}
    BY EntriesOfOne
  <2>3. Finds(u, {})
    BY <2>1, <2>2 DEF Finds, Found
  <2>4. AllTrue(u)
    BY <2>3 DEF AllTrue
  <2>5. QED
    BY <1>1, <1>2, <2>4 DEF u
<1>5. ASSUME NEW n \in 1..N, n - 1 \in S
      PROVE  n \in S
  <2>1. AllTrue(f[n - 1]) /\ (n # 1 => Parsed(f[n - 1], out[n - 1])) /\ n \in 0..N
    BY <1>1, <1>5
  <2> DEFINE first == (n = 1)
  <2>2. first \in BOOLEAN /\ Truthful(out[n], first, out[n - 1]) /\ out[n] \in Lines
        /\ (~first => Parsed(f[n - 1], out[n - 1]))
    BY <1>1, <1>3, <2>1
  <2> HIDE DEF first
  <2>3. Parsed(ParseLine(f[n - 1], out[n]), out[n])
    BY <2>1, <2>2, ParseHonestLine
  <2>4. Parsed(f[n], out[n])
    BY <1>2, <2>3
  <2>5. QED
    BY <2>1, <2>4 DEF Parsed
<1>6. AllTrue(f[N])
  <2>1. 0..N \subseteq S
    <3> HIDE DEF S
    <3>1. QED
      BY <1>1, <1>4, <1>5, UpTo
  <2> HIDE DEF Right
  <2>2. N \in S
    BY <1>1, <2>1
  <2>3. QED
    BY <2>2 DEF Right
<1>7. PICK E : Finds(ParseOn(Unparsed, out), E) /\ \A e \in E : TrueEntry(e)
  BY <1>2, <1>6 DEF AllTrue
<1> DEFINE s == ParseOn(Unparsed, out)
<1>8. s \in Parsing /\ Found(s) = E
  BY <1>7 DEF Finds
<1> HIDE DEF s
<1>9. Entries(flush(s).subs) = E
  BY <1>8, FlushFinds
<1>10. QED
  BY <1>7, <1>9 DEF parseInfo, s

(* So does what a failing run left of it: its first lines. *)
LEMMA CutHonest ==
    ASSUME installed \in [Hardware -> Release], NEW n \in 1..Len(Output)
    PROVE  SubSeq(Output, 1, n) \in Seq(Lines) /\ Honest(SubSeq(Output, 1, n))
<1> DEFINE out == Output
           cut == SubSeq(out, 1, n)
<1>1. out \in Seq(Lines) /\ Honest(out)
  BY OutputHonest
<1>2. n \in 1..Len(out)
  OBVIOUS
<1> HIDE DEF out
<1>3. cut \in Seq(Lines) /\ Len(cut) = n /\ \A i \in 1..n : cut[i] = out[i]
  BY <1>1, <1>2
<1> HIDE DEF cut
<1>4. ASSUME NEW i \in 1..n PROVE Truthful(cut[i], i = 1, cut[i - 1])
  <2>1. i \in 1..Len(out) /\ cut[i] = out[i] /\ (i # 1 => cut[i - 1] = out[i - 1])
    BY <1>1, <1>2, <1>3
  <2>2. Truthful(out[i], i = 1, out[i - 1])
    BY <1>1, <2>1 DEF Honest
  <2>3. QED
    BY <2>1, <2>2 DEF Truthful
<1>5. Honest(cut)
  BY <1>3, <1>4 DEF Honest
<1>6. QED
  BY <1>3, <1>5 DEF cut, out

(* So Get compares what is installed with what is wanted. *)
LEMMA VerdictCompares ==
    ASSUME installed \in [Hardware -> Release], announced \/ installed[Primary] = 0,
           NEW wanted \in [Hardware -> Release]
    PROVE  Verdict(Output, wanted) =
               IF staged # NoTargets THEN "updating"
               ELSE IF \E h \in Hardware : installed[h] # 0 /\ wanted[h] \notin {0, installed[h]}
               THEN "update-available" ELSE "up-to-date"
<1> DEFINE subs == parseInfo(Output)
           out == Output
           Old(e) == ~(e.hash # 0 /\ wanted[e.hw] # 0 => wanted[e.hw] = e.hash)
<1>1. Entries(subs) = {OS} \cup Subs(Len(Secondary)) /\ (NotPending(out) <=> staged = NoTargets)
  BY OutputParsed
<1>2. Verdict(Output, wanted) = IF \E i \in DOMAIN out : out[i].kind = "pending" THEN "updating"
                                ELSE IF \E i \in DOMAIN subs : Old(subs[i]) THEN "update-available"
                                ELSE "up-to-date"
  BY DEF Verdict, UpToDate
<1> HIDE DEF subs, out
<1>3. (\E i \in DOMAIN out : out[i].kind = "pending") <=> staged # NoTargets
  BY <1>1 DEF NotPending, Entries
<1>4. (\E i \in DOMAIN subs : Old(subs[i])) <=> \E e \in Entries(subs) : Old(e)
  BY DEF Entries
<1> DEFINE Needs(h) == installed[h] # 0 /\ wanted[h] \notin {0, installed[h]}
<1>5. Old(OS) <=> Needs(Primary)
  BY DEF OS
<1>6. \A h : Old(Sub(h)) <=> Needs(h)
  BY DEF Sub
<1>7. Hardware = {Primary} \cup {Secondary[k] : k \in 1..Len(Secondary)}
  <2>1. DOMAIN Secondary = 1..Len(Secondary)
    BY CloudAssumption
  <2>2. QED
    BY <2>1 DEF Hardware
<1> HIDE DEF Old, Needs
<1>8. (\E e \in Entries(subs) : Old(e)) <=> \E h \in Hardware : Needs(h)
  BY <1>1, <1>5, <1>6, <1>7 DEF Subs
<1>9. QED
  BY <1>2, <1>3, <1>4, <1>8 DEF Needs

(***************************************************************************)
(* What Get saw of the device, and what the device has been through since. *)
(***************************************************************************)

(* What lines tell of hashes inst, nothing pending; some of it, or all.    *)
Outdated(inst, wanted) == {h \in Hardware : inst[h] # 0 /\ wanted[h] \notin {0, inst[h]}}
Tells(out, inst) ==
    \A wanted \in [Hardware -> Release] :
        Verdict(out, wanted) = IF Outdated(inst, wanted) # {} THEN "update-available"
                               ELSE "up-to-date"
TellsSome(out, inst) ==
    \A wanted \in [Hardware -> Release] :
        \/ Verdict(out, wanted) = "up-to-date"
        \/ Verdict(out, wanted) = "update-available" /\ Outdated(inst, wanted) # {}
TellsPending(out) == \A wanted \in [Hardware -> Release] : Verdict(out, wanted) = "updating"

(* An ECU that no longer runs what was read has been behind; and either    *)
(* every ECU was up to date when it was read, or one is behind for good.   *)
SeenSince(inst) ==
    /\ \A h \in Hardware :
          inst[h] # 0 /\ (installed[h] # inst[h] \/ staged[h] # 0) => "update-available" \in saw
    /\ \/ "up-to-date" \in saw
       \/ \E h \in Hardware : inst[h] # 0 /\ desired[h] > inst[h]

DeviceTyped ==
    /\ installed \in [Hardware -> Release] /\ staged \in [Hardware -> Release]
    /\ desired \in [Hardware -> Release]

(* Targets are never taken back; what is staged is newer than what runs.   *)
NeverBack ==
    \A h \in Hardware :
        /\ installed[h] <= desired[h] \/ (installed[h] <= 1 /\ desired[h] = 0)
        /\ staged[h] <= desired[h]
        /\ staged[h] # 0 => installed[h] < desired[h]

(* What the page knows between the two runs of aktualizr-info. *)
Known ==
    \/ told = "garbled"
    \/ TellsPending(lines) /\ "updating" \in saw
    \/ \E inst \in [Hardware -> Release] :
          /\ SeenSince(inst) /\ TellsSome(lines, inst)
          /\ told = "all" => Tells(lines, inst)

CloudInv ==
    /\ DeviceTyped /\ NeverBack
    /\ page # "idle" => Standing \subseteq saw
    /\ page = "targets" => Known
    /\ told \in {"all", "part", "garbled"}
    /\ page \in {"idle", "info", "targets", "shown", "failed"}
    /\ VerdictWasTrue

LEMMA StandingHas ==
    /\ \A h \in Hardware : Behind(h) => "update-available" \in Standing
    /\ (\A h \in Hardware : ~Behind(h)) => "up-to-date" \in Standing
    /\ staged # NoTargets => "updating" \in Standing
  BY DEF Standing

LEMMA CloudInitial == CloudInit => CloudInv
<1> SUFFICES ASSUME CloudInit PROVE CloudInv
  OBVIOUS
<1>1. 0..1 \subseteq Release /\ 0 \in Release
  BY CloudAssumption DEF Release
<1>2. DeviceTyped
  BY <1>1 DEF CloudInit, DeviceTyped, NoTargets
<1>3. NeverBack
  BY <1>1 DEF CloudInit, NeverBack, NoTargets
<1>4. QED
  BY <1>2, <1>3 DEF CloudInit, CloudInv, VerdictWasTrue

(* A step of the device: it is seen, and leaves no ECU unseen. *)
LEMMA DeviceStep ==
    ASSUME CloudInv, UNCHANGED pageVars, saw' = saw \cup Standing', DeviceTyped', NeverBack',
           \A h \in Hardware :
              /\ desired[h] <= desired'[h]
              /\ \/ installed'[h] = installed[h] /\ staged'[h] = staged[h]
                 \/ staged[h] # 0
                 \/ Behind(h) \/ installed[h] = 0
    PROVE  CloudInv'
<1>1. saw \subseteq saw' /\ Standing' \subseteq saw' /\ page' = page /\ lines' = lines /\ state' = state
  BY DEF pageVars
<1>2. ASSUME NEW inst \in [Hardware -> Release], SeenSince(inst), page = "targets"
      PROVE  SeenSince(inst)'
  <2>1. ASSUME NEW h \in Hardware, inst[h] # 0, installed'[h] # inst[h] \/ staged'[h] # 0
        PROVE  "update-available" \in saw'
    <3>1. CASE installed[h] # inst[h] \/ staged[h] # 0
      BY <1>1, <1>2, <2>1, <3>1 DEF SeenSince
    <3>2. CASE installed[h] = inst[h] /\ staged[h] = 0
      <4>1. Behind(h)
        BY <2>1, <3>2
      <4>2. "update-available" \in Standing
        BY <4>1, StandingHas
      <4>3. Standing \subseteq saw
        BY <1>2 DEF CloudInv
      <4>4. QED
        BY <1>1, <4>2, <4>3
    <3>3. QED
      BY <3>1, <3>2
  <2>2. \/ "up-to-date" \in saw'
        \/ \E h \in Hardware : inst[h] # 0 /\ desired'[h] > inst[h]
    <3>1. CASE "up-to-date" \in saw
      BY <1>1, <3>1
    <3>2. CASE \E h \in Hardware : inst[h] # 0 /\ desired[h] > inst[h]
      <4>1. PICK h \in Hardware : inst[h] # 0 /\ desired[h] > inst[h]
        BY <3>2
      <4>2. inst[h] \in Nat /\ desired[h] \in Nat /\ desired'[h] \in Nat /\ desired[h] <= desired'[h]
        BY <4>1 DEF CloudInv, DeviceTyped, Release
      <4>3. desired'[h] > inst[h]
        BY <4>1, <4>2
      <4>4. QED
        BY <4>1, <4>3
    <3>3. QED
      BY <1>2, <3>1, <3>2 DEF SeenSince
  <2>3. QED
    BY <2>1, <2>2 DEF SeenSince
<1>3. page' = "targets" => Known'
  <2> SUFFICES ASSUME page = "targets" PROVE Known'
    BY <1>1
  <2>1. Known /\ told' = told
    BY DEF CloudInv, pageVars
  <2>2. CASE told = "garbled"
    BY <2>1, <2>2 DEF Known
  <2>3. CASE TellsPending(lines) /\ "updating" \in saw
    BY <1>1, <2>3 DEF Known
  <2>4. CASE \E inst \in [Hardware -> Release] :
                /\ SeenSince(inst) /\ TellsSome(lines, inst)
                /\ told = "all" => Tells(lines, inst)
    <3>1. PICK inst \in [Hardware -> Release] :
                /\ SeenSince(inst) /\ TellsSome(lines, inst)
                /\ told = "all" => Tells(lines, inst)
      BY <2>4
    <3>2. SeenSince(inst)'
      BY <1>2, <3>1
    <3>3. TellsSome(lines', inst) /\ (told' = "all" => Tells(lines', inst))
      BY <1>1, <2>1, <3>1
    <3>4. QED
      BY <3>2, <3>3 DEF Known
  <2>5. QED
    BY <2>1, <2>2, <2>3, <2>4 DEF Known
<1>4. VerdictWasTrue'
  BY <1>1 DEF CloudInv, VerdictWasTrue, pageVars
<1>5. /\ page' \in {"idle", "info", "targets", "shown", "failed"}
      /\ told' \in {"all", "part", "garbled"}
  BY <1>1 DEF CloudInv, pageVars
<1>6. QED
  BY <1>1, <1>3, <1>4, <1>5 DEF CloudInv

LEMMA FetchKeeps ==
    ASSUME CloudInv, NEW ecus \in SUBSET Hardware, Fetch(ecus)
    PROVE  CloudInv'
<1>1. /\ DeviceTyped /\ NeverBack /\ UNCHANGED <<installed, staged>> /\ UNCHANGED pageVars
      /\ saw' = saw \cup Standing' /\ (\A h \in ecus : desired[h] < Newest)
      /\ desired' = [h \in Hardware |-> IF h \in ecus THEN desired[h] + 1 ELSE desired[h]]
  BY DEF Fetch, CloudInv
<1>2. ASSUME NEW h \in Hardware
      PROVE  desired[h] <= desired'[h] /\ desired'[h] \in Release
  BY <1>1, CloudAssumption DEF DeviceTyped, Release
<1>3. DeviceTyped'
  BY <1>1, <1>2 DEF DeviceTyped
<1>4. NeverBack'
  <2> SUFFICES ASSUME NEW h \in Hardware
               PROVE  /\ installed[h] <= desired'[h] \/ (installed[h] <= 1 /\ desired'[h] = 0)
                      /\ staged[h] <= desired'[h]
                      /\ staged[h] # 0 => installed[h] < desired'[h]
    BY <1>1 DEF NeverBack
  <2>1. /\ installed[h] \in Nat /\ staged[h] \in Nat /\ desired[h] \in Nat /\ desired'[h] \in Nat
        /\ installed[h] <= desired[h] \/ (installed[h] <= 1 /\ desired[h] = 0)
        /\ staged[h] <= desired[h] /\ desired[h] <= desired'[h]
        /\ staged[h] # 0 => installed[h] < desired[h]
    BY <1>1, <1>2 DEF DeviceTyped, Release, NeverBack
  <2>2. QED
    BY <2>1
<1>5. QED
  BY <1>1, <1>2, <1>3, <1>4, DeviceStep

LEMMA StageKeeps ==
    ASSUME CloudInv, NEW i \in Hardware, Stage(i)
    PROVE  CloudInv'
<1>1. /\ DeviceTyped /\ NeverBack /\ UNCHANGED <<installed, desired>> /\ UNCHANGED pageVars
      /\ saw' = saw \cup Standing' /\ desired[i] \notin {0, installed[i]}
      /\ installed[i] < desired[i]
      /\ staged' = [staged EXCEPT ![i] = desired[i]]
  <2>1. installed[i] \in Nat /\ desired[i] \in Nat
    BY DEF CloudInv, DeviceTyped, Release
  <2>2. QED
    BY <2>1 DEF Stage, CloudInv, pageVars
<1>2. \A h \in Hardware : staged'[h] = IF h = i THEN desired[i] ELSE staged[h]
  BY <1>1 DEF DeviceTyped
<1>3. DeviceTyped'
  BY <1>1 DEF DeviceTyped
<1>4. NeverBack'
  <2> SUFFICES ASSUME NEW h \in Hardware
               PROVE  /\ installed[h] <= desired[h] \/ (installed[h] <= 1 /\ desired[h] = 0)
                      /\ staged'[h] <= desired[h]
                      /\ staged'[h] # 0 => installed[h] < desired[h]
    BY <1>1 DEF NeverBack
  <2>1. desired[h] <= desired[h]
    BY <1>1 DEF DeviceTyped, Release
  <2>2. QED
    BY <1>1, <1>2, <2>1 DEF NeverBack
<1>5. ASSUME NEW h \in Hardware
      PROVE  /\ desired[h] <= desired'[h]
             /\ \/ installed'[h] = installed[h] /\ staged'[h] = staged[h]
                \/ staged[h] # 0
                \/ Behind(h) \/ installed[h] = 0
  <2>1. desired[h] <= desired'[h] /\ installed'[h] = installed[h]
    BY <1>1 DEF DeviceTyped, Release
  <2>2. h # i => staged'[h] = staged[h]
    BY <1>2
  <2>3. h = i => Behind(h) \/ installed[h] = 0
    BY <1>1 DEF Behind
  <2>4. QED
    BY <2>1, <2>2, <2>3
<1>6. QED
  BY <1>1, <1>3, <1>4, <1>5, DeviceStep

LEMMA InstallKeeps ==
    ASSUME CloudInv, NEW i \in Hardware, Install(i)
    PROVE  CloudInv'
<1>1. /\ DeviceTyped /\ NeverBack /\ desired' = desired /\ UNCHANGED pageVars
      /\ saw' = saw \cup Standing' /\ staged[i] # 0
      /\ installed' = [installed EXCEPT ![i] = staged[i]] /\ staged' = [staged EXCEPT ![i] = 0]
  BY DEF Install, CloudInv
<1>2. \A h \in Hardware : /\ staged'[h] = IF h = i THEN 0 ELSE staged[h]
                          /\ installed'[h] = IF h = i THEN staged[i] ELSE installed[h]
  BY <1>1 DEF DeviceTyped
<1>3. DeviceTyped'
  BY <1>1, PrimaryIsHardware DEF DeviceTyped
<1>4. NeverBack'
  <2> SUFFICES ASSUME NEW h \in Hardware
               PROVE  /\ installed'[h] <= desired[h] \/ (installed'[h] <= 1 /\ desired[h] = 0)
                      /\ staged'[h] <= desired[h]
                      /\ staged'[h] # 0 => installed'[h] < desired[h]
    BY <1>1 DEF NeverBack
  <2>1. 0 <= desired[h]
    BY <1>1 DEF DeviceTyped, Release
  <2>2. QED
    BY <1>1, <1>2, <2>1 DEF NeverBack
<1>5. ASSUME NEW h \in Hardware
      PROVE  /\ desired[h] <= desired'[h]
             /\ \/ installed'[h] = installed[h] /\ staged'[h] = staged[h]
                \/ staged[h] # 0
                \/ Behind(h) \/ installed[h] = 0
  <2>1. desired[h] <= desired'[h]
    BY <1>1 DEF DeviceTyped, Release
  <2>2. QED
    BY <1>1, <1>2, <2>1
<1>6. QED
  BY <1>1, <1>3, <1>4, <1>5, DeviceStep

(* The device stays as it is while the page looks at it. *)
LEMMA LookKeeps ==
    ASSUME DeviceTyped, NeverBack, UNCHANGED <<installed, staged, desired>>
    PROVE  DeviceTyped' /\ NeverBack' /\ Standing' = Standing
  BY DEF DeviceTyped, NeverBack, Standing, Behind

(* What was to be seen when the page looks at the ECUs. *)
LEMMA SeenAtOnce ==
    ASSUME DeviceTyped, NeverBack, Standing \subseteq saw
    PROVE  SeenSince(installed)
<1>1. ASSUME NEW h \in Hardware, installed[h] # 0, staged[h] # 0
      PROVE  "update-available" \in saw
  <2>1. installed[h] \in Nat /\ desired[h] \in Nat /\ installed[h] < desired[h]
    BY <1>1 DEF DeviceTyped, Release, NeverBack
  <2>2. Behind(h)
    BY <1>1, <2>1 DEF Behind
  <2>3. QED
    BY <2>2, StandingHas
<1>2. \/ "up-to-date" \in saw
      \/ \E h \in Hardware : installed[h] # 0 /\ desired[h] > installed[h]
  <2>1. CASE \A h \in Hardware : ~Behind(h)
    BY <2>1, StandingHas
  <2>2. CASE \E h \in Hardware : Behind(h)
    <3>1. PICK h \in Hardware : Behind(h)
      BY <2>2
    <3>2. installed[h] # 0 /\ desired[h] # 0 /\ desired[h] # installed[h]
      BY <3>1 DEF Behind
    <3>3. /\ installed[h] \in Nat /\ desired[h] \in Nat
          /\ installed[h] <= desired[h] \/ desired[h] = 0
      BY <3>1 DEF DeviceTyped, Release, NeverBack
    <3>4. QED
      BY <3>1, <3>2, <3>3
  <2>3. QED
    BY <2>1, <2>2
<1>3. QED
  BY <1>1, <1>2 DEF SeenSince

(* What a run of aktualizr-info that printed some lines tells of them. *)
LEMMA CutTells ==
    ASSUME DeviceTyped, NEW n \in 1..Len(Output)
    PROVE  \/ staged # NoTargets /\ TellsPending(SubSeq(Output, 1, n))
           \/ TellsSome(SubSeq(Output, 1, n), installed)
<1> DEFINE out == SubSeq(Output, 1, n)
           subs == parseInfo(out)
<1>1. installed \in [Hardware -> Release]
  BY DEF DeviceTyped
<1>2. out \in Seq(Lines) /\ Honest(out)
  BY <1>1, CutHonest
<1> HIDE DEF out
<1>3. \A e \in Entries(subs) : TrueEntry(e)
  BY <1>1, <1>2, HonestParsed
<1> DEFINE pending == \E i \in DOMAIN out : out[i].kind = "pending"
           old(wanted) == \E i \in DOMAIN subs : ~UpToDate(subs[i], wanted)
<1>4. \A wanted : Verdict(out, wanted) = IF pending THEN "updating"
                                        ELSE IF old(wanted) THEN "update-available"
                                        ELSE "up-to-date"
  BY DEF Verdict
<1>5. pending => staged # NoTargets
  BY <1>2 DEF Honest, Truthful
<1>6. ASSUME NEW wanted \in [Hardware -> Release], old(wanted)
      PROVE  Outdated(installed, wanted) # {}
  <2>1. PICK i \in DOMAIN subs : ~UpToDate(subs[i], wanted)
    BY <1>6
  <2> DEFINE e == subs[i]
  <2>2. TrueEntry(e)
    BY <1>3, <2>1 DEF Entries
  <2>3. e.hash # 0 /\ wanted[e.hw] # 0 /\ wanted[e.hw] # e.hash
    BY <2>1 DEF UpToDate
  <2> HIDE DEF e
  <2>4. e.hw \in Outdated(installed, wanted)
    BY <2>2, <2>3 DEF TrueEntry, Outdated
  <2>5. QED
    BY <2>4
<1> HIDE DEF pending, old, subs
<1>7. CASE pending
  BY <1>4, <1>5, <1>7 DEF TellsPending, out
<1>8. CASE ~pending
  <2>1. TellsSome(out, installed)
    BY <1>4, <1>6, <1>8 DEF TellsSome
  <2>2. QED
    BY <2>1 DEF out
<1>9. QED
  BY <1>7, <1>8

(* The first run: what it prints, and what was to be seen by then. *)
LEMMA ReadInfoKeeps ==
    ASSUME CloudInv, NEW n \in 1..Len(Output), ReadInfo(n)
    PROVE  CloudInv'
<1> DEFINE all == n = Len(Output) /\ (announced \/ installed[Primary] = 0)
<1>1. /\ DeviceTyped /\ NeverBack /\ page = "info" /\ Standing \subseteq saw
      /\ page' = "targets" /\ UNCHANGED deviceVars /\ UNCHANGED <<state, saw>>
  BY DEF ReadInfo, CloudInv
<1>2. DeviceTyped' /\ NeverBack' /\ Standing' = Standing
  BY <1>1, LookKeeps DEF deviceVars
<1>3. installed \in [Hardware -> Release] /\ installed' = installed /\ staged' = staged /\ desired' = desired
  BY <1>1 DEF DeviceTyped, deviceVars
<1>a. \/ lines' = SubSeq(Output, 1, n) /\ told' = IF all THEN "all" ELSE "part"
      \/ told' = "garbled"
  BY DEF ReadInfo
<1>b. ASSUME all PROVE SubSeq(Output, 1, n) = Output
  BY <1>3, <1>b, OutputHonest, SubSeqFull
<1> HIDE DEF all
<1>c. told' \in {"all", "part", "garbled"}
  BY <1>a
<1>d. page' # "shown" /\ page' # "idle" /\ page' \in {"idle", "info", "targets", "shown", "failed"}
  BY <1>1
<1>4. CASE told' = "garbled"
  BY <1>1, <1>2, <1>4, <1>c, <1>d DEF CloudInv, VerdictWasTrue, Known
<1>5. CASE lines' = SubSeq(Output, 1, n) /\ told' = IF all THEN "all" ELSE "part"
  <2> DEFINE out == SubSeq(Output, 1, n)
  <2>1. CASE staged # NoTargets /\ TellsPending(out)
    <3>1. "updating" \in saw
      BY <1>1, <2>1, StandingHas
    <3>2. TellsPending(lines') /\ "updating" \in saw'
      BY <1>1, <1>5, <2>1, <3>1
    <3>3. QED
      BY <1>1, <1>2, <1>c, <1>d, <3>2 DEF CloudInv, VerdictWasTrue, Known
  <2>2. CASE TellsSome(out, installed) /\ ~(staged # NoTargets /\ all)
    <3>1. SeenSince(installed)
      BY <1>1, SeenAtOnce
    <3>2. SeenSince(installed)'
      BY <1>1, <1>3, <3>1 DEF SeenSince
    <3>3. told' = "all" => Tells(out, installed)
      <4> SUFFICES ASSUME all PROVE Tells(out, installed)
        BY <1>5
      <4>1. out = Output /\ staged = NoTargets /\ (announced \/ installed[Primary] = 0)
        BY <1>b, <2>2 DEF all
      <4> HIDE DEF out
      <4> SUFFICES ASSUME NEW wanted \in [Hardware -> Release]
                   PROVE  Verdict(Output, wanted) =
                              IF Outdated(installed, wanted) # {} THEN "update-available"
                              ELSE "up-to-date"
        BY <4>1 DEF Tells
      <4>2. Verdict(Output, wanted) =
               IF \E h \in Hardware : installed[h] # 0 /\ wanted[h] \notin {0, installed[h]}
               THEN "update-available" ELSE "up-to-date"
        BY <1>3, <4>1, VerdictCompares
      <4>3. (Outdated(installed, wanted) # {})
               <=> \E h \in Hardware : installed[h] # 0 /\ wanted[h] \notin {0, installed[h]}
        BY DEF Outdated
      <4>4. QED
        BY <4>2, <4>3
    <3> DEFINE inst == installed
    <3>4. inst \in [Hardware -> Release] /\ TellsSome(lines', inst) /\ (told' = "all" => Tells(lines', inst))
      BY <1>3, <1>5, <2>2, <3>3
    <3>5. \E x \in [Hardware -> Release] :
              /\ SeenSince(x)' /\ TellsSome(lines', x)
              /\ told' = "all" => Tells(lines', x)
      BY <1>3, <3>2, <3>4 DEF SeenSince
    <3>6. Known'
      BY <3>5 DEF Known
    <3>7. QED
      BY <1>1, <1>2, <1>c, <1>d, <3>6 DEF CloudInv, VerdictWasTrue
  <2>3. ASSUME staged # NoTargets, all PROVE TellsPending(out)
    <3>1. out = Output /\ (announced \/ installed[Primary] = 0)
      BY <1>b, <2>3 DEF all
    <3>2. \A wanted \in [Hardware -> Release] : Verdict(Output, wanted) = "updating"
      BY <1>3, <2>3, <3>1, VerdictCompares
    <3>3. QED
      BY <3>1, <3>2 DEF TellsPending
  <2>4. QED
    BY <1>1, <2>1, <2>2, <2>3, CutTells
<1>6. QED
  BY <1>4, <1>5, <1>a

(* What the page says was true when it was read, or is now. *)
LEMMA ShowKeeps ==
    ASSUME CloudInv, page = "targets", UNCHANGED deviceVars, saw' = saw, page' = "shown",
           NEW wanted \in [Hardware -> Release], state' = Verdict(lines, wanted),
           \A h \in Hardware : wanted[h] \in {0, desired[h]},
           told' \in {told, "part"}, told = "garbled" => told' = "garbled",
           told' = "all" => wanted = desired
    PROVE  CloudInv'
<1>1. /\ DeviceTyped /\ NeverBack /\ Standing \subseteq saw
      /\ told' \in {"all", "part", "garbled"}
  BY DEF CloudInv
<1>2. DeviceTyped' /\ NeverBack' /\ Standing' = Standing
  BY <1>1, LookKeeps DEF deviceVars
<1>3. desired \in [Hardware -> Release]
  BY <1>1 DEF DeviceTyped
<1>4. VerdictWasTrue'
  <2> SUFFICES \/ Verdict(lines, wanted) \in saw
               \/ told' = "part" /\ Verdict(lines, wanted) = "up-to-date"
               \/ told' = "garbled"
    BY DEF VerdictWasTrue
  <2>1. CASE told = "garbled"
    BY <2>1
  <2>2. CASE TellsPending(lines) /\ "updating" \in saw
    BY <2>2 DEF TellsPending
  <2>3. CASE told # "garbled" /\ \E inst \in [Hardware -> Release] :
                /\ SeenSince(inst) /\ TellsSome(lines, inst)
                /\ told = "all" => Tells(lines, inst)
    <3>1. PICK inst \in [Hardware -> Release] :
                /\ SeenSince(inst) /\ TellsSome(lines, inst)
                /\ told = "all" => Tells(lines, inst)
      BY <2>3
    <3>2. CASE Verdict(lines, wanted) = "update-available" /\ Outdated(inst, wanted) # {}
      <4>1. PICK h \in Hardware : inst[h] # 0 /\ wanted[h] \notin {0, inst[h]}
        BY <3>2 DEF Outdated
      <4>2. desired[h] \notin {0, inst[h]}
        BY <4>1
      <4>3. CASE installed[h] = inst[h]
        <5>1. Behind(h)
          BY <4>1, <4>2, <4>3 DEF Behind
        <5>2. QED
          BY <1>1, <3>2, <5>1, StandingHas
      <4>4. CASE installed[h] # inst[h]
        BY <3>1, <3>2, <4>1, <4>4 DEF SeenSince
      <4>5. QED
        BY <4>3, <4>4
    <3>3. CASE Verdict(lines, wanted) = "up-to-date" /\ told' = "part"
      BY <3>3
    <3>4. CASE Verdict(lines, wanted) = "up-to-date" /\ told' # "part"
      <4>1. told = "all" /\ wanted = desired
        BY <2>3, <3>4 DEF CloudInv
      <4>2. Outdated(inst, desired) = {}
        BY <3>1, <3>4, <4>1 DEF Tells
      <4>3. ASSUME NEW h \in Hardware, inst[h] # 0, desired[h] > inst[h]
            PROVE  FALSE
        <5>1. inst[h] \in Nat /\ desired[h] \in Nat
          BY <1>3 DEF Release
        <5>2. desired[h] # 0 /\ desired[h] # inst[h]
          BY <4>3, <5>1
        <5>3. QED
          BY <4>2, <4>3, <5>2 DEF Outdated
      <4>4. QED
        BY <3>1, <3>4, <4>3 DEF SeenSince
    <3>5. QED
      BY <3>1, <3>2, <3>3, <3>4 DEF TellsSome
  <2>4. QED
    BY <2>1, <2>2, <2>3 DEF CloudInv, Known
<1>5. QED
  BY <1>1, <1>2, <1>4 DEF CloudInv

LEMMA TargetsTyped ==
    ASSUME DeviceTyped, NEW ecus \in SUBSET Hardware
    PROVE  /\ parseDirectorTargets(ecus) \in [Hardware -> Release]
           /\ \A h \in Hardware : parseDirectorTargets(ecus)[h] \in {0, desired[h]}
  BY PrimaryIsHardware DEF DeviceTyped, parseDirectorTargets

(* A restart of aktualizr, and the end of it, are not seen by themselves.  *)
LEMMA UnseenKeeps ==
    ASSUME CloudInv, UNCHANGED <<installed, staged, desired, pageVars, saw>>
    PROVE  CloudInv'
<1>1. /\ UNCHANGED <<installed, staged, desired, saw>>
      /\ page' = page /\ lines' = lines /\ state' = state /\ told' = told
  BY DEF pageVars
<1>2. DeviceTyped' /\ NeverBack' /\ Standing' = Standing
  BY <1>1, LookKeeps DEF CloudInv
<1>3. \A inst : SeenSince(inst)' <=> SeenSince(inst)
  BY <1>1 DEF SeenSince
<1>4. Known' <=> Known
  BY <1>1, <1>3 DEF Known
<1>5. QED
  BY <1>1, <1>2, <1>4 DEF CloudInv, VerdictWasTrue

LEMMA CloudStep == CloudInv /\ [CloudNext]_cloudVars => CloudInv'
<1> SUFFICES ASSUME CloudInv, [CloudNext]_cloudVars PROVE CloudInv'
  OBVIOUS
<1>1. CASE \E ecus \in SUBSET Hardware \ {{}} : Fetch(ecus)
  BY <1>1, FetchKeeps
<1>2. CASE \E h \in Hardware : Stage(h) \/ Install(h)
  BY <1>2, StageKeeps, InstallKeeps
<1>3. CASE Restart \/ Announce
  BY <1>3, UnseenKeeps DEF Restart, Announce
<1>4. CASE Get
  <2>1. DeviceTyped' /\ NeverBack' /\ Standing' = Standing
    BY <1>4, LookKeeps DEF Get, CloudInv, deviceVars
  <2>2. page' = "info" /\ saw' = Standing /\ told' = told
    BY <1>4 DEF Get
  <2>3. QED
    BY <2>1, <2>2 DEF CloudInv, VerdictWasTrue
<1>5. CASE \E n \in 1..Len(Output) : ReadInfo(n)
  BY <1>5, ReadInfoKeeps
<1>6. CASE InfoFails
  <2>1. DeviceTyped' /\ NeverBack' /\ Standing' = Standing
    BY <1>6, LookKeeps DEF InfoFails, CloudInv, deviceVars
  <2>2. page = "info" /\ page' = "failed" /\ saw' = saw /\ told' = told
    BY <1>6 DEF InfoFails
  <2>3. QED
    BY <2>1, <2>2 DEF CloudInv, VerdictWasTrue
<1>7. CASE \E ecus \in SUBSET Hardware : ReadTargets(ecus)
  <2>1. PICK ecus \in SUBSET Hardware : ReadTargets(ecus)
    BY <1>7
  <2> DEFINE wanted == parseDirectorTargets(ecus)
  <2>2. wanted \in [Hardware -> Release] /\ \A h \in Hardware : wanted[h] \in {0, desired[h]}
    BY TargetsTyped DEF CloudInv
  <2>3. /\ page = "targets" /\ UNCHANGED deviceVars /\ saw' = saw /\ page' = "shown"
        /\ state' = Verdict(lines, wanted)
        /\ told' = IF told = "all" /\ wanted # desired THEN "part" ELSE told
    BY <2>1 DEF ReadTargets
  <2> HIDE DEF wanted
  <2>4. /\ told' \in {told, "part"} /\ (told = "garbled" => told' = "garbled")
        /\ told' = "all" => wanted = desired
    BY <2>3
  <2>5. QED
    BY <2>2, <2>3, <2>4, ShowKeeps
<1>8. CASE TargetsFail
  <2> DEFINE wanted == NoTargets
  <2>1. wanted \in [Hardware -> Release] /\ \A h \in Hardware : wanted[h] \in {0, desired[h]}
    BY PrimaryIsHardware DEF NoTargets
  <2>2. /\ page = "targets" /\ UNCHANGED deviceVars /\ saw' = saw /\ page' = "shown"
        /\ state' = Verdict(lines, wanted)
        /\ told' = IF told = "all" THEN "part" ELSE told
    BY <1>8 DEF TargetsFail
  <2> HIDE DEF wanted
  <2>3. /\ told' \in {told, "part"} /\ (told = "garbled" => told' = "garbled")
        /\ told' # "all"
    BY <2>2
  <2>4. QED
    BY <2>1, <2>2, <2>3, ShowKeeps
<1>9. CASE UNCHANGED cloudVars
  BY <1>9, UnseenKeeps DEF cloudVars, deviceVars, pageVars
<1>10. QED
  BY <1>1, <1>2, <1>3, <1>4, <1>5, <1>6, <1>7, <1>8, <1>9 DEF CloudNext

THEOREM CloudCorrect == CloudSpec => []CloudInv
  BY CloudInitial, CloudStep, PTL DEF CloudSpec

(* Service.Get, of any number of ECUs: the state on the page was the state *)
(* of the device at some instant while the page was made, whatever lines   *)
(* of an output a failing run left and whichever ECUs targets are found    *)
(* for, but that a page told only a part may say that all is up to date,   *)
(* and one with a hash cut short anything.                                 *)
THEOREM VerdictCorrect == CloudSpec => []VerdictWasTrue
<1>1. CloudInv => VerdictWasTrue
  BY DEF CloudInv
<1>2. QED
  BY <1>1, CloudCorrect, PTL
=============================================================================
