----------------------------- MODULE GpioProofs -----------------------------
(***************************************************************************)
(* Service.held is the truth about the outputs, values read before are     *)
(* forgotten, and the page is consistent: for any number of lines and      *)
(* requests, whatever fails, races or is killed.                           *)
(***************************************************************************)
EXTENDS GpioInductive, TLAPS

(* A step that leaves a request its kind, line, value and rows. *)
SameWork(q) ==
    /\ req'[q].kind = req[q].kind
    /\ req'[q].line = req[q].line
    /\ req'[q].value = req[q].value
    /\ req'[q].todo = req[q].todo
    /\ req'[q].row = req[q].row

LEMMA EntryPlain ==
    ASSUME TypeOK, NEW q \in Request, NEW e \in Progress, req' = [req EXCEPT ![q] = e]
    PROVE  /\ req' \in [Request -> Progress]
           /\ req'[q] = e
           /\ \A p \in Request \ {q} : req'[p] = req[p]
BY DEF TypeOK

LEMMA GotoPlain ==
    ASSUME TypeOK, NEW q \in Request, NEW pc \in PC, Goto(q, pc)
    PROVE  /\ req' \in [Request -> Progress]
           /\ \A p \in Request \ {q} : req'[p] = req[p]
           /\ SameWork(q) /\ req'[q].pc = pc
<1>1. [req[q] EXCEPT !.pc = pc] \in Progress
  BY DEF TypeOK, Progress
<1>2. req' = [req EXCEPT ![q] = [req[q] EXCEPT !.pc = pc]]
  BY DEF Goto
<1>3. QED
  BY <1>1, <1>2, EntryPlain DEF SameWork, Progress

LEMMA RowTyped ==
    ASSUME TypeOK, NEW l \in Line
    PROVE  KernelRow(l) \in Row /\ \A u \in BOOLEAN : Overlay(u, l) \in Row
<1>1. KernelRow(l) \in Row
  BY DEF KernelRow, Row
<1>2. ASSUME NEW u \in BOOLEAN
      PROVE  Overlay(u, l) \in Row
  <2>1. (held[l] # None) \in BOOLEAN
    OBVIOUS
  <2>2. (IF held[l] # None THEN held[l] ELSE lastRead[l]) \in Level \cup {None}
    BY DEF TypeOK
  <2>3. QED
    BY <2>1, <2>2 DEF Overlay, Row
<1>3. QED
  BY <1>1, <1>2

(* Both hold of the lines and the maps alone. *)
LEMMA SameLines ==
    HeldIsDriven /\ ReadIsForgotten /\ UNCHANGED <<owner, level, held, lastRead>>
        => HeldIsDriven' /\ ReadIsForgotten'
BY DEF HeldIsDriven, ReadIsForgotten

LEMMA GpioStep == GpioInv /\ [Next]_vars => GpioInv'
<1> SUFFICES ASSUME GpioInv, [Next]_vars PROVE GpioInv'
  OBVIOUS
<1> USE DEF GpioInv, At
<1>1. ASSUME NEW q \in Request, NEW l \in Line, BeginRead(q, l)
      PROVE  GpioInv'
  <2>0. /\ req' \in [Request -> Progress]
        /\ \A p \in Request \ {q} : req'[p] = req[p]
        /\ req'[q] = Entry("input", "read", l, None, {})
    <3>1. Entry("input", "read", l, None, {}) \in Progress
      BY DEF Entry, Progress, PC, Kind, Posted, Row, NoRow
    <3>2. QED
      BY <1>1, <3>1, EntryPlain DEF BeginRead
  <2>1. TypeOK'
    BY <1>1, <2>0 DEF BeginRead, TypeOK
  <2>2. LineTyped' /\ SampleTyped'
    BY <1>1, <2>0 DEF BeginRead, LineTyped, SampleTyped, Entry
  <2>3. ReadingIsOwner'
    BY <1>1, <2>0 DEF BeginRead, ReadingIsOwner, Reading, Entry
  <2>4. MutexIsListing' /\ PlaceTellsKind'
    BY <1>1, <2>0
    DEF BeginRead, MutexIsListing, PlaceTellsKind, Listing, Entry
  <2>5. EntryIsUsed' /\ PageIsConsistent'
    BY <1>1, <2>0 DEF BeginRead, EntryIsUsed, PageIsConsistent, Entry
  <2>6. RecordedWasDriven' /\ AuditTellsLevel'
    BY <1>1, <2>0 DEF BeginRead, RecordedWasDriven, AuditTellsLevel, Entry
  <2>7. HeldIsDriven' /\ ReadIsForgotten'
    BY <1>1, SameLines DEF BeginRead
  <2>8. QED
    BY <2>1, <2>2, <2>3, <2>4, <2>5, <2>6, <2>7
<1>2. ASSUME NEW q \in Request, RequestInput(q)
      PROVE  GpioInv'
  <2>0. /\ req' \in [Request -> Progress]
        /\ \A p \in Request \ {q} : req'[p] = req[p]
        /\ SameWork(q) /\ req'[q].pc \in {"sample", "info"}
    BY <1>2, GotoPlain DEF RequestInput, PC
  <2>1. TypeOK'
    BY <1>2, <2>0 DEF RequestInput, TypeOK
  <2>2. LineTyped' /\ SampleTyped'
    BY <1>2, <2>0
    DEF RequestInput, LineTyped, SampleTyped, OnLine, PC, SameWork
  <2>3. ReadingIsOwner'
    <3>1. ASSUME NEW p \in Request \ {q}, req'[p].pc \in Reading
          PROVE  owner'[req'[p].line] = p
      <4>1. req[p].line \in Line /\ owner[req[p].line] = p
        BY <2>0, <3>1 DEF ReadingIsOwner, Reading, LineTyped, OnLine, PC
      <4>2. QED
        BY <1>2, <2>0, <4>1, HolderAssumption DEF RequestInput, TypeOK
    <3>2. ASSUME req'[q].pc \in Reading
          PROVE  owner'[req'[q].line] = q
      <4>1. req[q].line \in Line
        BY <1>2 DEF RequestInput, LineTyped, OnLine, PC
      <4>2. owner' = [owner EXCEPT ![req[q].line] = q]
        <5>1. CASE UNCHANGED owner /\ Goto(q, "info")
          BY <3>2, <5>1, GotoPlain DEF PC, Reading
        <5>2. QED
          BY <1>2, <5>1 DEF RequestInput
      <4>3. QED
        BY <2>0, <4>1, <4>2 DEF SameWork, TypeOK
    <3>3. QED
      BY <3>1, <3>2 DEF ReadingIsOwner
  <2>4. MutexIsListing' /\ PlaceTellsKind'
    BY <1>2, <2>0
    DEF RequestInput, MutexIsListing, PlaceTellsKind, Listing, SameWork,
        OnLine, PC
  <2>5. EntryIsUsed' /\ PageIsConsistent'
    BY <1>2, <2>0 DEF RequestInput, EntryIsUsed, PageIsConsistent, SameWork
  <2>6. RecordedWasDriven' /\ AuditTellsLevel'
    BY <1>2, <2>0 DEF RequestInput, RecordedWasDriven, AuditTellsLevel
  <2>7. HeldIsDriven'
    BY <1>2, <2>0, HolderAssumption DEF RequestInput, HeldIsDriven, TypeOK
  <2>8. ReadIsForgotten'
    BY <1>2, <2>0 DEF RequestInput, ReadIsForgotten
  <2>9. QED
    BY <2>1, <2>2, <2>3, <2>4, <2>5, <2>6, <2>7, <2>8
<1>3. ASSUME NEW q \in Request, Sample(q)
      PROVE  GpioInv'
  <2>0. /\ req' \in [Request -> Progress]
        /\ \A p \in Request \ {q} : req'[p] = req[p]
        /\ req'[q].pc \in {"remember", "close"}
        /\ req'[q].pc = "remember" => req'[q].value \in Level
        /\ req'[q].kind = req[q].kind /\ req'[q].line = req[q].line
        /\ req'[q].todo = req[q].todo /\ req'[q].row = req[q].row
    <3> DEFINE e == [req[q] EXCEPT !.pc = "remember", !.value = level[req[q].line]]
    <3>1. level[req[q].line] \in Level
      BY <1>3 DEF Sample, TypeOK, LineTyped, OnLine, PC
    <3>2. e \in Progress
      <4>1. "remember" \in PC /\ level[req[q].line] \in Posted
        BY <3>1 DEF PC, Posted, Level
      <4>2. req[q] \in Progress
        BY DEF TypeOK
      <4>3. QED
        BY <4>1, <4>2 DEF Progress
    <3>3. CASE req' = [req EXCEPT ![q] = e]
      BY <3>1, <3>2, <3>3, EntryPlain DEF Progress
    <3>4. CASE Goto(q, "close")
      BY <3>4, GotoPlain DEF PC, SameWork
    <3>5. QED
      BY <1>3, <3>3, <3>4 DEF Sample
  <2>1. TypeOK'
    BY <1>3, <2>0 DEF Sample, TypeOK
  <2>2. LineTyped' /\ SampleTyped'
    BY <1>3, <2>0 DEF Sample, LineTyped, SampleTyped, OnLine, PC
  <2>3. ReadingIsOwner'
    BY <1>3, <2>0 DEF Sample, ReadingIsOwner, Reading
  <2>4. MutexIsListing' /\ PlaceTellsKind'
    BY <1>3, <2>0
    DEF Sample, MutexIsListing, PlaceTellsKind, Listing, OnLine, PC
  <2>5. EntryIsUsed' /\ PageIsConsistent'
    BY <1>3, <2>0 DEF Sample, EntryIsUsed, PageIsConsistent
  <2>6. RecordedWasDriven' /\ AuditTellsLevel'
    BY <1>3, <2>0 DEF Sample, RecordedWasDriven, AuditTellsLevel
  <2>7. HeldIsDriven' /\ ReadIsForgotten'
    BY <1>3, SameLines DEF Sample
  <2>8. QED
    BY <2>1, <2>2, <2>3, <2>4, <2>5, <2>6, <2>7
<1>4. ASSUME NEW q \in Request, Remember(q)
      PROVE  GpioInv'
  <2>0. /\ req' \in [Request -> Progress]
        /\ \A p \in Request \ {q} : req'[p] = req[p]
        /\ SameWork(q) /\ req'[q].pc \in {"close"}
    BY <1>4, GotoPlain DEF Remember, PC
  <2>1. TypeOK'
    BY <1>4, <2>0 DEF Remember, TypeOK, SampleTyped
  <2>2. LineTyped' /\ SampleTyped'
    BY <1>4, <2>0 DEF Remember, LineTyped, SampleTyped, OnLine, PC, SameWork
  <2>3. ReadingIsOwner'
    BY <1>4, <2>0 DEF Remember, ReadingIsOwner, Reading, SameWork
  <2>4. MutexIsListing' /\ PlaceTellsKind'
    BY <1>4, <2>0
    DEF Remember, MutexIsListing, PlaceTellsKind, Listing, SameWork, OnLine, PC
  <2>5. EntryIsUsed' /\ PageIsConsistent'
    BY <1>4, <2>0 DEF Remember, EntryIsUsed, PageIsConsistent, SameWork
  <2>6. RecordedWasDriven' /\ AuditTellsLevel'
    BY <1>4, <2>0 DEF Remember, RecordedWasDriven, AuditTellsLevel
  <2>7. HeldIsDriven'
    BY <1>4, <2>0 DEF Remember, HeldIsDriven
  <2>8. ReadIsForgotten'
    BY <1>4, <2>0, HolderAssumption
    DEF Remember, ReadIsForgotten, HeldIsDriven, Reading, ReadingIsOwner
  <2>9. QED
    BY <2>1, <2>2, <2>3, <2>4, <2>5, <2>6, <2>7, <2>8
<1>5. ASSUME NEW q \in Request, CloseInput(q)
      PROVE  GpioInv'
  <2>0. /\ req' \in [Request -> Progress]
        /\ \A p \in Request \ {q} : req'[p] = req[p]
        /\ SameWork(q) /\ req'[q].pc \in {"info"}
    BY <1>5, GotoPlain DEF CloseInput, PC
  <2>1. TypeOK'
    BY <1>5, <2>0 DEF CloseInput, TypeOK
  <2>2. LineTyped' /\ SampleTyped'
    BY <1>5, <2>0 DEF CloseInput, LineTyped, SampleTyped, OnLine, PC, SameWork
  <2>3. ReadingIsOwner'
    BY <1>5, <2>0 DEF CloseInput, ReadingIsOwner, Reading
  <2>4. MutexIsListing' /\ PlaceTellsKind'
    BY <1>5, <2>0
    DEF CloseInput, MutexIsListing, PlaceTellsKind, Listing, SameWork, OnLine,
        PC
  <2>5. EntryIsUsed' /\ PageIsConsistent'
    BY <1>5, <2>0 DEF CloseInput, EntryIsUsed, PageIsConsistent, SameWork
  <2>6. RecordedWasDriven' /\ AuditTellsLevel'
    BY <1>5, <2>0 DEF CloseInput, RecordedWasDriven, AuditTellsLevel
  <2>7. HeldIsDriven'
    BY <1>5, <2>0, HolderAssumption
    DEF CloseInput, HeldIsDriven, Reading, ReadingIsOwner
  <2>8. ReadIsForgotten'
    BY <1>5, <2>0 DEF CloseInput, ReadIsForgotten
  <2>9. QED
    BY <2>1, <2>2, <2>3, <2>4, <2>5, <2>6, <2>7, <2>8
<1>6. ASSUME NEW q \in Request, NEW l \in Line, NEW v \in Posted, BeginSet(q, l, v)
      PROVE  GpioInv'
  <2>0. /\ req' \in [Request -> Progress]
        /\ \A p \in Request \ {q} : req'[p] = req[p]
        /\ req'[q] = Entry("set", "set", l, v, {})
    <3>1. Entry("set", "set", l, v, {}) \in Progress
      BY DEF Entry, Progress, PC, Kind, Row, NoRow
    <3>2. QED
      BY <1>6, <3>1, EntryPlain DEF BeginSet
  <2>1. TypeOK'
    BY <1>6, <2>0 DEF BeginSet, TypeOK
  <2>2. LineTyped' /\ SampleTyped'
    BY <1>6, <2>0 DEF BeginSet, LineTyped, SampleTyped, Entry
  <2>3. ReadingIsOwner'
    BY <1>6, <2>0 DEF BeginSet, ReadingIsOwner, Reading, Entry
  <2>4. MutexIsListing' /\ PlaceTellsKind'
    BY <1>6, <2>0 DEF BeginSet, MutexIsListing, PlaceTellsKind, Listing, Entry
  <2>5. EntryIsUsed' /\ PageIsConsistent'
    BY <1>6, <2>0 DEF BeginSet, EntryIsUsed, PageIsConsistent, Entry
  <2>6. RecordedWasDriven' /\ AuditTellsLevel'
    BY <1>6, <2>0 DEF BeginSet, RecordedWasDriven, AuditTellsLevel, Entry
  <2>7. HeldIsDriven' /\ ReadIsForgotten'
    BY <1>6, SameLines DEF BeginSet
  <2>8. QED
    BY <2>1, <2>2, <2>3, <2>4, <2>5, <2>6, <2>7
<1>7. ASSUME NEW q \in Request, SetLine(q)
      PROVE  GpioInv'
  <2>0. /\ req' \in [Request -> Progress]
        /\ \A p \in Request \ {q} : req'[p] = req[p]
        /\ SameWork(q) /\ req'[q].pc \in {"record"}
    BY <1>7, GotoPlain DEF SetLine, PC
  <2>1. TypeOK'
    BY <1>7, <2>0 DEF SetLine, TypeOK, LineTyped, OnLine, PC, Level, Normal
  <2>2. LineTyped' /\ SampleTyped'
    BY <1>7, <2>0 DEF SetLine, LineTyped, SampleTyped, OnLine, PC, SameWork
  <2>3. ReadingIsOwner'
    BY <1>7, <2>0, HolderAssumption
    DEF SetLine, ReadingIsOwner, Reading, HeldIsDriven, TypeOK
  <2>4. MutexIsListing' /\ PlaceTellsKind'
    BY <1>7, <2>0
    DEF SetLine, MutexIsListing, PlaceTellsKind, Listing, SameWork, OnLine, PC
  <2>5. EntryIsUsed' /\ PageIsConsistent'
    BY <1>7, <2>0, HolderAssumption
    DEF SetLine, EntryIsUsed, PageIsConsistent, MutexIsListing, Listing,
        SameWork
  <2>6. RecordedWasDriven' /\ AuditTellsLevel'
    BY <1>7, <2>0 DEF SetLine, RecordedWasDriven, AuditTellsLevel, SameWork
  <2>7. HeldIsDriven'
    <3> DEFINE ln == req[q].line
    <3> DEFINE n == Normal(Atoi(req[q].value))
    <3>1. ln \in Line /\ n # None
      BY <1>7, NoneAssumption DEF SetLine, LineTyped, OnLine, PC, Normal
    <3>2. /\ owner' = [owner EXCEPT ![ln] = Ours]
          /\ level' = [level EXCEPT ![ln] = n]
          /\ held' = [held EXCEPT ![ln] = n]
      BY <1>7 DEF SetLine
    <3> HIDE DEF n
    <3>3. QED
      BY <3>1, <3>2 DEF HeldIsDriven, TypeOK
  <2>8. ReadIsForgotten'
    BY <1>7, <2>0 DEF SetLine, ReadIsForgotten, TypeOK
  <2>9. QED
    BY <2>1, <2>2, <2>3, <2>4, <2>5, <2>6, <2>7, <2>8
<1>8. ASSUME NEW q \in Request, SetFails(q)
      PROVE  GpioInv'
  <2>0. /\ req' \in [Request -> Progress]
        /\ \A p \in Request \ {q} : req'[p] = req[p]
        /\ SameWork(q) /\ req'[q].pc \in {"failed"}
    BY <1>8, GotoPlain DEF SetFails, PC
  <2>1. TypeOK'
    BY <1>8, <2>0 DEF SetFails, TypeOK
  <2>2. LineTyped' /\ SampleTyped'
    BY <1>8, <2>0 DEF SetFails, LineTyped, SampleTyped, OnLine, PC, SameWork
  <2>3. ReadingIsOwner'
    BY <1>8, <2>0 DEF SetFails, ReadingIsOwner, Reading
  <2>4. MutexIsListing' /\ PlaceTellsKind'
    BY <1>8, <2>0
    DEF SetFails, MutexIsListing, PlaceTellsKind, Listing, SameWork, OnLine, PC
  <2>5. EntryIsUsed' /\ PageIsConsistent'
    BY <1>8, <2>0 DEF SetFails, EntryIsUsed, PageIsConsistent, SameWork
  <2>6. RecordedWasDriven' /\ AuditTellsLevel'
    BY <1>8, <2>0 DEF SetFails, RecordedWasDriven, AuditTellsLevel
  <2>7. HeldIsDriven' /\ ReadIsForgotten'
    BY <1>8, SameLines DEF SetFails
  <2>8. QED
    BY <2>1, <2>2, <2>3, <2>4, <2>5, <2>6, <2>7
<1>9. ASSUME NEW q \in Request, RecordSet(q)
      PROVE  GpioInv'
  <2>0. /\ req' \in [Request -> Progress]
        /\ \A p \in Request \ {q} : req'[p] = req[p]
        /\ SameWork(q) /\ req'[q].pc \in {"info"}
    BY <1>9, GotoPlain DEF RecordSet, PC
  <2>1. TypeOK'
    <3>1. req[q].line \in Line /\ req[q].value \in Posted
      BY <1>9 DEF RecordSet, LineTyped, OnLine, TypeOK, Progress
    <3>2. Atoi(req[q].value) \in Posted
      BY <3>1 DEF Atoi, Posted
    <3>3. audit' \subseteq {"gpio_set", "gpio_set_failed", "gpio_release"} \X Line \X Posted
      BY <1>9, <3>1, <3>2 DEF RecordSet, AddAudit, TypeOK
    <3>4. QED
      BY <1>9, <2>0, <3>3 DEF RecordSet, TypeOK
  <2>2. LineTyped' /\ SampleTyped'
    BY <1>9, <2>0 DEF RecordSet, LineTyped, SampleTyped, OnLine, PC, SameWork
  <2>3. ReadingIsOwner'
    BY <1>9, <2>0 DEF RecordSet, ReadingIsOwner, Reading
  <2>4. MutexIsListing' /\ PlaceTellsKind'
    BY <1>9, <2>0
    DEF RecordSet, MutexIsListing, PlaceTellsKind, Listing, SameWork
  <2>5. EntryIsUsed' /\ PageIsConsistent'
    BY <1>9, <2>0 DEF RecordSet, EntryIsUsed, PageIsConsistent, SameWork
  <2>6. RecordedWasDriven' /\ AuditTellsLevel'
    BY <1>9, <2>0 DEF RecordSet, RecordedWasDriven, AuditTellsLevel, AddAudit
  <2>7. HeldIsDriven' /\ ReadIsForgotten'
    BY <1>9, SameLines DEF RecordSet
  <2>8. QED
    BY <2>1, <2>2, <2>3, <2>4, <2>5, <2>6, <2>7
<1>10. ASSUME NEW q \in Request, RecordFailure(q)
      PROVE  GpioInv'
  <2>0. /\ req' \in [Request -> Progress]
        /\ \A p \in Request \ {q} : req'[p] = req[p]
        /\ SameWork(q) /\ req'[q].pc \in {"info"}
    BY <1>10, GotoPlain DEF RecordFailure, PC
  <2>1. TypeOK'
    BY <1>10, <2>0
    DEF RecordFailure, TypeOK, LineTyped, OnLine, PC, Posted, AddAudit
  <2>2. LineTyped' /\ SampleTyped'
    BY <1>10, <2>0
    DEF RecordFailure, LineTyped, SampleTyped, OnLine, PC, SameWork
  <2>3. ReadingIsOwner'
    BY <1>10, <2>0 DEF RecordFailure, ReadingIsOwner, Reading
  <2>4. MutexIsListing' /\ PlaceTellsKind'
    BY <1>10, <2>0
    DEF RecordFailure, MutexIsListing, PlaceTellsKind, Listing, SameWork,
        OnLine, PC
  <2>5. EntryIsUsed' /\ PageIsConsistent'
    BY <1>10, <2>0 DEF RecordFailure, EntryIsUsed, PageIsConsistent, SameWork
  <2>6. RecordedWasDriven' /\ AuditTellsLevel'
    BY <1>10, <2>0
    DEF RecordFailure, RecordedWasDriven, AuditTellsLevel, AddAudit
  <2>7. HeldIsDriven' /\ ReadIsForgotten'
    BY <1>10, SameLines DEF RecordFailure
  <2>8. QED
    BY <2>1, <2>2, <2>3, <2>4, <2>5, <2>6, <2>7
<1>11. ASSUME NEW q \in Request, NEW l \in Line, BeginRelease(q, l)
      PROVE  GpioInv'
  <2>0. /\ req' \in [Request -> Progress]
        /\ \A p \in Request \ {q} : req'[p] = req[p]
        /\ req'[q] = Entry("release", "release", l, None, {})
    <3>1. Entry("release", "release", l, None, {}) \in Progress
      BY DEF Entry, Progress, PC, Kind, Posted, Row, NoRow
    <3>2. QED
      BY <1>11, <3>1, EntryPlain DEF BeginRelease
  <2>1. TypeOK'
    BY <1>11, <2>0 DEF BeginRelease, TypeOK
  <2>2. LineTyped' /\ SampleTyped'
    BY <1>11, <2>0 DEF BeginRelease, LineTyped, SampleTyped, Entry
  <2>3. ReadingIsOwner'
    BY <1>11, <2>0 DEF BeginRelease, ReadingIsOwner, Reading, Entry
  <2>4. MutexIsListing' /\ PlaceTellsKind'
    BY <1>11, <2>0
    DEF BeginRelease, MutexIsListing, PlaceTellsKind, Listing, Entry
  <2>5. EntryIsUsed' /\ PageIsConsistent'
    BY <1>11, <2>0 DEF BeginRelease, EntryIsUsed, PageIsConsistent, Entry
  <2>6. RecordedWasDriven' /\ AuditTellsLevel'
    BY <1>11, <2>0 DEF BeginRelease, RecordedWasDriven, AuditTellsLevel, Entry
  <2>7. HeldIsDriven' /\ ReadIsForgotten'
    BY <1>11, SameLines DEF BeginRelease
  <2>8. QED
    BY <2>1, <2>2, <2>3, <2>4, <2>5, <2>6, <2>7
<1>12. ASSUME NEW q \in Request, ReleaseLine(q)
      PROVE  GpioInv'
  <2>0. /\ req' \in [Request -> Progress]
        /\ \A p \in Request \ {q} : req'[p] = req[p]
        /\ SameWork(q) /\ req'[q].pc \in {"record"}
    BY <1>12, GotoPlain DEF ReleaseLine, PC
  <2>1. TypeOK'
    BY <1>12, <2>0 DEF ReleaseLine, TypeOK
  <2>2. LineTyped' /\ SampleTyped'
    BY <1>12, <2>0
    DEF ReleaseLine, LineTyped, SampleTyped, OnLine, PC, SameWork
  <2>3. ReadingIsOwner'
    BY <1>12, <2>0, HolderAssumption
    DEF ReleaseLine, ReadingIsOwner, Reading, HeldIsDriven, TypeOK
  <2>4. MutexIsListing' /\ PlaceTellsKind'
    BY <1>12, <2>0
    DEF ReleaseLine, MutexIsListing, PlaceTellsKind, Listing, SameWork
  <2>5. EntryIsUsed' /\ PageIsConsistent'
    BY <1>12, <2>0 DEF ReleaseLine, EntryIsUsed, PageIsConsistent, SameWork
  <2>6. RecordedWasDriven' /\ AuditTellsLevel'
    <3>1. req[q].kind = "release"
      BY <1>12 DEF ReleaseLine, PlaceTellsKind
    <3>2. UNCHANGED <<driven, audit>>
      BY <1>12 DEF ReleaseLine
    <3>3. RecordedWasDriven'
      BY <2>0, <3>1, <3>2 DEF SameWork, RecordedWasDriven
    <3>4. AuditTellsLevel'
      BY <3>2 DEF AuditTellsLevel
    <3>5. QED
      BY <3>3, <3>4
  <2>7. HeldIsDriven'
    BY <1>12, <2>0, HolderAssumption DEF ReleaseLine, HeldIsDriven, TypeOK
  <2>8. ReadIsForgotten'
    BY <1>12, <2>0 DEF ReleaseLine, ReadIsForgotten
  <2>9. QED
    BY <2>1, <2>2, <2>3, <2>4, <2>5, <2>6, <2>7, <2>8
<1>13. ASSUME NEW q \in Request, RecordRelease(q)
      PROVE  GpioInv'
  <2>0. /\ req' \in [Request -> Progress]
        /\ \A p \in Request \ {q} : req'[p] = req[p]
        /\ SameWork(q) /\ req'[q].pc \in {"info"}
    BY <1>13, GotoPlain DEF RecordRelease, PC
  <2>1. TypeOK'
    BY <1>13, <2>0
    DEF RecordRelease, TypeOK, LineTyped, OnLine, PC, Posted, AddAudit
  <2>2. LineTyped' /\ SampleTyped'
    BY <1>13, <2>0
    DEF RecordRelease, LineTyped, SampleTyped, OnLine, PC, SameWork
  <2>3. ReadingIsOwner'
    BY <1>13, <2>0 DEF RecordRelease, ReadingIsOwner, Reading
  <2>4. MutexIsListing' /\ PlaceTellsKind'
    BY <1>13, <2>0
    DEF RecordRelease, MutexIsListing, PlaceTellsKind, Listing, SameWork
  <2>5. EntryIsUsed' /\ PageIsConsistent'
    BY <1>13, <2>0 DEF RecordRelease, EntryIsUsed, PageIsConsistent, SameWork
  <2>6. RecordedWasDriven' /\ AuditTellsLevel'
    BY <1>13, <2>0
    DEF RecordRelease, RecordedWasDriven, AuditTellsLevel, AddAudit
  <2>7. HeldIsDriven' /\ ReadIsForgotten'
    BY <1>13, SameLines DEF RecordRelease
  <2>8. QED
    BY <2>1, <2>2, <2>3, <2>4, <2>5, <2>6, <2>7
<1>14. ASSUME NEW q \in Request, LineInfo(q)
      PROVE  GpioInv'
  <2>0. /\ req' \in [Request -> Progress]
        /\ \A p \in Request \ {q} : req'[p] = req[p]
        /\ req'[q].pc = "row" /\ req'[q].row = KernelRow(req[q].line)
        /\ req'[q].line = req[q].line /\ req'[q].todo = req[q].todo
        /\ req'[q].kind = req[q].kind /\ req'[q].value = req[q].value
    <3> DEFINE e == [req[q] EXCEPT !.pc = "row", !.row = KernelRow(req[q].line)]
    <3>1. e \in Progress
      <4>1. req[q] \in Progress /\ req[q].line \in Line
        BY <1>14 DEF LineInfo, TypeOK, LineTyped, OnLine, PC
      <4>2. KernelRow(req[q].line) \in Row /\ Overlay(req[q].row.used, req[q].line) \in Row
        BY <4>1, RowTyped DEF Progress, Row
      <4>3. "row" \in PC
        BY DEF PC
      <4>4. QED
        BY <4>1, <4>2, <4>3 DEF Progress
    <3>2. req' = [req EXCEPT ![q] = e]
      BY <1>14 DEF LineInfo
    <3>3. QED
      BY <3>1, <3>2, EntryPlain DEF Progress
  <2>1. TypeOK'
    BY <1>14, <2>0 DEF LineInfo, TypeOK
  <2>2. LineTyped' /\ SampleTyped'
    BY <1>14, <2>0 DEF LineInfo, LineTyped, SampleTyped, OnLine, PC
  <2>3. ReadingIsOwner'
    BY <1>14, <2>0 DEF LineInfo, ReadingIsOwner, Reading
  <2>4. MutexIsListing' /\ PlaceTellsKind'
    BY <1>14, <2>0
    DEF LineInfo, MutexIsListing, PlaceTellsKind, Listing, OnLine, PC
  <2>5. EntryIsUsed' /\ PageIsConsistent'
    BY <1>14, <2>0 DEF LineInfo, EntryIsUsed, PageIsConsistent, KernelRow
  <2>6. RecordedWasDriven' /\ AuditTellsLevel'
    BY <1>14, <2>0 DEF LineInfo, RecordedWasDriven, AuditTellsLevel
  <2>7. HeldIsDriven' /\ ReadIsForgotten'
    BY <1>14, SameLines DEF LineInfo
  <2>8. QED
    BY <2>1, <2>2, <2>3, <2>4, <2>5, <2>6, <2>7
<1>15. ASSUME NEW q \in Request, LineState(q)
      PROVE  GpioInv'
  <2>0. /\ req' \in [Request -> Progress]
        /\ \A p \in Request \ {q} : req'[p] = req[p]
        /\ req'[q].pc = "done" /\ req'[q].line = req[q].line
        /\ req'[q].row = Overlay(req[q].row.used, req[q].line)
        /\ req'[q].todo = req[q].todo
        /\ req'[q].kind = req[q].kind /\ req'[q].value = req[q].value
    <3> DEFINE e == [req[q] EXCEPT !.pc = "done",
                                !.row = Overlay(req[q].row.used, req[q].line)]
    <3>1. e \in Progress
      <4>1. req[q] \in Progress /\ req[q].line \in Line
        BY <1>15 DEF LineState, TypeOK, LineTyped, OnLine, PC
      <4>2. KernelRow(req[q].line) \in Row /\ Overlay(req[q].row.used, req[q].line) \in Row
        BY <4>1, RowTyped DEF Progress, Row
      <4>3. "done" \in PC
        BY DEF PC
      <4>4. QED
        BY <4>1, <4>2, <4>3 DEF Progress
    <3>2. req' = [req EXCEPT ![q] = e]
      BY <1>15 DEF LineState
    <3>3. QED
      BY <3>1, <3>2, EntryPlain DEF Progress
  <2>1. TypeOK'
    BY <1>15, <2>0 DEF LineState, TypeOK
  <2>2. LineTyped' /\ SampleTyped'
    BY <1>15, <2>0 DEF LineState, LineTyped, SampleTyped, OnLine
  <2>3. ReadingIsOwner'
    BY <1>15, <2>0 DEF LineState, ReadingIsOwner, Reading
  <2>4. MutexIsListing' /\ PlaceTellsKind'
    BY <1>15, <2>0
    DEF LineState, MutexIsListing, PlaceTellsKind, Listing, OnLine
  <2>5. EntryIsUsed' /\ PageIsConsistent'
    <3>1. req'[q].kind # "page" /\ req'[q].pc # "entry"
      BY <1>15, <2>0 DEF LineState, PlaceTellsKind, Listing, OnLine, PC
    <3>2. UNCHANGED held
      BY <1>15 DEF LineState
    <3>3. EntryIsUsed'
      BY <2>0, <3>1, <3>2 DEF EntryIsUsed
    <3>4. PageIsConsistent'
      BY <2>0, <3>1 DEF PageIsConsistent
    <3>5. QED
      BY <3>3, <3>4
  <2>6. RecordedWasDriven' /\ AuditTellsLevel'
    BY <1>15, <2>0 DEF LineState, RecordedWasDriven, AuditTellsLevel
  <2>7. HeldIsDriven' /\ ReadIsForgotten'
    BY <1>15, SameLines DEF LineState
  <2>8. QED
    BY <2>1, <2>2, <2>3, <2>4, <2>5, <2>6, <2>7
<1>16. ASSUME NEW q \in Request, BeginPage(q)
      PROVE  GpioInv'
  <2>0. /\ req' \in [Request -> Progress]
        /\ \A p \in Request \ {q} : req'[p] = req[p]
        /\ req'[q] = Entry("chips", "page", None, None, Line)
    <3>1. Entry("chips", "page", None, None, Line) \in Progress
      BY DEF Entry, Progress, PC, Kind, Posted, Row, NoRow
    <3>2. QED
      BY <1>16, <3>1, EntryPlain DEF BeginPage
  <2>1. TypeOK'
    BY <1>16, <2>0 DEF BeginPage, TypeOK
  <2>2. LineTyped' /\ SampleTyped'
    BY <1>16, <2>0 DEF BeginPage, LineTyped, SampleTyped, OnLine, Entry
  <2>3. ReadingIsOwner'
    BY <1>16, <2>0 DEF BeginPage, ReadingIsOwner, Reading, Entry
  <2>4. MutexIsListing' /\ PlaceTellsKind'
    BY <1>16, <2>0, HolderAssumption
    DEF BeginPage, MutexIsListing, PlaceTellsKind, Listing, Entry
  <2>5. EntryIsUsed' /\ PageIsConsistent'
    BY <1>16, <2>0 DEF BeginPage, EntryIsUsed, PageIsConsistent, Entry, NoRow
  <2>6. RecordedWasDriven' /\ AuditTellsLevel'
    BY <1>16, <2>0 DEF BeginPage, RecordedWasDriven, AuditTellsLevel, Entry
  <2>7. HeldIsDriven' /\ ReadIsForgotten'
    BY <1>16, SameLines DEF BeginPage
  <2>8. QED
    BY <2>1, <2>2, <2>3, <2>4, <2>5, <2>6, <2>7
<1>17. ASSUME NEW q \in Request, ChipInfo(q)
      PROVE  GpioInv'
  <2>0. /\ req' \in [Request -> Progress]
        /\ \A p \in Request \ {q} : req'[p] = req[p]
        /\ req'[q].pc = "entry" /\ req'[q].line \in Line
        /\ req'[q].row = KernelRow(req'[q].line)
        /\ req'[q].kind = req[q].kind /\ req'[q].value = req[q].value
    <3>1. PICK l \in req[q].todo : req' = [req EXCEPT ![q] =
              [req[q] EXCEPT !.pc = "entry", !.line = l, !.row = KernelRow(l)]]
      BY <1>17 DEF ChipInfo
    <3> DEFINE e == [req[q] EXCEPT !.pc = "entry", !.line = l, !.row = KernelRow(l)]
    <3>2. l \in Line
      BY DEF TypeOK, Progress
    <3>3. e \in Progress
      <4>1. req[q] \in Progress /\ KernelRow(l) \in Row /\ "entry" \in PC
        BY <3>2, RowTyped DEF TypeOK, PC
      <4>2. QED
        BY <3>2, <4>1 DEF Progress
    <3>4. QED
      BY <3>1, <3>2, <3>3, EntryPlain DEF Progress
  <2>1. TypeOK'
    BY <1>17, <2>0 DEF ChipInfo, TypeOK
  <2>2. LineTyped' /\ SampleTyped'
    BY <1>17, <2>0 DEF ChipInfo, LineTyped, SampleTyped
  <2>3. ReadingIsOwner'
    BY <1>17, <2>0 DEF ChipInfo, ReadingIsOwner, Reading
  <2>4. MutexIsListing' /\ PlaceTellsKind'
    BY <1>17, <2>0 DEF ChipInfo, MutexIsListing, PlaceTellsKind, Listing
  <2>5. EntryIsUsed' /\ PageIsConsistent'
    <3>1. UNCHANGED <<held, owner>>
      BY <1>17 DEF ChipInfo
    <3>2. PICK l \in Line : l = req'[q].line /\ req'[q].row = KernelRow(l)
      BY <2>0
    <3>3. /\ ~req'[q].row.ours
          /\ req'[q].row.used = (owner[l] # None)
      BY <3>2 DEF KernelRow
    <3>4. /\ ~req'[q].row.ours
          /\ held[l] # None => req'[q].row.used
      <4>1. held[l] # None => owner[l] = Ours
        BY DEF HeldIsDriven
      <4>2. QED
        BY <3>3, <4>1, HolderAssumption
    <3>5. EntryIsUsed'
      BY <2>0, <3>1, <3>2, <3>4 DEF EntryIsUsed
    <3>6. PageIsConsistent'
      BY <2>0, <3>4 DEF PageIsConsistent
    <3>7. QED
      BY <3>5, <3>6
  <2>6. RecordedWasDriven' /\ AuditTellsLevel'
    BY <1>17, <2>0 DEF ChipInfo, RecordedWasDriven, AuditTellsLevel
  <2>7. HeldIsDriven' /\ ReadIsForgotten'
    BY <1>17, SameLines DEF ChipInfo
  <2>8. QED
    BY <2>1, <2>2, <2>3, <2>4, <2>5, <2>6, <2>7
<1>18. ASSUME NEW q \in Request, ChipEntry(q)
      PROVE  GpioInv'
  <2>0. /\ req' \in [Request -> Progress]
        /\ \A p \in Request \ {q} : req'[p] = req[p]
        /\ req'[q].pc = "chips" /\ req'[q].line = req[q].line
        /\ req'[q].row = Overlay(req[q].row.used, req[q].line)
        /\ req'[q].kind = req[q].kind /\ req'[q].value = req[q].value
    <3> DEFINE e == [req[q] EXCEPT !.pc = "chips", !.todo = Rest(q),
                                !.row = Overlay(req[q].row.used, req[q].line)]
    <3>1. e \in Progress
      <4>1. req[q] \in Progress /\ req[q].line \in Line
        BY <1>18 DEF ChipEntry, TypeOK, LineTyped, OnLine, PC
      <4>2. KernelRow(req[q].line) \in Row /\ Overlay(req[q].row.used, req[q].line) \in Row
        BY <4>1, RowTyped DEF Progress, Row
      <4>3. "chips" \in PC
        BY DEF PC
      <4>4. QED
        BY <4>1, <4>2, <4>3 DEF Progress, Rest
    <3>2. req' = [req EXCEPT ![q] = e]
      BY <1>18 DEF ChipEntry
    <3>3. QED
      BY <3>1, <3>2, EntryPlain DEF Progress
  <2>1. TypeOK'
    BY <1>18, <2>0 DEF ChipEntry, TypeOK
  <2>2. LineTyped' /\ SampleTyped'
    BY <1>18, <2>0 DEF ChipEntry, LineTyped, SampleTyped, OnLine
  <2>3. ReadingIsOwner'
    BY <1>18, <2>0 DEF ChipEntry, ReadingIsOwner, Reading
  <2>4. MutexIsListing' /\ PlaceTellsKind'
    BY <1>18, <2>0 DEF ChipEntry, MutexIsListing, PlaceTellsKind, Listing
  <2>5. EntryIsUsed' /\ PageIsConsistent'
    <3>1. UNCHANGED held /\ req'[q].pc # "entry"
      BY <1>18, <2>0 DEF ChipEntry
    <3>2. /\ req'[q].row.used = req[q].row.used
          /\ req'[q].row.ours = (held[req[q].line] # None)
      BY <2>0 DEF Overlay
    <3>3. held[req[q].line] # None => req[q].row.used
      BY <1>18 DEF ChipEntry, EntryIsUsed
    <3>4. req'[q].row.ours => req'[q].row.used
      BY <3>2, <3>3
    <3>5. EntryIsUsed'
      BY <2>0, <3>1 DEF EntryIsUsed
    <3>6. PageIsConsistent'
      BY <2>0, <3>4 DEF PageIsConsistent
    <3>7. QED
      BY <3>5, <3>6
  <2>6. RecordedWasDriven' /\ AuditTellsLevel'
    BY <1>18, <2>0 DEF ChipEntry, RecordedWasDriven, AuditTellsLevel
  <2>7. HeldIsDriven' /\ ReadIsForgotten'
    BY <1>18, SameLines DEF ChipEntry
  <2>8. QED
    BY <2>1, <2>2, <2>3, <2>4, <2>5, <2>6, <2>7
<1>19. ASSUME NEW q \in Request, ChipsDone(q)
      PROVE  GpioInv'
  <2>0. /\ req' \in [Request -> Progress]
        /\ \A p \in Request \ {q} : req'[p] = req[p]
        /\ SameWork(q) /\ req'[q].pc \in {"done"}
    BY <1>19, GotoPlain DEF ChipsDone, PC
  <2>1. TypeOK'
    BY <1>19, <2>0 DEF ChipsDone, TypeOK
  <2>2. LineTyped' /\ SampleTyped'
    BY <1>19, <2>0 DEF ChipsDone, LineTyped, SampleTyped, OnLine
  <2>3. ReadingIsOwner'
    BY <1>19, <2>0 DEF ChipsDone, ReadingIsOwner, Reading
  <2>4. MutexIsListing' /\ PlaceTellsKind'
    BY <1>19, <2>0, HolderAssumption
    DEF ChipsDone, MutexIsListing, PlaceTellsKind, Listing, OnLine
  <2>5. EntryIsUsed' /\ PageIsConsistent'
    BY <1>19, <2>0 DEF ChipsDone, EntryIsUsed, PageIsConsistent, SameWork
  <2>6. RecordedWasDriven' /\ AuditTellsLevel'
    BY <1>19, <2>0 DEF ChipsDone, RecordedWasDriven, AuditTellsLevel
  <2>7. HeldIsDriven' /\ ReadIsForgotten'
    BY <1>19, SameLines DEF ChipsDone
  <2>8. QED
    BY <2>1, <2>2, <2>3, <2>4, <2>5, <2>6, <2>7
<1>20. ASSUME NEW l \in Line, OtherProcess(l)
      PROVE  GpioInv'
  <2>1. TypeOK'
    BY <1>20 DEF OtherProcess, TypeOK
  <2>2. LineTyped' /\ SampleTyped'
    BY <1>20 DEF OtherProcess, LineTyped, SampleTyped
  <2>3. ReadingIsOwner'
    BY <1>20, HolderAssumption DEF OtherProcess, ReadingIsOwner
  <2>4. MutexIsListing' /\ PlaceTellsKind'
    BY <1>20 DEF OtherProcess, MutexIsListing, PlaceTellsKind
  <2>5. EntryIsUsed' /\ PageIsConsistent'
    BY <1>20 DEF OtherProcess, EntryIsUsed, PageIsConsistent
  <2>6. RecordedWasDriven' /\ AuditTellsLevel'
    BY <1>20 DEF OtherProcess, RecordedWasDriven, AuditTellsLevel
  <2>7. HeldIsDriven'
    BY <1>20, HolderAssumption DEF OtherProcess, HeldIsDriven
  <2>8. ReadIsForgotten'
    BY <1>20 DEF OtherProcess, ReadIsForgotten
  <2>9. QED
    BY <2>1, <2>2, <2>3, <2>4, <2>5, <2>6, <2>7, <2>8
<1>21. ASSUME NEW l \in Line, Drift(l)
      PROVE  GpioInv'
  <2>1. TypeOK'
    BY <1>21 DEF Drift, TypeOK, Level
  <2>2. LineTyped' /\ SampleTyped'
    BY <1>21 DEF Drift, LineTyped, SampleTyped
  <2>3. ReadingIsOwner'
    BY <1>21 DEF Drift, ReadingIsOwner
  <2>4. MutexIsListing' /\ PlaceTellsKind'
    BY <1>21 DEF Drift, MutexIsListing, PlaceTellsKind
  <2>5. EntryIsUsed' /\ PageIsConsistent'
    BY <1>21 DEF Drift, EntryIsUsed, PageIsConsistent
  <2>6. RecordedWasDriven' /\ AuditTellsLevel'
    BY <1>21 DEF Drift, RecordedWasDriven, AuditTellsLevel
  <2>7. HeldIsDriven'
    BY <1>21 DEF Drift, HeldIsDriven
  <2>8. ReadIsForgotten'
    BY <1>21 DEF Drift, ReadIsForgotten
  <2>9. QED
    BY <2>1, <2>2, <2>3, <2>4, <2>5, <2>6, <2>7, <2>8
<1>22. ASSUME Crash
      PROVE  GpioInv'
  <2>0. req' \in [Request -> Progress]
    BY <1>22 DEF Crash, TypeOK, Progress, PC
  <2>1. TypeOK'
    BY <1>22, <2>0 DEF Crash, TypeOK
  <2>2. LineTyped' /\ SampleTyped'
    BY <1>22, <2>0 DEF Crash, LineTyped, SampleTyped, OnLine
  <2>3. ReadingIsOwner'
    BY <1>22, <2>0 DEF Crash, ReadingIsOwner, Reading
  <2>4. MutexIsListing' /\ PlaceTellsKind'
    BY <1>22, <2>0, HolderAssumption
    DEF Crash, MutexIsListing, PlaceTellsKind, Listing, OnLine
  <2>5. EntryIsUsed' /\ PageIsConsistent'
    BY <1>22, <2>0 DEF Crash, EntryIsUsed, PageIsConsistent
  <2>6. RecordedWasDriven' /\ AuditTellsLevel'
    BY <1>22, <2>0 DEF Crash, RecordedWasDriven, AuditTellsLevel
  <2>7. HeldIsDriven'
    BY <1>22, <2>0, HolderAssumption DEF Crash, HeldIsDriven
  <2>8. ReadIsForgotten'
    BY <1>22, <2>0 DEF Crash, ReadIsForgotten
  <2>9. QED
    BY <2>1, <2>2, <2>3, <2>4, <2>5, <2>6, <2>7, <2>8
<1>23. ASSUME UNCHANGED vars
      PROVE  GpioInv'
  <2>1. TypeOK'
    BY <1>23 DEF vars, TypeOK
  <2>2. LineTyped' /\ SampleTyped'
    BY <1>23 DEF vars, LineTyped, SampleTyped
  <2>3. ReadingIsOwner'
    BY <1>23 DEF vars, ReadingIsOwner
  <2>4. MutexIsListing' /\ PlaceTellsKind'
    BY <1>23 DEF vars, MutexIsListing, PlaceTellsKind
  <2>5. EntryIsUsed' /\ PageIsConsistent'
    BY <1>23 DEF vars, EntryIsUsed, PageIsConsistent
  <2>6. RecordedWasDriven' /\ AuditTellsLevel'
    BY <1>23 DEF vars, RecordedWasDriven, AuditTellsLevel
  <2>7. HeldIsDriven'
    BY <1>23 DEF vars, HeldIsDriven
  <2>8. ReadIsForgotten'
    BY <1>23 DEF vars, ReadIsForgotten
  <2>9. QED
    BY <2>1, <2>2, <2>3, <2>4, <2>5, <2>6, <2>7, <2>8
<1>24. ASSUME NEW q \in Request, InfoFails(q)
      PROVE  GpioInv'
  <2>0. /\ req' \in [Request -> Progress]
        /\ \A p \in Request \ {q} : req'[p] = req[p]
        /\ SameWork(q) /\ req'[q].pc \in {"done"}
    BY <1>24, GotoPlain DEF InfoFails, PC
  <2>1. TypeOK'
    BY <1>24, <2>0 DEF InfoFails, TypeOK
  <2>2. LineTyped' /\ SampleTyped'
    BY <1>24, <2>0 DEF InfoFails, LineTyped, SampleTyped, OnLine
  <2>3. ReadingIsOwner'
    BY <1>24, <2>0 DEF InfoFails, ReadingIsOwner, Reading
  <2>4. MutexIsListing' /\ PlaceTellsKind'
    BY <1>24, <2>0
    DEF InfoFails, MutexIsListing, PlaceTellsKind, Listing, OnLine
  <2>5. EntryIsUsed' /\ PageIsConsistent'
    BY <1>24, <2>0 DEF InfoFails, EntryIsUsed, PageIsConsistent, SameWork
  <2>6. RecordedWasDriven' /\ AuditTellsLevel'
    BY <1>24, <2>0 DEF InfoFails, RecordedWasDriven, AuditTellsLevel
  <2>7. HeldIsDriven' /\ ReadIsForgotten'
    BY <1>24, SameLines DEF InfoFails
  <2>8. QED
    BY <2>1, <2>2, <2>3, <2>4, <2>5, <2>6, <2>7
<1>25. ASSUME NEW q \in Request, SkipLine(q)
      PROVE  GpioInv'
  <2>0. /\ req' \in [Request -> Progress]
        /\ \A p \in Request \ {q} : req'[p] = req[p]
        /\ req'[q].pc = "chips" /\ req'[q].line = req[q].line
        /\ req'[q].row = req[q].row
        /\ req'[q].kind = req[q].kind /\ req'[q].value = req[q].value
    <3>1. PICK l \in req[q].todo :
              req' = [req EXCEPT ![q] = [req[q] EXCEPT !.todo = req[q].todo \ {l}]]
      BY <1>25 DEF SkipLine
    <3>2. [req[q] EXCEPT !.todo = req[q].todo \ {l}] \in Progress
      BY DEF TypeOK, Progress
    <3>3. QED
      BY <1>25, <3>1, <3>2, EntryPlain DEF SkipLine, Progress
  <2>1. TypeOK'
    BY <1>25, <2>0 DEF SkipLine, TypeOK
  <2>2. LineTyped' /\ SampleTyped'
    BY <1>25, <2>0 DEF SkipLine, LineTyped, SampleTyped
  <2>3. ReadingIsOwner'
    BY <1>25, <2>0 DEF SkipLine, ReadingIsOwner
  <2>4. MutexIsListing' /\ PlaceTellsKind'
    BY <1>25, <2>0 DEF SkipLine, MutexIsListing, PlaceTellsKind
  <2>5. EntryIsUsed' /\ PageIsConsistent'
    BY <1>25, <2>0 DEF SkipLine, EntryIsUsed, PageIsConsistent
  <2>6. RecordedWasDriven' /\ AuditTellsLevel'
    BY <1>25, <2>0 DEF SkipLine, RecordedWasDriven, AuditTellsLevel
  <2>7. HeldIsDriven' /\ ReadIsForgotten'
    BY <1>25, SameLines DEF SkipLine
  <2>8. QED
    BY <2>1, <2>2, <2>3, <2>4, <2>5, <2>6, <2>7
<1>26. QED
  BY <1>1, <1>2, <1>3, <1>4, <1>5, <1>6, <1>7, <1>8, <1>9, <1>10, <1>11, <1>12,
     <1>13, <1>14, <1>15, <1>16, <1>17, <1>18, <1>19, <1>20, <1>21, <1>22,
     <1>23, <1>24, <1>25 DEF Next, Begin, Handle

LEMMA GpioInit == Init => GpioInv
<1> SUFFICES ASSUME Init PROVE GpioInv
  OBVIOUS
<1> DEFINE e == Entry("idle", None, None, None, {})
<1> USE DEF Init, At
<1>1. e \in Progress
  BY DEF Entry, Progress, PC, Kind, Posted, Row, NoRow
<1>2. TypeOK
  BY <1>1 DEF TypeOK
<1>3. \A q \in Request : req[q].pc = "idle" /\ ~req[q].row.ours
  BY DEF Entry, NoRow
<1>4. LineTyped /\ SampleTyped /\ ReadingIsOwner
  BY <1>3 DEF LineTyped, SampleTyped, ReadingIsOwner, Reading, OnLine
<1>5. MutexIsListing /\ PlaceTellsKind /\ EntryIsUsed /\ PageIsConsistent
  BY <1>3, HolderAssumption
  DEF MutexIsListing, PlaceTellsKind, EntryIsUsed, PageIsConsistent, Listing,
      OnLine
<1>6. RecordedWasDriven /\ AuditTellsLevel
  BY <1>3 DEF RecordedWasDriven, AuditTellsLevel
<1>7. HeldIsDriven /\ ReadIsForgotten
  BY HolderAssumption DEF HeldIsDriven, ReadIsForgotten
<1>8. QED
  BY <1>2, <1>4, <1>5, <1>6, <1>7 DEF GpioInv

(* Every reachable state satisfies the inductive invariant. *)
THEOREM GpioCorrect == Spec => []GpioInv
BY GpioInit, GpioStep, PTL DEF Spec

(* The variables of the GPIO service keep their types. *)
THEOREM GpioTyped == Spec => []TypeOK
<1>1. GpioInv => TypeOK
  BY DEF GpioInv
<1>2. QED
  BY <1>1, GpioCorrect, PTL

(* The gateway drives exactly the lines of Service.held, each to the level *)
(* it has there: SetLine, ReleaseLine and restarts never leave a line that *)
(* is driven and cannot be released.                                       *)
THEOREM HeldCorrect == Spec => []HeldIsDriven
<1>1. GpioInv => HeldIsDriven
  BY DEF GpioInv
<1>2. QED
  BY <1>1, GpioCorrect, PTL

(* A read that overlaps a set never leaves its value behind: the handle of *)
(* the read keeps the line until lastRead is written.                      *)
THEOREM ReadCorrect == Spec => []ReadIsForgotten
<1>1. GpioInv => ReadIsForgotten
  BY DEF GpioInv
<1>2. QED
  BY <1>1, GpioCorrect, PTL

(* Chips never lists a line as held by us and unused: its mutex keeps the  *)
(* maps as they were when the kernel was asked.                            *)
THEOREM PageCorrect == Spec => []PageIsConsistent
<1>1. GpioInv => PageIsConsistent
  BY DEF GpioInv
<1>2. QED
  BY <1>1, GpioCorrect, PTL

(* A gpio_set row of the audit table tells a level the line was driven to. *)
THEOREM GpioAuditCorrect == Spec => []AuditTellsLevel
<1>1. GpioInv => AuditTellsLevel
  BY DEF GpioInv
<1>2. QED
  BY <1>1, GpioCorrect, PTL
=============================================================================
