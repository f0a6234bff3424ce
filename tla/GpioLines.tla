----------------------------- MODULE GpioLines -----------------------------
(***************************************************************************)
(* GPIO lines: Chips, LineState, ReadLine, SetLine and ReleaseLine of      *)
(* internal/gpio/gpio.go, called by the handlers of handlers_gpio.go, each *)
(* on its own goroutine.  The kernel arbitrates who has a line: a request  *)
(* for a taken one fails.  The mutex protects the two maps but not the     *)
(* kernel's state; SetLine, ReleaseLine and the map accesses hold it for   *)
(* one step, Chips for a whole listing.  Other processes take lines too,   *)
(* inputs change, and the gateway may be killed at any step.               *)
(***************************************************************************)
EXTENDS Integers

CONSTANTS
    Line,       \* GPIO lines: a chip and an offset
    Request,    \* HTTP requests
    Ours,       \* the holder of the lines in Service.held
    Other,      \* another process or a driver
    None        \* no holder, no value

ASSUME HolderAssumption ==
    /\ {Ours, Other, None} \cap Request = {}
    /\ Ours # Other /\ Ours # None /\ Other # None
ASSUME NoneAssumption == None \notin Line \cup Int

VARIABLES
    owner,      \* owner[l]: who has line l; a request that reads it is itself one
    level,      \* level[l]: the level line l is driven to or shows
    held,       \* held[l]: Service.held
    lastRead,   \* lastRead[l]: Service.lastRead
    mu,         \* the page request that has Service.mu locked, or None
    req,        \* req[q]: progress of request q
    audit,      \* rows of the audit table: <<action, line, value>>
    driven      \* history: the <<line, level>> pairs SetLine achieved

vars == <<owner, level, held, lastRead, mu, req, audit, driven>>

Level == {0, 1}
Posted == 0..2 \cup {None}      \* what a form may say; None is not a number
PC == {"idle", "input", "sample", "remember", "close", "set", "release",
       "record", "failed", "info", "row", "chips", "entry", "done", "dead"}
Kind == {"read", "set", "release", "page"}
(* What a row of the page shows of a line: Used, HeldByUs and Value. *)
Row == [used : BOOLEAN, ours : BOOLEAN, value : Level \cup {None}]
NoRow == [used |-> FALSE, ours |-> FALSE, value |-> None]
Progress == [pc : PC, kind : Kind \cup {None}, line : Line \cup {None},
             value : Posted, todo : SUBSET Line, row : Row]
Entry(pc, kind, l, v, todo) ==
    [pc |-> pc, kind |-> kind, line |-> l, value |-> v, todo |-> todo, row |-> NoRow]

TypeOK ==
    /\ owner \in [Line -> {Ours, Other, None} \cup Request]
    /\ level \in [Line -> Level]
    /\ held \in [Line -> Level \cup {None}]
    /\ lastRead \in [Line -> Level \cup {None}]
    /\ mu \in Request \cup {None}
    /\ req \in [Request -> Progress]
    /\ audit \subseteq {"gpio_set", "gpio_set_failed", "gpio_release"} \X Line \X Posted
    /\ driven \subseteq Line \X Level

Init ==
    /\ owner \in [Line -> {Other, None}]
    /\ level \in [Line -> Level]
    /\ held = [l \in Line |-> None]
    /\ lastRead = [l \in Line |-> None]
    /\ mu = None
    /\ req = [q \in Request |-> Entry("idle", None, None, None, {})]
    /\ audit = {}
    /\ driven = {}

At(q, pc) == req[q].pc = pc
Goto(q, pc) == req' = [req EXCEPT ![q].pc = pc]

(* Atoi with its error ignored, then SetLine's `if value != 0'. *)
Atoi(v) == IF v = None THEN 0 ELSE v
Normal(n) == IF n # 0 THEN 1 ELSE 0

(* store.AddAudit; its error is ignored. *)
AddAudit(row) == audit' = audit \cup {row} \/ UNCHANGED audit

(* The kernel's account of a line, and what the maps add to it. *)
KernelRow(l) == [used |-> owner[l] # None, ours |-> FALSE, value |-> None]
Overlay(used, l) ==
    [used |-> used, ours |-> held[l] # None,
     value |-> IF held[l] # None THEN held[l] ELSE lastRead[l]]

----------------------------------------------------------------------------
(* Wrong variants of actions below: each is a bug a property must catch.   *)

(* A read that closes its handle before it writes lastRead. *)
SampleAndClose(q) ==
    /\ At(q, "sample")
    /\ req' = [req EXCEPT ![q].pc = "remember", ![q].value = level[req[q].line]]
    /\ owner' = [owner EXCEPT ![req[q].line] = None]
    /\ UNCHANGED <<level, held, lastRead, mu, audit, driven>>

(* A set that fails after it has noted the line as held. *)
SetFailsHeld(q) ==
    /\ At(q, "set")
    /\ held' = [held EXCEPT ![req[q].line] = Normal(Atoi(req[q].value))]
    /\ Goto(q, "failed")
    /\ UNCHANGED <<owner, level, lastRead, mu, audit, driven>>

(* A failed set that is recorded as done. *)
SetFailsUnseen(q) ==
    /\ At(q, "set")
    /\ Goto(q, "record")
    /\ UNCHANGED <<owner, level, held, lastRead, mu, audit, driven>>

(* A set that notes the number it was sent. *)
SetRaw(q) ==
    /\ At(q, "set")
    /\ mu = None
    /\ held[req[q].line] = None /\ owner[req[q].line] = None
    /\ owner' = [owner EXCEPT ![req[q].line] = Ours]
    /\ held' = [held EXCEPT ![req[q].line] = Atoi(req[q].value)]
    /\ Goto(q, "record")
    /\ UNCHANGED <<level, lastRead, mu, audit, driven>>

(* A set that does not wait for the mutex. *)
SetUnlocked(q) ==
    LET l == req[q].line
        n == Normal(Atoi(req[q].value))
    IN
    /\ At(q, "set")
    /\ held[l] # None \/ owner[l] = None
    /\ owner' = [owner EXCEPT ![l] = Ours]
    /\ level' = [level EXCEPT ![l] = n]
    /\ held' = [held EXCEPT ![l] = n]
    /\ lastRead' = IF held[l] = None THEN [lastRead EXCEPT ![l] = None] ELSE lastRead
    /\ driven' = driven \cup {<<l, n>>}
    /\ Goto(q, "record")
    /\ UNCHANGED <<mu, audit>>

(* A listing that returns early with the mutex locked. *)
ChipsLeak(q) ==
    /\ At(q, "chips")
    /\ req[q].todo = {}
    /\ Goto(q, "done")
    /\ UNCHANGED <<owner, level, held, lastRead, mu, audit, driven>>

----------------------------------------------------------------------------
(* POST /gpio/read: ReadLine. *)

BeginRead(q, l) ==
    /\ At(q, "idle")
    /\ req' = [req EXCEPT ![q] = Entry("input", "read", l, None, {})]
    /\ UNCHANGED <<owner, level, held, lastRead, mu, audit, driven>>

(* GPIO_GET_LINEHANDLE as an input; an error ends the read. *)
RequestInput(q) ==
    /\ At(q, "input")
    /\ \/ /\ owner[req[q].line] = None
          /\ owner' = [owner EXCEPT ![req[q].line] = q]
          /\ Goto(q, "sample")
       \/ UNCHANGED owner /\ Goto(q, "info")
    /\ UNCHANGED <<level, held, lastRead, mu, audit, driven>>

(* GPIOHANDLE_GET_LINE_VALUES; an error closes the handle. *)
Sample(q) ==
    /\ At(q, "sample")
    /\ \/ req' = [req EXCEPT ![q] = [@ EXCEPT !.pc = "remember",
                                              !.value = level[req[q].line]]]
       \/ Goto(q, "close")
    /\ UNCHANGED <<owner, level, held, lastRead, mu, audit, driven>>

(* lastRead is written while the handle is still open: it is closed by a   *)
(* deferred call.                                                          *)
Remember(q) ==
    /\ At(q, "remember")
    /\ mu = None
    /\ lastRead' = [lastRead EXCEPT ![req[q].line] = req[q].value]
    /\ Goto(q, "close")
    /\ UNCHANGED <<owner, level, held, mu, audit, driven>>

CloseInput(q) ==
    /\ At(q, "close")
    /\ owner' = [owner EXCEPT ![req[q].line] = None]
    /\ Goto(q, "info")
    /\ UNCHANGED <<level, held, lastRead, mu, audit, driven>>

----------------------------------------------------------------------------
(* POST /gpio/set: SetLine. *)

BeginSet(q, l, v) ==
    /\ At(q, "idle")
    /\ req' = [req EXCEPT ![q] = Entry("set", "set", l, v, {})]
    /\ UNCHANGED <<owner, level, held, lastRead, mu, audit, driven>>

(* A line we hold gets the value, a free one is requested as an output. *)
SetLine(q) ==
    LET l == req[q].line
        n == Normal(Atoi(req[q].value))
    IN
    /\ At(q, "set")
    /\ mu = None
    /\ held[l] # None \/ owner[l] = None
    /\ owner' = [owner EXCEPT ![l] = Ours]
    /\ level' = [level EXCEPT ![l] = n]
    /\ held' = [held EXCEPT ![l] = n]
    /\ lastRead' = IF held[l] = None THEN [lastRead EXCEPT ![l] = None] ELSE lastRead
    /\ driven' = driven \cup {<<l, n>>}
    /\ Goto(q, "record")
    /\ UNCHANGED <<mu, audit>>

(* Writes are disabled, the chip is not there, or an ioctl fails: the line *)
(* and the maps stay as they are.                                          *)
SetFails(q) ==
    /\ At(q, "set")
    /\ Goto(q, "failed")
    /\ UNCHANGED <<owner, level, held, lastRead, mu, audit, driven>>

RecordSet(q) ==
    /\ At(q, "record") /\ req[q].kind = "set"
    /\ AddAudit(<<"gpio_set", req[q].line, Atoi(req[q].value)>>)
    /\ Goto(q, "info")
    /\ UNCHANGED <<owner, level, held, lastRead, mu, driven>>

RecordFailure(q) ==
    /\ At(q, "failed")
    /\ AddAudit(<<"gpio_set_failed", req[q].line, None>>)
    /\ Goto(q, "info")
    /\ UNCHANGED <<owner, level, held, lastRead, mu, driven>>

----------------------------------------------------------------------------
(* POST /gpio/release: ReleaseLine. *)

BeginRelease(q, l) ==
    /\ At(q, "idle")
    /\ req' = [req EXCEPT ![q] = Entry("release", "release", l, None, {})]
    /\ UNCHANGED <<owner, level, held, lastRead, mu, audit, driven>>

(* Closing the handle frees the line; releasing one we do not hold is nil. *)
ReleaseLine(q) ==
    LET l == req[q].line IN
    /\ At(q, "release")
    /\ mu = None
    /\ held' = [held EXCEPT ![l] = None]
    /\ owner' = IF held[l] # None THEN [owner EXCEPT ![l] = None] ELSE owner
    /\ Goto(q, "record")
    /\ UNCHANGED <<level, lastRead, mu, audit, driven>>

RecordRelease(q) ==
    /\ At(q, "record") /\ req[q].kind = "release"
    /\ AddAudit(<<"gpio_release", req[q].line, None>>)
    /\ Goto(q, "info")
    /\ UNCHANGED <<owner, level, held, lastRead, mu, driven>>

----------------------------------------------------------------------------
(* renderGPIORow: LineState asks the kernel before it locks the maps. *)

LineInfo(q) ==
    /\ At(q, "info")
    /\ req' = [req EXCEPT ![q] = [@ EXCEPT !.pc = "row", !.row = KernelRow(req[q].line)]]
    /\ UNCHANGED <<owner, level, held, lastRead, mu, audit, driven>>

(* No such chip, or the kernel refuses: a 500 and no row. *)
InfoFails(q) ==
    /\ At(q, "info")
    /\ Goto(q, "done")
    /\ UNCHANGED <<owner, level, held, lastRead, mu, audit, driven>>

LineState(q) ==
    /\ At(q, "row")
    /\ mu = None
    /\ req' = [req EXCEPT ![q] = [@ EXCEPT !.pc = "done",
                                           !.row = Overlay(req[q].row.used, req[q].line)]]
    /\ UNCHANGED <<owner, level, held, lastRead, mu, audit, driven>>

(* GET /gpio: Chips lists every line under the mutex. *)
BeginPage(q) ==
    /\ At(q, "idle")
    /\ mu = None
    /\ mu' = q
    /\ req' = [req EXCEPT ![q] = Entry("chips", "page", None, None, Line)]
    /\ UNCHANGED <<owner, level, held, lastRead, audit, driven>>

ChipInfo(q) ==
    /\ At(q, "chips")
    /\ \E l \in req[q].todo :
           req' = [req EXCEPT ![q] = [@ EXCEPT !.pc = "entry", !.line = l,
                                               !.row = KernelRow(l)]]
    /\ UNCHANGED <<owner, level, held, lastRead, mu, audit, driven>>

(* A line the kernel tells nothing about is left out. *)
SkipLine(q) ==
    /\ At(q, "chips")
    /\ \E l \in req[q].todo : req' = [req EXCEPT ![q].todo = @ \ {l}]
    /\ UNCHANGED <<owner, level, held, lastRead, mu, audit, driven>>

Rest(q) == req[q].todo \ {req[q].line}

ChipEntry(q) ==
    /\ At(q, "entry")
    /\ req' = [req EXCEPT ![q] = [@ EXCEPT !.pc = "chips", !.todo = Rest(q),
                                           !.row = Overlay(req[q].row.used, req[q].line)]]
    /\ UNCHANGED <<owner, level, held, lastRead, mu, audit, driven>>

ChipsDone(q) ==
    /\ At(q, "chips")
    /\ req[q].todo = {}
    /\ mu' = None
    /\ Goto(q, "done")
    /\ UNCHANGED <<owner, level, held, lastRead, audit, driven>>

----------------------------------------------------------------------------
(* Another process takes a free line or gives its own back. *)
OtherProcess(l) ==
    /\ owner[l] \in {None, Other}
    /\ owner' = [owner EXCEPT ![l] = IF @ = None THEN Other ELSE None]
    /\ UNCHANGED <<level, held, lastRead, mu, req, audit, driven>>

(* A line we do not drive changes. *)
Drift(l) ==
    /\ owner[l] # Ours
    /\ level' = [level EXCEPT ![l] = 1 - @]
    /\ UNCHANGED <<owner, held, lastRead, mu, req, audit, driven>>

(* The gateway dies: the kernel closes its handles, the maps are gone. *)
Crash ==
    /\ owner' = [l \in Line |-> IF owner[l] \in Request \cup {Ours} THEN None ELSE owner[l]]
    /\ held' = [l \in Line |-> None]
    /\ lastRead' = [l \in Line |-> None]
    /\ mu' = None
    /\ req' = [q \in Request |->
           IF req[q].pc \in {"idle", "done"} THEN req[q] ELSE [req[q] EXCEPT !.pc = "dead"]]
    /\ UNCHANGED <<level, audit, driven>>

Begin(q) ==
    \/ \E l \in Line :
          BeginRead(q, l) \/ BeginRelease(q, l) \/ \E v \in Posted : BeginSet(q, l, v)
    \/ BeginPage(q)

Handle(q) ==
    \/ RequestInput(q) \/ Sample(q) \/ Remember(q) \/ CloseInput(q)
    \/ SetLine(q) \/ SetFails(q) \/ RecordSet(q) \/ RecordFailure(q)
    \/ ReleaseLine(q) \/ RecordRelease(q) \/ LineInfo(q) \/ InfoFails(q)
    \/ LineState(q) \/ ChipInfo(q) \/ SkipLine(q) \/ ChipEntry(q) \/ ChipsDone(q)

Next ==
    \/ \E q \in Request : Begin(q) \/ Handle(q)
    \/ \E l \in Line : OtherProcess(l) \/ Drift(l)
    \/ Crash

Spec == Init /\ [][Next]_vars

(* Goroutines are scheduled, and Go's mutex starves no waiter. *)
Fairness == \A q \in Request : SF_vars(Handle(q))

FairSpec == Spec /\ Fairness

----------------------------------------------------------------------------
(* Service.held is the truth about the outputs: the gateway drives exactly *)
(* the lines of the map, each to the level of the map, so that no line is  *)
(* driven that cannot be released, whatever fails or races.                *)
HeldIsDriven ==
    \A l \in Line :
        /\ held[l] # None <=> owner[l] = Ours
        /\ held[l] # None => level[l] = held[l]

(* A value read before a line was driven is never shown for it again once  *)
(* it has been driven: ReadLine's write to lastRead cannot arrive late.    *)
ReadIsForgotten == \A l \in Line : held[l] # None => lastRead[l] = None

(* The page never shows a line as held by us that it shows as unused.      *)
PageIsConsistent ==
    \A q \in Request : req[q].kind = "page" => (req[q].row.ours => req[q].row.used)

(* A gpio_set row of the audit table was done: its line was driven to the  *)
(* level its number stands for.                                            *)
AuditTellsLevel ==
    \A row \in audit : row[1] = "gpio_set" => <<row[2], Normal(row[3])>> \in driven

(* Every request that has begun is answered; nobody keeps the mutex. *)
Answered == \A q \in Request : ~At(q, "idle") ~> req[q].pc \in {"done", "dead"}
=============================================================================
