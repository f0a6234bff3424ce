------------------------------ MODULE WiFiProofs ------------------------------
(***************************************************************************)
(* Joining, leaving and forgetting networks beside edits, for every set of *)
(* interfaces with at most one Wi-Fi station: a profile at rest has what   *)
(* an operator confirmed for it, unless the one way out applies that       *)
(* EditStaysWithItsProfile names.  As for the edits alone, the two D-Bus   *)
(* calls after CheckpointCreate return before its timer is due.  The types *)
(* and what a connect makes of a scan need neither hypothesis.             *)
(***************************************************************************)
EXTENDS WiFiInductive, NetworkEditProofs, WellFoundedInduction

(* The types, and what NetworkEdit's own invariant says. *)
TypesInv == FateInv /\ WiFiTypeOK

(* The part of the invariant that edits and clicks can disturb. *)
EditInv ==
    /\ ActiveKnown
    /\ WiredTied
    /\ IdleWired
    /\ LiveAlone
    /\ OwnDevice
    /\ ChangingIsGuarded
    /\ GuardsOrLoose
    /\ SnapshotKept
    /\ EditedIsGuarded

(* The part of it that ties checkpoints and requests to devices. *)
Ties ==
    /\ ActiveKnown
    /\ WiredTied
    /\ IdleWired
    /\ LiveAlone
    /\ OwnDevice
    /\ GuardsOrLoose
    /\ SnapshotKept

(* The requests go on with the device and the profile they had, or end. *)
RequestsKept ==
    \A r \in Request : req'[r].pc \in Holding =>
        req[r].pc \in Holding /\ req'[r].dev = req[r].dev /\ req'[r].profile = req[r].profile

(* The checkpoints guard what they guarded, or end. *)
GuardsKept ==
    \A r \in Request : Live(r)' =>
        /\ Live(r)
        /\ checkpoint'[r].dev = checkpoint[r].dev
        /\ checkpoint'[r].profile = checkpoint[r].profile
        /\ checkpoint'[r].was = checkpoint[r].was

(* Devices change to profiles that are stored, and a station never to that *)
(* of a wired device, which stays as it is.                                *)
StationsMove ==
    /\ \A d \in Device : active'[d] # None => active'[d] \in known'
    /\ \A d \in Wired : /\ active'[d] = active[d]
                        /\ active[d] # None => ssidOf'[active[d]] = ssidOf[active[d]]
    /\ \A d \in Station, w \in Wired : active'[d] = active[w] => active[w] = None

(* No step that moves requests and stations along unties them. *)
LEMMA TiesKept ==
    ASSUME EditInv, RequestsKept, GuardsKept, StationsMove, loose \subseteq loose',
           \A r \in Request : Live(r)' /\ checkpoint[r].profile # None =>
               kept'[checkpoint[r].profile] = kept[checkpoint[r].profile]
    PROVE  Ties'
<1>1. \A d \in Device : LiveOn(d)' \subseteq LiveOn(d)
  BY DEF GuardsKept, LiveOn
<1>2. ActiveKnown'
  BY DEF StationsMove, ActiveKnown
<1>3. WiredTied'
  <2> SUFFICES ASSUME NEW w \in Wired, active[w] # None
               PROVE  /\ ssidOf'[active[w]] = None
                      /\ \A e \in Device : active'[e] = active[w] => e = w
                      /\ \A q \in Request : req'[q].pc \in Holding =>
                             (req'[q].dev = w <=> req'[q].profile = active[w])
                      /\ \A q \in Request : Live(q)' =>
                             (checkpoint'[q].dev = w <=> checkpoint'[q].profile = active[w])
    BY DEF WiredTied, StationsMove
  <2>1. /\ ssidOf[active[w]] = None
        /\ \A e \in Device : active[e] = active[w] => e = w
        /\ \A q \in Request : req[q].pc \in Holding =>
               (req[q].dev = w <=> req[q].profile = active[w])
        /\ \A q \in Request : Live(q) =>
               (checkpoint[q].dev = w <=> checkpoint[q].profile = active[w])
    BY DEF EditInv, WiredTied
  <2>2. \A e \in Device : active'[e] = active[w] => e = w
    BY <2>1 DEF StationsMove, Wired
  <2>3. ssidOf'[active[w]] = None
    BY <2>1 DEF StationsMove
  <2>4. QED
    BY <2>1, <2>2, <2>3 DEF RequestsKept, GuardsKept
<1>4. IdleWired'
  BY <1>1 DEF EditInv, IdleWired, Wired, RequestsKept, StationsMove
<1>5. LiveAlone' /\ OwnDevice'
  BY <1>1 DEF EditInv, LiveAlone, OwnDevice, GuardsKept, RequestsKept
<1>6. GuardsOrLoose' /\ SnapshotKept'
  BY DEF EditInv, GuardsOrLoose, SnapshotKept, GuardsKept, RequestsKept
<1>7. QED
  BY <1>2, <1>3, <1>4, <1>5, <1>6 DEF Ties

(* The stations that stay where they are are no exception. *)
LEMMA StationsStay ==
    ASSUME EditInv, UNCHANGED <<active, ssidOf>>, known \subseteq known'
    PROVE  StationsMove
<1>1. \A d \in Device : active[d] # None => active[d] \in known'
  BY DEF EditInv, ActiveKnown
<1>2. \A d \in Station, w \in Wired : active[d] = active[w] => active[w] = None
  BY StationAssumption DEF EditInv, WiredTied, Wired
<1>3. QED
  BY <1>1, <1>2 DEF StationsMove

(* A step that changes no profile, and lets no checkpoint end. *)
LEMMA QuietEdit ==
    ASSUME EditInv, RequestsKept, GuardsKept, StationsMove, ChangingIsGuarded',
           \A r \in Request : Live(r)' = Live(r), UNCHANGED <<saved, kept, loose>>
    PROVE  EditInv'
<1>1. Ties'
  BY TiesKept
<1>2. EditedIsGuarded'
  BY DEF EditInv, EditedIsGuarded, GuardsKept, RequestsKept
<1>3. QED
  BY <1>1, <1>2 DEF EditInv, Ties

(* What a live checkpoint of a wired device, or a request there, has in    *)
(* mind is what the device runs.                                           *)
LEMMA WiredRuns ==
    ASSUME EditInv, NEW d \in Wired, NEW r \in Request,
           \/ req[r].pc \in Holding /\ req[r].dev = d
           \/ Live(r) /\ checkpoint[r].dev = d
    PROVE  /\ active[d] # None
           /\ ssidOf[active[d]] = None
           /\ \A e \in Device : active[e] = active[d] => e = d
           /\ \A q \in Request : req[q].pc \in Holding =>
                  (req[q].dev = d <=> req[q].profile = active[d])
           /\ \A q \in Request : Live(q) =>
                  (checkpoint[q].dev = d <=> checkpoint[q].profile = active[d])
  BY DEF EditInv, IdleWired, WiredTied, LiveOn

(* With one station, of two devices one is wired. *)
LEMMA OneIsWired ==
    ASSUME OneStation, NEW d \in Device, NEW e \in Device, d # e
    PROVE  d \in Wired \/ e \in Wired
  BY DEF OneStation, Wired

(* What two live checkpoints, or a live one and a request with another,    *)
(* have in mind is not the same.                                           *)
LEMMA GuardsApart ==
    ASSUME OneStation, FateInv, EditInv, NEW t \in Request, NEW r \in Request,
           Live(t), req[t].pc \in Holding, Live(r), r # t
    PROVE  checkpoint[r].profile # req[t].profile
<1>1. /\ checkpoint[r].dev \in Device /\ req[t].dev \in Device
      /\ checkpoint[t].dev = req[t].dev
  BY DEF EditInv, LiveAlone, OwnDevice, FateInv, HoldingTyped
<1>2. checkpoint[r].dev # req[t].dev
  BY <1>1 DEF EditInv, LiveAlone, LiveOn
<1>3. CASE req[t].dev \in Wired
  BY <1>2, <1>3, WiredRuns
<1>4. CASE checkpoint[r].dev \in Wired
  BY <1>2, <1>4, WiredRuns
<1>5. QED
  BY <1>1, <1>2, <1>3, <1>4, OneIsWired

(* A request begins: it holds what its device runs, without a checkpoint.  *)
LEMMA BeginEdit ==
    ASSUME FateInv, EditInv, NEW r \in Request, NEW d \in Device, NEW c \in Config,
           Begin(r, d, c), UNCHANGED <<known, ssidOf, kept, loose>>
    PROVE  EditInv'
<1>1. /\ req'[r] = [pc |-> "begun", dev |-> d, profile |-> active[d], cfg |-> c]
      /\ \A q \in Request \ {r} : req'[q] = req[q]
      /\ active[d] # None /\ ~Live(r)
      /\ UNCHANGED <<saved, active, checkpoint>>
  BY DEF Begin, RequestAt, FateInv, TypeOK, FreshBeforeCreate, Live, nmVars
<1>2. \A q \in Request : Live(q)' = Live(q)
  BY <1>1 DEF Live
<1>3. \A e \in Device : LiveOn(e)' = LiveOn(e)
  BY <1>1 DEF LiveOn, Live
<1>4. ActiveKnown'
  BY <1>1 DEF EditInv, ActiveKnown
<1>5. WiredTied'
  <2> SUFFICES ASSUME NEW w \in Wired, active[w] # None
               PROVE  /\ ssidOf[active[w]] = None
                      /\ \A e \in Device : active[e] = active[w] => e = w
                      /\ \A q \in Request : req'[q].pc \in Holding =>
                             (req'[q].dev = w <=> req'[q].profile = active[w])
                      /\ \A q \in Request : Live(q) =>
                             (checkpoint[q].dev = w <=> checkpoint[q].profile = active[w])
    BY <1>1, <1>2 DEF WiredTied
  <2>1. /\ ssidOf[active[w]] = None
        /\ \A e \in Device : active[e] = active[w] => e = w
        /\ \A q \in Request : req[q].pc \in Holding =>
               (req[q].dev = w <=> req[q].profile = active[w])
        /\ \A q \in Request : Live(q) =>
               (checkpoint[q].dev = w <=> checkpoint[q].profile = active[w])
    BY DEF EditInv, WiredTied
  <2>2. w \in Device /\ (d = w <=> active[d] = active[w])
    BY <2>1 DEF Wired
  <2>3. ASSUME NEW q \in Request, req'[q].pc \in Holding
        PROVE  req'[q].dev = w <=> req'[q].profile = active[w]
    <3>1. CASE q = r
      BY <1>1, <2>2, <3>1
    <3>2. CASE q # r
      BY <1>1, <2>1, <2>3, <3>2
    <3>3. QED
      BY <3>1, <3>2
  <2>4. QED
    BY <2>1, <2>3
<1>6. IdleWired'
  <2> SUFFICES ASSUME NEW w \in Wired, active[w] = None
               PROVE  /\ \A q \in Request : req'[q].pc \in Holding => req'[q].dev # w
                      /\ LiveOn(w) = {}
    BY <1>1, <1>3 DEF IdleWired, Wired
  <2>1. /\ \A q \in Request : req[q].pc \in Holding => req[q].dev # w
        /\ LiveOn(w) = {}
    BY DEF EditInv, IdleWired
  <2>2. QED
    BY <1>1, <2>1
<1>7. LiveAlone' /\ OwnDevice'
  BY <1>1, <1>2, <1>3 DEF EditInv, LiveAlone, OwnDevice
<1>8. ChangingIsGuarded'
  BY <1>1, <1>2 DEF EditInv, ChangingIsGuarded, Changing
<1>9. GuardsOrLoose' /\ SnapshotKept'
  BY <1>1, <1>2 DEF EditInv, GuardsOrLoose, SnapshotKept
<1>10. EditedIsGuarded'
  BY <1>1, <1>2 DEF EditInv, EditedIsGuarded
<1>11. QED
  BY <1>4, <1>5, <1>6, <1>7, <1>8, <1>9, <1>10 DEF EditInv

(* A checkpoint that is created has the device's profile in mind; if that  *)
(* is not the request's any more, the request's profile is loose.          *)
LEMMA CreateEdit ==
    ASSUME OneStation, FateInv, EditInv, NEW r \in Request, req[r].pc = "begun",
           CheckpointCreate(r, req[r].dev), RequestsKept,
           \A q \in Request \ {r} : req'[q] = req[q],
           UNCHANGED <<known, ssidOf, kept>>, loose \subseteq loose',
           active[req[r].dev] # req[r].profile => req[r].profile \in loose'
    PROVE  EditInv'
<1> DEFINE cp == checkpoint'[r]
<1>1. PICK d \in Device : d = req[r].dev
  BY DEF FateInv, HoldingTyped, Holding
<1>2. /\ cp = [status |-> "live", dev |-> d, profile |-> active[d],
                was |-> SettingOf(d), left |-> Window]
      /\ LiveOn(d) = {} /\ ~Live(r) /\ Live(r)'
      /\ \A q \in Request \ {r} : checkpoint'[q] = checkpoint[q]
      /\ UNCHANGED <<saved, active>>
  BY <1>1 DEF CheckpointCreate, FateInv, TypeOK, NMTypeOK, FreshBeforeCreate, Live
<1>3. \A q \in Request \ {r} : Live(q)' = Live(q)
  BY <1>2 DEF Live
<1>4. ActiveKnown'
  BY <1>2 DEF EditInv, ActiveKnown
<1>5. WiredTied'
  <2> SUFFICES ASSUME NEW w \in Wired, active[w] # None
               PROVE  /\ ssidOf[active[w]] = None
                      /\ \A e \in Device : active[e] = active[w] => e = w
                      /\ \A q \in Request : req'[q].pc \in Holding =>
                             (req'[q].dev = w <=> req'[q].profile = active[w])
                      /\ \A q \in Request : Live(q)' =>
                             (checkpoint'[q].dev = w <=> checkpoint'[q].profile = active[w])
    BY <1>2 DEF WiredTied
  <2>1. /\ ssidOf[active[w]] = None
        /\ \A e \in Device : active[e] = active[w] => e = w
        /\ \A q \in Request : req[q].pc \in Holding =>
               (req[q].dev = w <=> req[q].profile = active[w])
        /\ \A q \in Request : Live(q) =>
               (checkpoint[q].dev = w <=> checkpoint[q].profile = active[w])
    BY DEF EditInv, WiredTied
  <2>2. d = w <=> active[d] = active[w]
    BY <2>1 DEF Wired
  <2>3. ASSUME NEW q \in Request, Live(q)'
        PROVE  checkpoint'[q].dev = w <=> checkpoint'[q].profile = active[w]
    <3>1. CASE q = r
      BY <1>2, <2>2, <3>1
    <3>2. CASE q # r
      BY <1>2, <1>3, <2>1, <2>3, <3>2
    <3>3. QED
      BY <3>1, <3>2
  <2>4. QED
    BY <2>1, <2>3 DEF RequestsKept
<1>6. IdleWired'
  <2> SUFFICES ASSUME NEW w \in Wired, active[w] = None
               PROVE  /\ \A q \in Request : req'[q].pc \in Holding => req'[q].dev # w
                      /\ LiveOn(w)' = {}
    BY <1>2 DEF IdleWired, Wired
  <2>1. /\ \A q \in Request : req[q].pc \in Holding => req[q].dev # w
        /\ LiveOn(w) = {}
    BY DEF EditInv, IdleWired
  <2>2. d # w
    BY <1>1, <2>1 DEF Holding
  <2>3. QED
    BY <1>2, <1>3, <2>1, <2>2 DEF LiveOn, RequestsKept
<1>7. LiveAlone'
  BY <1>2, <1>3 DEF EditInv, LiveAlone, LiveOn
<1>8. OwnDevice'
  BY <1>1, <1>2, <1>3 DEF EditInv, OwnDevice, RequestsKept
<1>9. ChangingIsGuarded'
  <2>1. cp.left > 0
    BY <1>2, WindowAssumption
  <2>2. QED
    BY <1>2, <1>3, <2>1 DEF EditInv, ChangingIsGuarded, Changing
<1>10. GuardsOrLoose'
  BY <1>1, <1>2, <1>3 DEF EditInv, GuardsOrLoose, RequestsKept
<1>11. SnapshotKept'
  <2>1. ASSUME active[d] # None, active[d] \notin loose
        PROVE  saved[active[d]] = kept[active[d]]
    <3> SUFFICES ASSUME saved[active[d]] # kept[active[d]] PROVE FALSE
      OBVIOUS
    <3>1. PICK q \in Request : Live(q) /\ checkpoint[q].profile = active[d]
      BY <2>1 DEF EditInv, EditedIsGuarded, FateInv, TypeOK, NMTypeOK
    <3>2. checkpoint[q].dev \in Device \ {d}
      BY <1>2, <3>1 DEF EditInv, LiveAlone, LiveOn
    <3>3. CASE d \in Wired
      BY <1>1, <3>1, <3>2, <3>3, WiredRuns DEF Holding
    <3>4. CASE checkpoint[q].dev \in Wired
      BY <3>1, <3>2, <3>4, WiredRuns
    <3>5. QED
      BY <3>2, <3>3, <3>4, OneIsWired
  <2>2. active[d] # None => cp.was.saved = saved[active[d]]
    BY <1>2 DEF SettingOf
  <2>3. QED
    BY <1>2, <1>3, <2>1, <2>2 DEF EditInv, SnapshotKept
<1>12. EditedIsGuarded'
  <2> SUFFICES ASSUME NEW p \in Profile, saved[p] # kept[p], p \notin loose'
               PROVE  \E q \in Request : /\ Live(q)' /\ checkpoint'[q].profile = p
                                         /\ req'[q].pc \in Holding => req'[q].profile = p
    BY <1>2 DEF EditedIsGuarded
  <2>1. PICK q \in Request : /\ Live(q) /\ checkpoint[q].profile = p
                             /\ req[q].pc \in Holding => req[q].profile = p
    BY DEF EditInv, EditedIsGuarded
  <2>2. QED
    BY <1>2, <1>3, <2>1 DEF RequestsKept
<1>13. QED
  BY <1>4, <1>5, <1>6, <1>7, <1>8, <1>9, <1>10, <1>11, <1>12 DEF EditInv

(* Rewriting a profile: its checkpoint guards it, or it is loose. *)
LEMMA UpdateEdit ==
    ASSUME FateInv, EditInv, NEW r \in Request, Changing(r),
           SettingsUpdate(req[r].profile, req[r].cfg), RequestsKept, ChangingIsGuarded',
           UNCHANGED <<known, ssidOf, kept, loose>>
    PROVE  EditInv'
<1>1. /\ Live(r) /\ req[r].pc \in Holding /\ req[r].profile \in Profile
      /\ UNCHANGED <<active, checkpoint>>
      /\ \A p \in Profile : p # req[r].profile => saved'[p] = saved[p]
  BY DEF EditInv, ChangingIsGuarded, Changing, Holding, SettingsUpdate, FateInv, TypeOK,
         NMTypeOK, HoldingTyped
<1>2. GuardsKept /\ \A q \in Request : Live(q)' = Live(q)
  BY <1>1 DEF GuardsKept, Live
<1>3. EditedIsGuarded'
  <2> SUFFICES ASSUME NEW p \in Profile, saved'[p] # kept[p], p \notin loose
               PROVE  \E q \in Request : /\ Live(q) /\ checkpoint[q].profile = p
                                         /\ req[q].pc \in Holding => req[q].profile = p
    BY <1>1, <1>2 DEF EditedIsGuarded, GuardsKept, RequestsKept
  <2>1. CASE p = req[r].profile
    BY <1>1, <2>1 DEF EditInv, GuardsOrLoose
  <2>2. CASE p # req[r].profile
    BY <1>1, <2>2 DEF EditInv, EditedIsGuarded
  <2>3. QED
    BY <2>1, <2>2
<1>4. Ties'
  BY <1>1, <1>2, StationsStay, TiesKept
<1>5. QED
  BY <1>3, <1>4 DEF EditInv, Ties

(* A rollback gives a profile back what it should have at rest. *)
LEMMA RollbackEdit ==
    ASSUME FateInv, EditInv, NEW r \in Request, CheckpointRollback(r), RequestsKept,
           ChangingIsGuarded', known' = known \cup ({checkpoint[r].profile} \ {None}),
           UNCHANGED <<ssidOf, kept, loose>>
    PROVE  EditInv'
<1>1. PICK d \in Device : d = checkpoint[r].dev
  BY DEF EditInv, LiveAlone, CheckpointRollback
<1>2. /\ Live(r) /\ ~Live(r)'
      /\ \A q \in Request \ {r} : checkpoint'[q] = checkpoint[q] /\ Live(q)' = Live(q)
      /\ \A p \in Profile : saved'[p] = IF p = checkpoint[r].profile
                                       THEN checkpoint[r].was.saved ELSE saved[p]
      /\ active' = [active EXCEPT ![d] = checkpoint[r].profile]
  BY <1>1, EndEffect DEF CheckpointRollback, FateInv, TypeOK, Live
<1>3. GuardsKept
  BY <1>2 DEF GuardsKept
<1>4. StationsMove
  <2>1. active \in [Device -> Profile \cup {None}]
    BY DEF FateInv, TypeOK, NMTypeOK
  <2>2. \A e \in Device : active'[e] # None => active'[e] \in known'
    BY <1>2, <2>1 DEF EditInv, ActiveKnown
  <2>3. \A w \in Wired : d = w => checkpoint[r].profile = active[w]
    BY <1>1, <1>2, WiredRuns
  <2>4. \A w \in Wired : active'[w] = active[w]
    BY <1>2, <2>1, <2>3 DEF Wired
  <2>5. ASSUME NEW e \in Station, NEW w \in Wired, active[w] # None
        PROVE  active'[e] # active[w]
    <3>1. e # w /\ e \in Device /\ w \in Device
      BY StationAssumption DEF Wired
    <3>2. active[e] # active[w]
      BY <2>5, <3>1 DEF EditInv, WiredTied
    <3>3. d # w => checkpoint[r].profile # active[w]
      BY <1>1, <1>2, <2>5 DEF EditInv, WiredTied
    <3>4. QED
      BY <1>2, <2>1, <3>1, <3>2, <3>3
  <2>6. QED
    BY <2>2, <2>4, <2>5 DEF StationsMove
<1>5. Ties'
  BY <1>3, <1>4, TiesKept
<1>6. EditedIsGuarded'
  <2> SUFFICES ASSUME NEW p \in Profile, saved'[p] # kept[p], p \notin loose
               PROVE  \E q \in Request : /\ Live(q)' /\ checkpoint'[q].profile = p
                                         /\ req'[q].pc \in Holding => req'[q].profile = p
    BY DEF EditedIsGuarded
  <2>1. p # checkpoint[r].profile
    BY <1>2, NoneAssumption DEF EditInv, SnapshotKept
  <2>2. PICK q \in Request : /\ Live(q) /\ checkpoint[q].profile = p
                             /\ req[q].pc \in Holding => req[q].profile = p
    BY <1>2, <2>1 DEF EditInv, EditedIsGuarded
  <2>3. QED
    BY <1>2, <2>1, <2>2 DEF RequestsKept
<1>7. QED
  BY <1>5, <1>6 DEF EditInv, Ties

(* A confirm keeps the one profile its request has edited. *)
LEMMA ConfirmEdit ==
    ASSUME OneStation, FateInv, EditInv, NEW t \in Request, CheckpointDestroy(t),
           req[t].pc \in Holding, UNCHANGED <<req, known, ssidOf, loose>>,
           kept' = [p \in Profile |-> IF p = req[t].profile THEN saved[p] ELSE kept[p]],
           kept \in [Profile -> Config], ChangingIsGuarded'
    PROVE  EditInv'
<1>1. /\ Live(t) /\ ~Live(t)'
      /\ \A q \in Request \ {t} : checkpoint'[q] = checkpoint[q] /\ Live(q)' = Live(q)
      /\ UNCHANGED <<saved, active>>
  BY EndEffect DEF CheckpointDestroy, FateInv, TypeOK, Live
<1>2. GuardsKept /\ RequestsKept /\ StationsMove
  BY <1>1, StationsStay DEF GuardsKept, RequestsKept
<1>3. ASSUME NEW q \in Request, Live(q)', checkpoint[q].profile # None
      PROVE  kept'[checkpoint[q].profile] = kept[checkpoint[q].profile]
  <2>1. q # t /\ Live(q)
    BY <1>1, <1>3
  <2>2. checkpoint[q].profile # req[t].profile
    BY <1>1, <2>1, GuardsApart
  <2>3. checkpoint[q].profile \in Profile
    BY <1>3 DEF FateInv, TypeOK, NMTypeOK, Checkpoint
  <2>4. QED
    BY <2>2, <2>3
<1>4. Ties'
  BY <1>2, <1>3, TiesKept
<1>5. EditedIsGuarded'
  BY <1>1 DEF EditInv, EditedIsGuarded
<1>6. QED
  BY <1>4, <1>5 DEF EditInv, Ties

(* A request that goes on, or ends, holds nothing it did not hold. *)
LEMMA GoesOn ==
    ASSUME TypeOK, NEW r \in Request, NEW pcs, Goto(r, pcs),
           req[r].pc \in Holding \/ pcs \cap Holding = {},
           "created" \notin pcs, "updated" \notin pcs \/ Changing(r)
    PROVE  RequestsKept /\ \A q \in Request : Changing(q)' => Changing(q)
  BY DEF TypeOK, Goto, RequestsKept, Changing, Holding

(* What an edit step's history says when no checkpoint begins or ends. *)
LEMMA NothingEnds ==
    ASSUME EditStep, kept \in [Profile -> Config],
           \A q \in Request : /\ Live(q) => checkpoint'[q].status = "live"
                              /\ checkpoint'[q].status = "live" => Live(q)
    PROVE  UNCHANGED <<known, kept, loose>>
<1>1. \A q \in Request : ~Created(q) /\ ~Ended(q, "destroyed") /\ ~Ended(q, "rolledback")
  BY DEF Created, Ended, Live
<1>2. {q \in Request : Ended(q, "rolledback")} = {}
  BY <1>1
<1>3. {q \in Request : Created(q) /\ active[req[q].dev] # req[q].profile} = {}
  BY <1>1
<1>4. known' = known
  BY <1>2 DEF EditStep, Revived
<1>5. kept' = kept
  BY <1>1 DEF EditStep
<1>6. loose' = loose
  BY <1>3 DEF EditStep
<1>7. QED
  BY <1>4, <1>5, <1>6

(* What it says of a rollback. *)
LEMMA OneRevived ==
    ASSUME FateInv, EditStep, kept \in [Profile -> Config], NEW r \in Request,
           CheckpointRollback(r)
    PROVE  /\ known' = known \cup ({checkpoint[r].profile} \ {None})
           /\ UNCHANGED <<kept, loose>>
<1>1. /\ Live(r) /\ checkpoint'[r].status = "rolledback"
      /\ \A q \in Request \ {r} : checkpoint'[q] = checkpoint[q]
  BY EndEffect DEF FateInv, TypeOK
<1>2. \A q \in Request : ~Created(q) /\ ~Ended(q, "destroyed") /\ (Ended(q, "rolledback") <=> q = r)
  BY <1>1 DEF Created, Ended, Live
<1>3. Revived = {checkpoint[r].profile} \ {None}
  <2>1. {q \in Request : Ended(q, "rolledback")} = {r}
    BY <1>2
  <2>2. QED
    BY <2>1 DEF Revived
<1>4. {q \in Request : Created(q) /\ active[req[q].dev] # req[q].profile} = {}
  BY <1>2
<1>5. loose' = loose
  BY <1>4 DEF EditStep
<1>6. kept' = kept
  BY <1>2 DEF EditStep
<1>7. known' = known \cup Revived
  BY DEF EditStep
<1>8. QED
  BY <1>3, <1>5, <1>6, <1>7

(* No step of an edit loses track of a profile. *)
LEMMA EditStepKeeps ==
    ASSUME OneStation, ~SlowBus, FateInv, EditInv, kept \in [Profile -> Config], EditStep
    PROVE  EditInv'
<1>1. /\ TypeOK /\ UNCHANGED ssidOf
      /\ \A q \in Request : Changing(q) => Live(q) /\ req[q].pc \in Holding
  BY DEF FateInv, EditStep, EditInv, ChangingIsGuarded, Changing, Holding
<1>2. ASSUME UNCHANGED checkpoint
      PROVE  /\ GuardsKept /\ UNCHANGED <<known, kept, loose>>
             /\ \A q \in Request : Live(q)' = Live(q)
  BY <1>2, NothingEnds DEF GuardsKept, Live
<1>3. ASSUME UNCHANGED nmVars, RequestsKept, \A q \in Request : Changing(q)' => Changing(q)
      PROVE  EditInv'
  <2>1. ChangingIsGuarded'
    BY <1>3 DEF EditInv, ChangingIsGuarded, Live, nmVars
  <2>2. QED
    BY <1>1, <1>2, <1>3, <2>1, StationsStay, QuietEdit DEF nmVars
<1>4. ASSUME NEW r \in Request, CheckpointRollback(r), RequestsKept, ~Changing(r),
             \A q \in Request : Changing(q)' => Changing(q)
      PROVE  EditInv'
  <2>1. \A q \in Request \ {r} : checkpoint'[q] = checkpoint[q]
    BY <1>1, <1>4, EndEffect DEF TypeOK
  <2>2. ChangingIsGuarded'
    BY <1>4, <2>1 DEF EditInv, ChangingIsGuarded, Live
  <2>3. QED
    BY <1>1, <1>4, <2>2, OneRevived, RollbackEdit
<1>5. ASSUME NEW r \in Request, NEW d \in Device, NEW c \in Config, Begin(r, d, c)
      PROVE  EditInv'
  BY <1>1, <1>2, <1>5, BeginEdit DEF Begin, nmVars
<1>6. ASSUME NEW r \in Request, Refuse(r) \/ Register(r) \/ Show(r)
      PROVE  EditInv'
  BY <1>1, <1>3, <1>6, GoesOn DEF Refuse, Register, Show, RequestAt, Holding
<1>7. ASSUME NEW r \in Request, Fail(r)
      PROVE  EditInv'
  <2>1. RequestsKept /\ \A q \in Request : Changing(q)' => Changing(q)
    BY <1>1, <1>7 DEF Fail, Blank, RequestsKept, Changing, Holding, TypeOK
  <2>2. QED
    BY <1>3, <1>7, <2>1 DEF Fail
<1>8. ASSUME NEW r \in Request, Create(r)
      PROVE  EditInv'
  <2>1. req[r].pc = "begun" /\ ~Live(r)
    BY <1>8 DEF Create, RequestAt, FateInv, FreshBeforeCreate, Live
  <2>2. CASE UNCHANGED nmVars /\ Goto(r, {"failing"})
    BY <1>1, <1>3, <2>1, <2>2, GoesOn DEF Holding
  <2>3. CASE CheckpointCreate(r, req[r].dev) /\ Goto(r, {"created", "failing"})
    <3>1. /\ \A q \in Request \ {r} : checkpoint'[q] = checkpoint[q] /\ req'[q] = req[q]
          /\ checkpoint'[r].status = "live"
      BY <1>1, <2>3 DEF CheckpointCreate, Goto, TypeOK, NMTypeOK
    <3>2. RequestsKept
      BY <1>1, <2>1, <2>3 DEF RequestsKept, Goto, TypeOK, Holding
    <3>3. \A q \in Request : (Created(q) <=> q = r) /\ ~Ended(q, "destroyed") /\ ~Ended(q, "rolledback")
      BY <2>1, <3>1 DEF Created, Ended, Live
    <3>4. {q \in Request : Ended(q, "rolledback")} = {}
      BY <3>3
    <3>5. known' = known
      BY <3>4 DEF EditStep, Revived
    <3>6. kept' = kept
      BY <3>3 DEF EditStep
    <3>7. loose' = loose \cup {req[q].profile : q \in {q \in Request :
                                   Created(q) /\ active[req[q].dev] # req[q].profile}}
      BY DEF EditStep
    <3>8. /\ loose \subseteq loose'
          /\ active[req[r].dev] # req[r].profile => req[r].profile \in loose'
      BY <3>3, <3>7
    <3>9. QED
      BY <1>1, <2>1, <2>3, <3>1, <3>2, <3>5, <3>6, <3>8, CreateEdit
  <2>4. QED
    BY <1>8, <2>2, <2>3 DEF Create
<1>9. ASSUME NEW r \in Request, Update(r)
      PROVE  EditInv'
  <2>1. Changing(r) /\ req[r].pc \in Holding
    BY <1>9 DEF Update, RequestAt, Changing, Holding
  <2>2. RequestsKept /\ \A q \in Request : Changing(q)' => Changing(q)
    BY <1>1, <1>9, <2>1, GoesOn DEF Update
  <2>3. CASE UNCHANGED nmVars
    BY <1>3, <2>2, <2>3
  <2>4. CASE SettingsUpdate(req[r].profile, req[r].cfg)
    <3>1. UNCHANGED checkpoint
      BY <2>4 DEF SettingsUpdate
    <3>2. ChangingIsGuarded'
      BY <2>2, <3>1 DEF EditInv, ChangingIsGuarded, Live
    <3>3. QED
      BY <1>1, <1>2, <2>1, <2>2, <2>4, <3>1, <3>2, UpdateEdit
  <2>5. QED
    BY <1>9, <2>3, <2>4 DEF Update
<1>10. ASSUME NEW r \in Request, Activate(r)
       PROVE  EditInv'
  <2>1. Changing(r) /\ req[r].pc \in Holding /\ req[r].pc = "updated"
    BY <1>10 DEF Activate, RequestAt, Changing, Holding
  <2>2. RequestsKept /\ \A q \in Request : Changing(q)' => Changing(q)
    BY <1>1, <1>10, <2>1, GoesOn DEF Activate
  <2>3. CASE UNCHANGED nmVars
    BY <1>3, <2>2, <2>3
  <2>4. CASE ActivateConnection(req[r].profile, req[r].dev)
    <3>1. UNCHANGED <<saved, checkpoint>>
      BY <2>4 DEF ActivateConnection
    <3>2. ChangingIsGuarded'
      BY <2>2, <3>1 DEF EditInv, ChangingIsGuarded, Live
    <3>3. PICK d \in Device : d = req[r].dev
      BY <2>1 DEF FateInv, HoldingTyped
    <3>4. PICK p \in Profile : p = req[r].profile
      BY <2>1 DEF FateInv, HoldingTyped
    <3>5. active' = [active EXCEPT ![d] = p] /\ active \in [Device -> Profile \cup {None}]
      BY <1>1, <2>4, <3>3, <3>4 DEF ActivateConnection, TypeOK, NMTypeOK
    <3>6. UNCHANGED <<known, kept, loose, ssidOf>>
      BY <1>1, <1>2, <3>1
    <3>7. p \notin known => active' = active
      <4>1. req'[r] # req[r]
        BY <1>1, <1>10, <2>1 DEF Activate, Goto, TypeOK
      <4>2. QED
        BY <2>1, <3>4, <4>1 DEF EditStep
    <3>8. \A e \in Device : active'[e] # None => active'[e] \in known'
      BY <3>5, <3>6, <3>7 DEF EditInv, ActiveKnown
    <3>9. \A w \in Wired : active'[w] = active[w]
      <4>1. \A w \in Wired : d = w => p = active[w]
        BY <2>1, <3>3, <3>4, WiredRuns
      <4>2. QED
        BY <3>5, <4>1 DEF Wired
    <3>10. ASSUME NEW e \in Station, NEW w \in Wired, active[w] # None
           PROVE  active'[e] # active[w]
      <4>1. e # w /\ e \in Device /\ w \in Device
        BY StationAssumption DEF Wired
      <4>2. active[e] # active[w]
        BY <3>10, <4>1 DEF EditInv, WiredTied
      <4>3. d # w => p # active[w]
        BY <2>1, <3>3, <3>4, <3>10 DEF EditInv, WiredTied
      <4>4. QED
        BY <3>5, <4>1, <4>2, <4>3
    <3>11. StationsMove
      BY <3>6, <3>8, <3>9, <3>10 DEF StationsMove
    <3>12. QED
      BY <1>2, <2>2, <3>1, <3>2, <3>6, <3>11, QuietEdit
  <2>5. QED
    BY <1>10, <2>3, <2>4 DEF Activate
<1>11. ASSUME NEW r \in Request, Undo(r)
       PROVE  EditInv'
  <2>1. RequestsKept /\ ~Changing(r) /\ \A q \in Request : Changing(q)' => Changing(q)
    BY <1>1, <1>11, GoesOn DEF Undo, RequestAt, Holding, Changing
  <2>2. QED
    BY <1>3, <1>4, <1>11, <2>1 DEF Undo
<1>12. ASSUME UNCHANGED req
       PROVE  RequestsKept /\ \A q \in Request : Changing(q)' => Changing(q)
  BY <1>12 DEF RequestsKept, Changing
<1>13. ASSUME NEW a \in Answer, NEW k \in Kind, NEW t \in Request, TakePending(a, k, t)
       PROVE  EditInv'
  BY <1>3, <1>12, <1>13 DEF TakePending
<1>14. ASSUME NEW a \in Answer, AnswerAt(a, "taken")
       PROVE  \E t \in Request : t = answer[a].token /\ req[t].pc = "shown"
  BY <1>14 DEF AnswerAt, FateInv, TakenOnce
<1>15. ASSUME NEW a \in Answer, Confirm(a)
       PROVE  EditInv'
  <2>1. PICK t \in Request : t = answer[a].token /\ req[t].pc = "shown"
    BY <1>14, <1>15 DEF Confirm
  <2>2. UNCHANGED req
    BY <1>15 DEF Confirm
  <2>3. CASE UNCHANGED nmVars
    BY <1>3, <1>12, <2>2, <2>3
  <2>4. CASE CheckpointDestroy(t)
    <3>1. /\ Live(t) /\ checkpoint'[t].status = "destroyed"
          /\ \A q \in Request \ {t} : checkpoint'[q] = checkpoint[q]
      BY <1>1, <2>4, EndEffect DEF TypeOK
    <3>2. \A q \in Request : ~Created(q) /\ (Ended(q, "destroyed") <=> q = t) /\ ~Ended(q, "rolledback")
      BY <3>1 DEF Created, Ended, Live
    <3>3. {q \in Request : Ended(q, "rolledback")} = {}
      BY <3>2
    <3>4. {q \in Request : Created(q) /\ active[req[q].dev] # req[q].profile} = {}
      BY <3>2
    <3>5. known' = known
      BY <3>3 DEF EditStep, Revived
    <3>6. loose' = loose
      BY <3>4 DEF EditStep
    <3>7. \A p \in Profile : (\E q \in Request : Ended(q, "destroyed") /\ req[q].profile = p)
                             <=> p = req[t].profile
      BY <3>2
    <3>8. kept' = [p \in Profile |-> IF p = req[t].profile THEN saved[p] ELSE kept[p]]
      BY <3>7 DEF EditStep
    <3>9. ChangingIsGuarded'
      BY <2>1, <2>2, <3>1 DEF EditInv, ChangingIsGuarded, Changing, Live
    <3>10. QED
      BY <1>1, <2>1, <2>2, <2>4, <3>5, <3>6, <3>8, <3>9, ConfirmEdit DEF Holding
  <2>5. QED
    BY <1>15, <2>1, <2>3, <2>4 DEF Confirm
<1>16. ASSUME NEW a \in Answer, Cancel(a)
       PROVE  EditInv'
  <2>1. PICK t \in Request : t = answer[a].token /\ req[t].pc = "shown"
    BY <1>14, <1>16 DEF Cancel
  <2>2. RequestsKept /\ ~Changing(t) /\ \A q \in Request : Changing(q)' => Changing(q)
    BY <1>12, <1>16, <2>1 DEF Cancel, Changing
  <2>3. QED
    BY <1>3, <1>4, <1>16, <2>1, <2>2 DEF Cancel
<1>17. ASSUME NEW a \in Answer, Record(a)
       PROVE  EditInv'
  BY <1>3, <1>12, <1>17 DEF Record
<1>18. ASSUME NEW r \in Request, Timeout(r)
       PROVE  EditInv'
  <2>1. ~Changing(r)
    BY <1>18 DEF Timeout, CheckpointTimeout, EditInv, ChangingIsGuarded
  <2>2. QED
    BY <1>4, <1>12, <1>18, <2>1 DEF Timeout, CheckpointTimeout, editVars
<1>19. ASSUME Tick
       PROVE  EditInv'
  <2>1. /\ UNCHANGED <<saved, active, req>>
        /\ \A q \in Request : checkpoint'[q] = IF Live(q) THEN [checkpoint[q] EXCEPT !.left = @ - 1]
                                               ELSE checkpoint[q]
    BY <1>19 DEF Tick, CheckpointTick
  <2>2. \A q \in Request : /\ Live(q)' = Live(q)
                           /\ checkpoint'[q].dev = checkpoint[q].dev
                           /\ checkpoint'[q].profile = checkpoint[q].profile
                           /\ checkpoint'[q].was = checkpoint[q].was
                           /\ Live(q) => checkpoint'[q].left = checkpoint[q].left - 1
    <3> SUFFICES ASSUME NEW q \in Request
                 PROVE  /\ checkpoint'[q].status = checkpoint[q].status
                        /\ checkpoint'[q].dev = checkpoint[q].dev
                        /\ checkpoint'[q].profile = checkpoint[q].profile
                        /\ checkpoint'[q].was = checkpoint[q].was
                        /\ Live(q) => checkpoint'[q].left = checkpoint[q].left - 1
      BY DEF Live
    <3>1. checkpoint[q] \in Checkpoint
      BY <1>1 DEF TypeOK, NMTypeOK
    <3>2. QED
      BY <2>1, <3>1 DEF Checkpoint
  <2>3. GuardsKept /\ UNCHANGED <<known, kept, loose>>
    BY <2>2, NothingEnds DEF GuardsKept, Live
  <2>4. ChangingIsGuarded'
    <3>1. ASSUME NEW q \in Request, Changing(q)
          PROVE  checkpoint[q].left \in Nat /\ checkpoint[q].left > 1 /\ Live(q)
      BY <1>1, <1>19, <3>1, WindowAssumption DEF Tick, TypeOK, NMTypeOK, Checkpoint
    <3>2. QED
      BY <2>1, <2>2, <3>1 DEF ChangingIsGuarded, Changing
  <2>5. QED
    BY <1>1, <1>12, <2>1, <2>2, <2>3, <2>4, StationsStay, QuietEdit
<1>20. QED
  BY <1>5, <1>6, <1>7, <1>8, <1>9, <1>10, <1>11, <1>13, <1>15, <1>16, <1>17, <1>18, <1>19
     DEF EditStep, Apply, Reply

----------------------------------------------------------------------------
(* The record a click is. *)
ClickRecord ==
    [pc : ClickPC, kind : ClickKind \cup {None}, dev : Station \cup {None},
     ssid : Ssid \cup {None}, profile : Profile \cup {None},
     exact : BOOLEAN, seen : AnyShown, keymgmt : AnyKey]

(* The part of the type invariant that the clicks are about. *)
ClicksTyped ==
    /\ click \in [Click -> ClickRecord]
    /\ \A q \in Click :
         click[q].pc \in {"deactivate", "delete"} => click[q].profile # None

LEMMA WiFiTyped ==
    WiFiTypeOK <=> /\ TypeOK /\ ClicksTyped
                   /\ known \subseteq Profile /\ ssidOf \in [Profile -> Ssid \cup {None}]
                   /\ rows \subseteq RowKind \X Click /\ hold \in {"none", "held"}
                   /\ kept \in [Profile -> Config] /\ loose \subseteq Profile
  BY DEF WiFiTypeOK, ClicksTyped, ClickRecord

(* The interface of a click is a station, or there is none. *)
LEMMA IfaceTyped == \A sel : wifiIface(sel) \in Station \cup {None}
  BY DEF wifiIface

(* What a connect finds in a scan is of its type. *)
LEMMA ViewTyped ==
    ASSUME NEW s \in Ssid, NEW v \in Views[s]
    PROVE  v.seen \in AnyShown /\ v.best.keymgmt \in AnyKey
<1>1. v.seen \in {u.seen : u \in Views[s]} /\ v.best.keymgmt \in {u.best.keymgmt : u \in Views[s]}
  OBVIOUS
<1>2. /\ v.seen \in UNION {{u.seen : u \in Views[x]} : x \in Ssid}
      /\ v.best.keymgmt \in UNION {{u.best.keymgmt : u \in Views[x]} : x \in Ssid}
  BY <1>1
<1>3. QED
  BY <1>2 DEF AnyShown, AnyKey

(* Nothing of the edits' own state changes. *)
LEMMA FateKept ==
    ASSUME FateInv, UNCHANGED <<saved, checkpoint, editVars>>,
           active' \in [Device -> Profile \cup {None}],
           applied' \in [Device -> Config \cup {None}]
    PROVE  FateInv'
<1>1. TypeOK'
  BY DEF FateInv, TypeOK, NMTypeOK, editVars
<1>2. /\ HoldingTyped' /\ SnapshotsComplete' /\ FreshBeforeCreate' /\ DestroyedWasShown'
      /\ PendingWasApplied' /\ DeadlineAfterTimer' /\ TakenOnce' /\ OpenNotKept'
      /\ RecordTellsFate' /\ AuditedIsOver' /\ AuditTellsFate'
  BY DEF FateInv, editVars, HoldingTyped, SnapshotsComplete, FreshBeforeCreate,
         DestroyedWasShown, PendingWasApplied, DeadlineAfterTimer, TakenOnce, OpenNotKept,
         RecordTellsFate, AuditedIsOver, AuditTellsFate, Live
<1>3. QED
  BY <1>1, <1>2 DEF FateInv

(* A step of a click, or of NetworkManager, that leaves the edits alone. *)
LEMMA StationStep ==
    ASSUME FateInv, EditInv, StationsMove, UNCHANGED <<saved, checkpoint, editVars, kept, loose>>,
           active' \in [Device -> Profile \cup {None}],
           applied' \in [Device -> Config \cup {None}]
    PROVE  FateInv' /\ EditInv'
<1>1. GuardsKept /\ RequestsKept /\ ChangingIsGuarded' /\ \A r \in Request : Live(r)' = Live(r)
  BY DEF editVars, GuardsKept, RequestsKept, EditInv, ChangingIsGuarded, Changing, Live
<1>2. QED
  BY <1>1, FateKept, QuietEdit

(* A click that only goes on itself. *)
LEMMA ClickStep ==
    ASSUME FateInv, EditInv, UNCHANGED <<vars, known, ssidOf, kept, loose>>
    PROVE  FateInv' /\ EditInv'
<1>1. UNCHANGED <<saved, active, applied, checkpoint, editVars>>
  BY DEF vars, nmVars
<1>2. /\ active' \in [Device -> Profile \cup {None}]
      /\ applied' \in [Device -> Config \cup {None}]
  BY <1>1 DEF FateInv, TypeOK, NMTypeOK
<1>3. QED
  BY <1>1, <1>2, StationsStay, StationStep

(* Two devices run different profiles. *)
LEMMA RunOne ==
    ASSUME OneStation, EditInv, NEW d \in Device, NEW e \in Device, d # e, active[d] # None
    PROVE  active[d] # active[e]
<1>1. CASE d \in Wired
  BY <1>1 DEF EditInv, WiredTied
<1>2. CASE e \in Wired
  BY <1>2 DEF EditInv, WiredTied
<1>3. QED
  BY <1>1, <1>2, OneIsWired

(* The whole invariant, taken apart. *)
LEMMA WiFiParts ==
    WiFiInv <=> TypesInv /\ FateInv /\ EditInv /\ WiFiTypeOK /\ DeletesNetwork
  BY DEF WiFiInv, EditInv, TypesInv

(* Nothing changes in the edits or in NetworkManager. *)
LEMMA TypesStay ==
    ASSUME TypesInv, UNCHANGED vars
    PROVE  FateInv'
  BY FateStep DEF TypesInv

(* An audit row of a click is one. *)
LEMMA RowTyped ==
    ASSUME rows \subseteq RowKind \X Click, NEW kind \in RowKind, NEW q \in Click,
           Row(kind, q) \/ UNCHANGED rows
    PROVE  rows' \subseteq RowKind \X Click
  BY DEF Row

(* A request to connect, disconnect or forget begins. *)
LEMMA ClickTypes ==
    ASSUME TypesInv, NEW q \in Click, NEW d \in Device, NEW s \in Ssid,
           Connect(q, d, s) \/ Disconnect(q, d) \/ Forget(q, s)
    PROVE  /\ TypesInv' /\ click' = [click EXCEPT ![q] = click'[q]]
           /\ ClickAt(q, "delete", "forget")' => ssidOf[click'[q].profile] # None
<1>1. UNCHANGED <<vars, known, ssidOf, kept, loose>> /\ UNCHANGED hold
  BY DEF Connect, Disconnect, Forget
<1>2. FateInv'
  BY <1>1, TypesStay
<1>3. /\ click \in [Click -> ClickRecord] /\ ClicksTyped /\ rows \subseteq RowKind \X Click
      /\ known \subseteq Profile
  BY WiFiTyped DEF TypesInv, ClicksTyped
<1> DEFINE
      Begun == /\ click'[q] \in ClickRecord /\ click' = [click EXCEPT ![q] = click'[q]]
               /\ click'[q].pc \in {"deactivate", "delete"} => click'[q].profile # None
               /\ ClickAt(q, "delete", "forget")' => ssidOf[click'[q].profile] # None
               /\ rows' \subseteq RowKind \X Click
<1>4. Begun
  <2>1. ASSUME Connect(q, d, s)
        PROVE  Begun
    <3>1. PICK v \in Views[s] :
              LET best == v.best
                  refused == best.secured /\ best.keymgmt = ""
              IN  /\ wifiIface(d) # None /\ Trim[s] # AP!Hidden
                  /\ click' = [click EXCEPT ![q] = [@ EXCEPT !.pc = IF refused THEN "done" ELSE "add",
                         !.kind = "connect", !.dev = wifiIface(d), !.ssid = Trim[s],
                         !.exact = Trim[s] = s, !.seen = v.seen,
                         !.keymgmt = IF best.secured THEN best.keymgmt ELSE "open"]]
                  /\ IF refused THEN Row("wifi_connect_failed", q) ELSE UNCHANGED rows
      BY <2>1 DEF Connect
    <3>2. v.seen \in AnyShown /\ v.best.keymgmt \in AnyKey /\ "open" \in AnyKey
      BY ViewTyped DEF AnyKey
    <3>3. wifiIface(d) \in Station /\ Trim[s] \in Ssid /\ (Trim[s] = s) \in BOOLEAN
      BY <3>1, IfaceTyped, TrimAssumption
    <3>4. /\ click'[q].pc \in {"done", "add"} /\ click'[q].kind = "connect"
          /\ click'[q] \in ClickRecord /\ click' = [click EXCEPT ![q] = click'[q]]
      BY ZenonT(40), <1>3, <3>1, <3>2, <3>3 DEF ClickRecord, ClickPC, ClickKind
    <3>5. rows' \subseteq RowKind \X Click
      BY <1>3, <3>1, RowTyped DEF RowKind
    <3>6. QED
      BY <3>4, <3>5 DEF ClickAt
  <2>2. ASSUME Disconnect(q, d)
        PROVE  Begun
    <3>1. PICK e \in Station \cup {None} : e = wifiIface(d)
      BY IfaceTyped
    <3>2. e # None => active[e] \in Profile \cup {None}
      BY <3>1, StationAssumption DEF TypesInv, FateInv, TypeOK, NMTypeOK
    <3>3. /\ click'[q] \in ClickRecord /\ click' = [click EXCEPT ![q] = click'[q]]
          /\ click'[q].pc = "deactivate" => click'[q].profile # None
          /\ click'[q].pc \in {"done", "deactivate"}
      BY ZenonT(40), <1>3, <2>2, <3>1, <3>2 DEF Disconnect, ClickRecord, ClickPC, ClickKind
    <3>4. rows' \subseteq RowKind \X Click
      BY <1>3, <2>2, RowTyped DEF Disconnect, RowKind
    <3>5. QED
      BY <3>3, <3>4 DEF ClickAt
  <2>3. ASSUME Forget(q, s)
        PROVE  Begun
    <3>1. PICK p \in IF WithSsid(Trim[s]) = {} THEN {None} ELSE WithSsid(Trim[s]) :
              click' = [click EXCEPT ![q] = [@ EXCEPT !.kind = "forget", !.ssid = Trim[s],
                        !.pc = IF p = None THEN "done" ELSE "delete", !.profile = p]]
      BY <2>3 DEF Forget
    <3>2. /\ p = None \/ (p \in Profile /\ ssidOf[p] = Trim[s])
          /\ Trim[s] \in Ssid
      BY <1>3, <2>3, <3>1, TrimAssumption DEF WithSsid, Forget
    <3>3. /\ click'[q] \in ClickRecord /\ click' = [click EXCEPT ![q] = click'[q]]
          /\ click'[q].pc = IF p = None THEN "done" ELSE "delete"
          /\ click'[q].profile = p
      BY <1>3, <3>1, <3>2 DEF ClickRecord, ClickPC, ClickKind
    <3>4. rows' \subseteq RowKind \X Click
      BY <1>3, <2>3, RowTyped DEF Forget, RowKind
    <3>5. QED
      BY <3>2, <3>3, <3>4, SsidAssumption DEF ClickAt
  <2>4. QED
    BY <2>1, <2>2, <2>3
<1>5. ClicksTyped'
  BY <1>3, <1>4 DEF ClicksTyped
<1>6. WiFiTypeOK'
  <2>1. TypeOK'
    BY <1>2 DEF FateInv
  <2>2. QED
    BY <1>1, <1>4, <1>5, <2>1 DEF TypesInv, WiFiTypeOK, ClicksTyped, ClickRecord
<1>7. QED
  BY <1>2, <1>4, <1>6 DEF TypesInv

LEMMA ClickKeeps ==
    ASSUME WiFiInv, NEW q \in Click, NEW d \in Device, NEW s \in Ssid,
           Connect(q, d, s) \/ Disconnect(q, d) \/ Forget(q, s)
    PROVE  WiFiInv'
<1>1. UNCHANGED <<vars, known, ssidOf, kept, loose>>
  BY DEF Connect, Disconnect, Forget
<1>2. EditInv'
  BY <1>1, WiFiParts, ClickStep
<1>3. /\ TypesInv' /\ click' = [click EXCEPT ![q] = click'[q]]
      /\ ClickAt(q, "delete", "forget")' => ssidOf[click'[q].profile] # None
  BY WiFiParts, ClickTypes
<1>4. DeletesNetwork'
  <2>1. \A c \in Click : c # q => click'[c] = click[c]
    BY <1>3, WiFiParts, WiFiTyped DEF ClicksTyped, TypesInv
  <2>2. QED
    BY <1>1, <1>3, <2>1, WiFiParts DEF DeletesNetwork, ClickAt
<1>5. QED
  BY <1>2, <1>3, <1>4 DEF TypesInv, WiFiInv, EditInv

(* AddAndActivateConnection stores and activates a profile of its own. *)
LEMMA AddTypes ==
    ASSUME TypesInv, NEW q \in Click, Add(q)
    PROVE  TypesInv'
<1>1. /\ click \in [Click -> ClickRecord] /\ ClicksTyped /\ rows \subseteq RowKind \X Click
      /\ known \subseteq Profile /\ FateInv /\ ssidOf \in [Profile -> Ssid \cup {None}]
      /\ active \in [Device -> Profile \cup {None}] /\ applied \in [Device -> Config \cup {None}]
      /\ UNCHANGED <<saved, checkpoint, editVars, hold, kept, loose>>
      /\ hold \in {"none", "held"} /\ kept \in [Profile -> Config] /\ loose \subseteq Profile
  BY WiFiTyped DEF TypesInv, ClicksTyped, Add, TypeOK, NMTypeOK
<1>2. click[q].ssid \in Ssid \cup {None}
  BY <1>1 DEF ClickRecord
<1>3. rows' \subseteq RowKind \X Click
  BY <1>1, RowTyped DEF Add, RowKind
<1>4. PICK p \in Profile \cup {None} :
          \/ Answered(q) /\ UNCHANGED <<known, ssidOf, active, applied>>
          \/ /\ known' = known \cup {p} /\ p \in Profile
             /\ ssidOf' = [ssidOf EXCEPT ![p] = click[q].ssid]
             /\ active' = [active EXCEPT ![click[q].dev] = p]
             /\ applied' = [applied EXCEPT ![click[q].dev] = AutoIPv4]
             /\ click' = [click EXCEPT ![q].pc = "done", ![q].profile = p]
  BY DEF Add
<1>5. /\ known' \subseteq Profile
      /\ ssidOf' \in [Profile -> Ssid \cup {None}]
      /\ active' \in [Device -> Profile \cup {None}]
      /\ applied' \in [Device -> Config \cup {None}]
  BY <1>1, <1>2, <1>4, AutoIPv4Assumption
<1>6. FateInv'
  BY <1>1, <1>5, FateKept
<1>7. TypeOK'
  BY <1>6 DEF FateInv
<1>8. /\ click'[q].pc = "done" /\ click'[q] \in ClickRecord
      /\ click' = [click EXCEPT ![q] = click'[q]]
  <2>1. click[q] \in ClickRecord
    BY <1>1
  <2>2. PICK t \in Profile \cup {None} :
            click' = [click EXCEPT ![q] = [click[q] EXCEPT !.pc = "done", !.profile = t]]
    <3>1. CASE Answered(q)
      <4>1. click[q].profile \in Profile \cup {None}
        BY <2>1 DEF ClickRecord
      <4>2. [click[q] EXCEPT !.pc = "done"]
                = [click[q] EXCEPT !.pc = "done", !.profile = click[q].profile]
        BY <2>1 DEF ClickRecord
      <4>3. click' = [click EXCEPT ![q] = [click[q] EXCEPT !.pc = "done"]]
        BY <1>1, <3>1 DEF Answered
      <4>4. QED
        BY <4>1, <4>2, <4>3
    <3>2. CASE click' = [click EXCEPT ![q].pc = "done", ![q].profile = p]
      BY <1>1, <3>2
    <3>3. QED
      BY <1>4, <3>1, <3>2
  <2>3. click'[q] = [click[q] EXCEPT !.pc = "done", !.profile = t]
    BY <1>1, <2>2
  <2>4. click'[q] \in ClickRecord /\ click'[q].pc = "done"
    BY <2>1, <2>3 DEF ClickRecord, ClickPC
  <2>5. QED
    BY <2>2, <2>3, <2>4
<1>9. ClicksTyped'
  BY <1>1, <1>8 DEF ClicksTyped
<1>10. WiFiTypeOK'
  BY <1>1, <1>3, <1>5, <1>7, <1>9 DEF WiFiTypeOK, ClicksTyped, ClickRecord
<1>11. QED
  BY <1>6, <1>10 DEF TypesInv

LEMMA AddKeeps ==
    ASSUME WiFiInv, NEW q \in Click, Add(q)
    PROVE  WiFiInv'
<1>1. /\ click \in [Click -> ClickRecord] /\ ClicksTyped /\ known \subseteq Profile
      /\ DeletesNetwork /\ FateInv /\ EditInv /\ ssidOf \in [Profile -> Ssid \cup {None}]
      /\ active \in [Device -> Profile \cup {None}]
      /\ UNCHANGED <<saved, checkpoint, editVars, hold, kept, loose>>
  BY WiFiParts, WiFiTyped DEF ClicksTyped, Add, TypeOK, NMTypeOK
<1>2. /\ click[q].dev \in Station \cup {None}
      /\ click[q].pc = "add" /\ click[q].kind = "connect"
  BY <1>1 DEF ClickRecord, Add, ClickAt
<1>3. /\ TypesInv' /\ active' \in [Device -> Profile \cup {None}]
      /\ applied' \in [Device -> Config \cup {None}]
  BY AddTypes, WiFiParts DEF TypesInv, FateInv, TypeOK, NMTypeOK
<1>4. CASE UNCHANGED <<known, ssidOf, active, applied>> /\ Answered(q)
  <2>1. EditInv'
    BY <1>1, <1>3, <1>4, StationsStay, StationStep
  <2>2. DeletesNetwork'
    BY <1>1, <1>4 DEF Answered, DeletesNetwork, ClickAt, ClickRecord
  <2>3. QED
    BY <1>3, <2>1, <2>2 DEF TypesInv, WiFiInv, EditInv
<1>5. ASSUME NEW p \in Profile \ known, ssidOf[p] = None, known' = known \cup {p},
             ssidOf' = [ssidOf EXCEPT ![p] = click[q].ssid],
             active' = [active EXCEPT ![click[q].dev] = p],
             applied' = [applied EXCEPT ![click[q].dev] = AutoIPv4],
             click' = [click EXCEPT ![q].pc = "done", ![q].profile = p]
      PROVE  WiFiInv'
  <2>1. PICK d \in Station \cup {None} : d = click[q].dev
    BY <1>2
  <2>2. \A e \in Device : active'[e] = IF e = d THEN p ELSE active[e]
    BY <1>1, <1>5, <2>1
  <2>3. \A e \in Device : active[e] # None => active[e] \in known
    BY <1>1 DEF EditInv, ActiveKnown
  <2>4. StationsMove
    <3>1. \A e \in Device : active'[e] # None => active'[e] \in known'
      BY <1>5, <2>2, <2>3
    <3>2. \A w \in Wired : w # d /\ w \in Device
      BY NoneAssumption DEF Wired
    <3>3. \A w \in Wired : active[w] # None => active[w] \in Profile /\ active[w] # p
      BY <1>1, <1>5, <2>3, <3>2
    <3>4. \A w \in Wired : active[w] # None => ssidOf'[active[w]] = ssidOf[active[w]]
      BY <1>1, <1>5, <3>3
    <3>5. ASSUME NEW e \in Station, NEW w \in Wired, active[w] # None
          PROVE  active'[e] # active[w]
      <4>1. e \in Device /\ e # w
        BY StationAssumption DEF Wired
      <4>2. active[e] # active[w]
        BY <1>1, <3>5, <4>1 DEF EditInv, WiredTied
      <4>3. QED
        BY <2>2, <3>3, <3>5, <4>1, <4>2
    <3>6. QED
      BY <2>2, <3>1, <3>2, <3>4, <3>5 DEF StationsMove
  <2>5. EditInv'
    BY <1>1, <1>3, <2>4, StationStep
  <2>6. DeletesNetwork'
    <3> SUFFICES ASSUME NEW c \in Click, ClickAt(c, "delete", "forget")'
                 PROVE  ssidOf'[click'[c].profile] # None
      BY DEF DeletesNetwork
    <3>1. c # q /\ click'[c] = click[c] /\ ClickAt(c, "delete", "forget")
      BY <1>1, <1>5 DEF ClickAt, ClickRecord
    <3>2. ssidOf[click[c].profile] # None /\ click[c].profile \in Profile
      BY <1>1, <3>1 DEF DeletesNetwork, ClicksTyped, ClickAt, ClickRecord
    <3>3. QED
      BY <1>1, <1>5, <3>1, <3>2
  <2>7. QED
    BY <1>3, <2>5, <2>6 DEF TypesInv, WiFiInv, EditInv
<1>6. \/ UNCHANGED <<known, ssidOf, active, applied>> /\ Answered(q)
      \/ \E p \in Profile \ known :
             /\ ssidOf[p] = None
             /\ known' = known \cup {p}
             /\ ssidOf' = [ssidOf EXCEPT ![p] = click[q].ssid]
             /\ active' = [active EXCEPT ![click[q].dev] = p]
             /\ applied' = [applied EXCEPT ![click[q].dev] = AutoIPv4]
             /\ click' = [click EXCEPT ![q].pc = "done", ![q].profile = p]
  BY DEF Add
<1>7. QED
  BY <1>4, <1>5, <1>6

(* A station stops, or a profile is deleted, or neither. *)
LEMMA StopTypes ==
    ASSUME TypesInv, NEW q \in Click, Deactivate(q) \/ Delete(q)
    PROVE  TypesInv'
<1>1. /\ click \in [Click -> ClickRecord] /\ ClicksTyped /\ rows \subseteq RowKind \X Click
      /\ known \subseteq Profile /\ FateInv
      /\ active \in [Device -> Profile \cup {None}] /\ applied \in [Device -> Config \cup {None}]
      /\ Answered(q) /\ UNCHANGED <<saved, checkpoint, editVars, ssidOf, hold, kept, loose>>
  BY WiFiTyped DEF TypesInv, ClicksTyped, Deactivate, Delete, TypeOK, NMTypeOK
<1>2. rows' \subseteq RowKind \X Click
  BY <1>1, RowTyped DEF Deactivate, Delete, RowKind
<1>3. known' \subseteq known
  BY DEF Deactivate, Delete
<1>4. /\ active' \in [Device -> Profile \cup {None}]
      /\ applied' \in [Device -> Config \cup {None}]
  BY <1>1 DEF Deactivate, Delete, Stop
<1>5. FateInv'
  BY <1>1, <1>4, FateKept
<1>6. TypeOK'
  BY <1>5 DEF FateInv
<1>7. ClicksTyped'
  BY <1>1 DEF Answered, ClicksTyped, ClickRecord, ClickPC
<1>8. WiFiTypeOK'
  BY <1>1, <1>2, <1>3, <1>6, <1>7 DEF TypesInv, WiFiTypeOK, ClicksTyped, ClickRecord
<1>9. QED
  BY <1>5, <1>8 DEF TypesInv

LEMMA StopKeeps ==
    ASSUME OneStation, WiFiInv, NEW q \in Click, Deactivate(q) \/ Delete(q)
    PROVE  WiFiInv'
<1>1. /\ click \in [Click -> ClickRecord] /\ ClicksTyped /\ DeletesNetwork
      /\ FateInv /\ EditInv /\ active \in [Device -> Profile \cup {None}]
      /\ Answered(q) /\ UNCHANGED <<saved, checkpoint, editVars, ssidOf, kept, loose>>
  BY WiFiParts, WiFiTyped DEF ClicksTyped, Deactivate, Delete, TypeOK, NMTypeOK
<1>2. \A e \in Device : active[e] # None => active[e] \in known
  BY <1>1 DEF EditInv, ActiveKnown
<1>3. /\ TypesInv' /\ active' \in [Device -> Profile \cup {None}]
      /\ applied' \in [Device -> Config \cup {None}]
  BY StopTypes, WiFiParts DEF TypesInv, FateInv, TypeOK, NMTypeOK
<1>4. known' \subseteq known
  BY DEF Deactivate, Delete
<1>5. ASSUME NEW d, Stop(d)
      PROVE  \A e \in Device : active'[e] = IF e = d THEN None ELSE active[e]
  BY <1>1, <1>5 DEF Stop
<1>6. ASSUME NEW d, d \notin Wired, Stop(d),
             \A e \in Device : e # d /\ active[e] # None => active[e] \in known'
      PROVE  StationsMove
  <2>1. \A e \in Device : active'[e] # None => active'[e] \in known'
    BY <1>5, <1>6
  <2>2. \A w \in Wired : active'[w] = active[w]
    BY <1>5, <1>6 DEF Wired
  <2>3. ASSUME NEW e \in Station, NEW w \in Wired, active[w] # None
        PROVE  active'[e] # active[w]
    <3>1. e \in Device /\ e # w
      BY StationAssumption DEF Wired
    <3>2. active[e] # active[w]
      BY <1>1, <2>3, <3>1 DEF EditInv, WiredTied
    <3>3. QED
      BY <1>5, <1>6, <2>3, <3>1, <3>2
  <2>4. QED
    BY <1>1, <2>1, <2>2, <2>3 DEF StationsMove
<1>7. StationsMove
  <2>1. CASE UNCHANGED <<known, active, applied>>
    BY <1>1, <2>1, StationsStay
  <2>2. CASE Deactivate(q) /\ Stop(click[q].dev)
    <3>1. click[q].dev \notin Wired
      BY <1>1, NoneAssumption DEF ClickRecord, Wired
    <3>2. known' = known
      BY <2>2 DEF Deactivate
    <3>3. QED
      BY <1>2, <1>5, <1>6, <2>2, <3>1, <3>2
  <2>3. CASE Delete(q) /\ known' = known \ {click[q].profile}
    <3>1. PICK p \in Profile : p = click[q].profile /\ ssidOf[p] # None
      BY <1>1, <2>3 DEF Delete, ClickAt, DeletesNetwork, ClicksTyped, ClickRecord
    <3>2. \A w \in Wired : active[w] # p
      BY <1>1, <3>1, NoneAssumption DEF EditInv, WiredTied
    <3>3. ASSUME NEW d \in Device, active[d] = p, Stop(d)
          PROVE  StationsMove
      <4>1. \A e \in Device : e # d => active[e] # p
        BY <1>1, <3>1, <3>3, RunOne, NoneAssumption
      <4>2. \A e \in Device : e # d /\ active[e] # None => active[e] \in known'
        BY <1>2, <2>3, <3>1, <4>1
      <4>3. QED
        BY <1>6, <3>2, <3>3, <4>2
    <3>4. ASSUME p \notin {active[d] : d \in Device}, UNCHANGED <<active, applied>>
          PROVE  StationsMove
      <4>1. \A e \in Device : active'[e] # None => active'[e] \in known'
        BY <1>2, <2>3, <3>1, <3>4
      <4>2. \A e \in Station, w \in Wired : active[e] = active[w] => active[w] = None
        BY <1>1, StationAssumption DEF EditInv, WiredTied, Wired
      <4>3. QED
        BY <1>1, <3>4, <4>1, <4>2 DEF StationsMove
    <3>5. (\E d \in Device : active[d] = p /\ Stop(d))
          \/ (p \notin {active[d] : d \in Device} /\ UNCHANGED <<active, applied>>)
          \/ UNCHANGED <<known, active, applied>>
      BY <2>3, <3>1 DEF Delete
    <3>6. QED
      BY <1>1, <1>5, <2>1, <3>3, <3>4, <3>5
  <2>4. QED
    BY <2>1, <2>2, <2>3 DEF Deactivate, Delete
<1>8. EditInv'
  BY <1>1, <1>3, <1>7, StationStep
<1>9. DeletesNetwork'
  BY <1>1 DEF Answered, ClicksTyped, ClickRecord, DeletesNetwork, ClickAt
<1>10. QED
  BY <1>3, <1>8, <1>9 DEF TypesInv, WiFiInv, EditInv

(* NetworkManager activates a stored profile that nobody runs. *)
LEMMA AutoConnectTypes ==
    ASSUME TypesInv, NEW d \in Station, NEW p \in Profile, AutoConnect(d, p)
    PROVE  TypesInv'
<1>1. /\ FateInv /\ WiFiTypeOK
      /\ active \in [Device -> Profile \cup {None}] /\ applied \in [Device -> Config \cup {None}]
      /\ saved \in [Profile -> Config]
      /\ UNCHANGED <<saved, checkpoint, editVars, known, ssidOf, click, rows, hold, kept, loose>>
      /\ active' = [active EXCEPT ![d] = p] /\ applied' = [applied EXCEPT ![d] = saved[p]]
  BY DEF TypesInv, WiFiTypeOK, TypeOK, NMTypeOK, AutoConnect, ActivateConnection, wifiVars
<1>2. FateInv'
  BY <1>1, FateKept
<1>3. TypeOK'
  BY <1>2 DEF FateInv
<1>4. QED
  BY <1>1, <1>2, <1>3 DEF TypesInv, WiFiTypeOK

LEMMA AutoConnectKeeps ==
    ASSUME WiFiInv, NEW d \in Station, NEW p \in Profile, AutoConnect(d, p)
    PROVE  WiFiInv'
<1>1. /\ FateInv /\ EditInv /\ WiFiTypeOK /\ DeletesNetwork
      /\ active \in [Device -> Profile \cup {None}] /\ applied \in [Device -> Config \cup {None}]
      /\ saved \in [Profile -> Config] /\ d \in Device /\ d \notin Wired
      /\ UNCHANGED <<saved, checkpoint, editVars, known, ssidOf, click, rows, hold, kept, loose>>
      /\ p \in known /\ p \notin {active[e] : e \in Device}
      /\ active' = [active EXCEPT ![d] = p] /\ applied' = [applied EXCEPT ![d] = saved[p]]
  BY WiFiParts, StationAssumption
     DEF WiFiTypeOK, TypeOK, NMTypeOK, AutoConnect, ActivateConnection, wifiVars, Wired
<1>2. /\ active' \in [Device -> Profile \cup {None}]
      /\ applied' \in [Device -> Config \cup {None}]
      /\ \A e \in Device : active'[e] = IF e = d THEN p ELSE active[e]
  BY <1>1
<1>3. StationsMove
  <2>1. \A e \in Device : active'[e] # None => active'[e] \in known'
    BY <1>1, <1>2 DEF EditInv, ActiveKnown
  <2>2. \A w \in Wired : active'[w] = active[w] /\ p # active[w]
    BY <1>1, <1>2 DEF Wired
  <2>3. ASSUME NEW e \in Station, NEW w \in Wired, active[w] # None
        PROVE  active'[e] # active[w]
    <3>1. e \in Device /\ e # w
      BY StationAssumption DEF Wired
    <3>2. active[e] # active[w]
      BY <1>1, <2>3, <3>1 DEF EditInv, WiredTied
    <3>3. QED
      BY <1>2, <2>2, <3>1, <3>2
  <2>4. QED
    BY <1>1, <2>1, <2>2, <2>3 DEF StationsMove
<1>4. FateInv' /\ EditInv'
  BY <1>1, <1>2, <1>3, StationStep
<1>5. TypesInv' /\ DeletesNetwork'
  BY <1>1, AutoConnectTypes, WiFiParts DEF DeletesNetwork, ClickAt
<1>6. QED
  BY <1>4, <1>5 DEF TypesInv, WiFiInv, EditInv

(* The probe's checkpoint concerns no profile. *)
LEMMA ProbeTypes ==
    ASSUME TypesInv, ProbeCreate \/ ProbeDestroy
    PROVE  TypesInv'
<1>1. UNCHANGED <<vars, known, ssidOf, click, rows, kept, loose>> /\ hold' \in {"none", "held"}
  BY DEF ProbeCreate, ProbeDestroy
<1>2. FateInv'
  BY <1>1, TypesStay
<1>3. TypeOK'
  BY <1>2 DEF FateInv
<1>4. QED
  BY <1>1, <1>2, <1>3 DEF TypesInv, WiFiTypeOK

LEMMA ProbeKeeps ==
    ASSUME WiFiInv, ProbeCreate \/ ProbeDestroy
    PROVE  WiFiInv'
<1>1. UNCHANGED <<vars, known, ssidOf, click, kept, loose>>
  BY DEF ProbeCreate, ProbeDestroy
<1>2. EditInv'
  BY <1>1, WiFiParts, ClickStep
<1>3. TypesInv' /\ DeletesNetwork'
  BY <1>1, ProbeTypes, WiFiParts DEF DeletesNetwork, ClickAt
<1>4. QED
  BY <1>2, <1>3 DEF TypesInv, WiFiInv, EditInv

(* With the gateway its requests die; NetworkManager keeps what it has. *)
LEMMA CrashTypes ==
    ASSUME TypesInv, GatewayCrash
    PROVE  /\ TypesInv'
           /\ \A q \in Click : click'[q].pc \in {"idle", "done"}
<1>1. /\ FateInv /\ WiFiTypeOK
      /\ UNCHANGED <<nmVars, known, ssidOf, rows, hold, kept, loose>>
  BY DEF TypesInv, GatewayCrash, Crash
<1>2. FateInv'
  BY <1>1, FateStep DEF GatewayCrash, Next
<1>3. click \in [Click -> ClickRecord] /\ ClicksTyped
  BY <1>1, WiFiTyped DEF ClicksTyped
<1>4. \A q \in Click : click'[q] = IF click[q].pc = "idle" THEN click[q]
                                   ELSE [click[q] EXCEPT !.pc = "done"]
  BY DEF GatewayCrash
<1>5. ASSUME NEW q \in Click
      PROVE  /\ click'[q] \in ClickRecord
             /\ click'[q].pc \in {"idle", "done"}
  <2>1. click[q] \in ClickRecord
    BY <1>3
  <2>2. CASE click[q].pc = "idle"
    BY <1>4, <2>1, <2>2
  <2>3. CASE click[q].pc # "idle"
    <3>1. click'[q] = [click[q] EXCEPT !.pc = "done"]
      BY <1>4, <2>3
    <3>2. QED
      BY <2>1, <3>1 DEF ClickRecord, ClickPC
  <2>4. QED
    BY <2>2, <2>3
<1>6. click' \in [Click -> ClickRecord]
  <2>1. click' = [q \in Click |-> click'[q]]
    BY DEF GatewayCrash
  <2>2. QED
    BY <1>5, <2>1
<1>7. ClicksTyped'
  BY <1>5, <1>6 DEF ClicksTyped
<1>8. TypeOK'
  BY <1>2 DEF FateInv
<1>9. WiFiTypeOK'
  BY <1>1, <1>7, <1>8 DEF WiFiTypeOK, ClicksTyped, ClickRecord
<1>10. QED
  BY <1>2, <1>5, <1>9 DEF TypesInv

LEMMA CrashKeeps ==
    ASSUME WiFiInv, GatewayCrash
    PROVE  WiFiInv'
<1>1. /\ EditInv /\ UNCHANGED <<nmVars, known, ssidOf, rows, hold, kept, loose>>
  BY WiFiParts DEF GatewayCrash, Crash
<1>2. TypesInv' /\ \A q \in Click : click'[q].pc \in {"idle", "done"}
  BY WiFiParts, CrashTypes
<1>3. RequestsKept /\ \A q \in Request : Changing(q)' => Changing(q)
  BY DEF GatewayCrash, Crash, RequestsKept, Changing, Holding, Blank
<1>4. ChangingIsGuarded'
  BY <1>1, <1>3 DEF EditInv, ChangingIsGuarded, Live, nmVars
<1>5. GuardsKept /\ \A q \in Request : Live(q)' = Live(q)
  BY <1>1 DEF GuardsKept, Live, nmVars
<1>6. EditInv'
  BY <1>1, <1>3, <1>4, <1>5, StationsStay, QuietEdit DEF nmVars
<1>7. DeletesNetwork'
  BY <1>2 DEF DeletesNetwork, ClickAt
<1>8. QED
  BY <1>2, <1>6, <1>7 DEF TypesInv, WiFiInv, EditInv

(* An edit's step leaves the clicks alone. *)
LEMMA EditTypes ==
    ASSUME TypesInv, EditStep
    PROVE  TypesInv'
<1>1. /\ FateInv /\ WiFiTypeOK
      /\ kept \in [Profile -> Config] /\ saved \in [Profile -> Config]
      /\ known \subseteq Profile /\ loose \subseteq Profile
      /\ checkpoint \in [Request -> Checkpoint]
  BY DEF TypesInv, WiFiTypeOK, TypeOK, NMTypeOK
<1>2. Next
  BY DEF EditStep, Next
<1>3. FateInv'
  BY <1>1, <1>2, FateStep
<1>4. known' \subseteq Profile
  <2>1. Revived \subseteq Profile
    BY <1>1 DEF Revived, Checkpoint
  <2>2. QED
    BY <1>1, <2>1 DEF EditStep
<1>5. kept' \in [Profile -> Config]
  BY <1>1 DEF EditStep
<1>6. loose' \subseteq Profile
  <2>1. ASSUME NEW r \in Request, Created(r)
        PROVE  req[r].profile \in Profile
    <3>1. checkpoint'[r].status = "live" /\ checkpoint[r].status # "live"
      BY <2>1 DEF Created, Live
    <3>2. \E q \in Request : Create(q) /\ CheckpointCreate(q, req[q].dev)
      <4>1. ASSUME UNCHANGED checkpoint PROVE FALSE
        BY <3>1, <4>1
      <4>2. ASSUME NEW q \in Request, CheckpointRollback(q) \/ CheckpointDestroy(q) PROVE FALSE
        BY <1>1, <3>1, <4>2 DEF CheckpointRollback, CheckpointDestroy, NoCheckpoint
      <4>3. ASSUME Tick PROVE FALSE
        BY <1>1, <3>1, <4>3 DEF Tick, CheckpointTick, Live
      <4>4. ASSUME NEW a \in Answer, Confirm(a) PROVE FALSE
        <5>1. PICK t \in Request : t = answer[a].token
          BY <1>1, <4>4 DEF Confirm, AnswerAt, FateInv, TakenOnce
        <5>2. QED
          BY <4>1, <4>2, <4>4, <5>1 DEF Confirm, nmVars
      <4>5. ASSUME NEW a \in Answer, Cancel(a) PROVE FALSE
        <5>1. PICK t \in Request : t = answer[a].token
          BY <1>1, <4>5 DEF Cancel, AnswerAt, FateInv, TakenOnce
        <5>2. QED
          BY <4>1, <4>2, <4>5, <5>1 DEF Cancel, nmVars
      <4>6. ASSUME NEW a \in Answer, Record(a) PROVE FALSE
        BY <4>1, <4>6 DEF Record, nmVars
      <4>7. ASSUME NEW q \in Request, Refuse(q) \/ Timeout(q) \/ Update(q) \/ Activate(q) \/ Undo(q)
                                      \/ Register(q) \/ Show(q) \/ Fail(q)
            PROVE  FALSE
        BY <4>1, <4>2, <4>7 DEF Refuse, Timeout, CheckpointTimeout, Update, Activate, Undo,
           Register, Show, Fail, SettingsUpdate, ActivateConnection, nmVars
      <4>8. ASSUME NEW q \in Request, NEW d \in Device, NEW c \in Config, Begin(q, d, c) PROVE FALSE
        BY <4>1, <4>8 DEF Begin, nmVars
      <4>9. ASSUME NEW a \in Answer, NEW k \in Kind, NEW t \in Request, TakePending(a, k, t) PROVE FALSE
        BY <4>1, <4>9 DEF TakePending, nmVars
      <4>10. PICK q \in Request : Create(q)
        BY <4>3, <4>4, <4>5, <4>6, <4>7, <4>8, <4>9 DEF EditStep, Apply, Reply
      <4>11. QED
        BY <4>1, <4>10 DEF Create, nmVars
    <3>3. PICK q \in Request : Create(q) /\ CheckpointCreate(q, req[q].dev)
      BY <3>2
    <3>4. q = r
      BY <1>1, <3>1, <3>3 DEF CheckpointCreate
    <3>5. QED
      BY <1>1, <3>3, <3>4 DEF Create, RequestAt, FateInv, HoldingTyped, Holding
  <2>2. QED
    BY <1>1, <2>1 DEF EditStep
<1>7. TypeOK'
  BY <1>3 DEF FateInv
<1>8. WiFiTypeOK'
  BY <1>1, <1>4, <1>5, <1>6, <1>7 DEF EditStep, WiFiTypeOK
<1>9. QED
  BY <1>3, <1>8 DEF TypesInv

LEMMA EditKeeps ==
    ASSUME OneStation, ~SlowBus, WiFiInv, EditStep
    PROVE  WiFiInv'
<1>1. TypesInv' /\ FateInv'
  BY EditTypes, WiFiParts DEF TypesInv
<1>2. EditInv'
  <2>1. FateInv /\ EditInv /\ saved \in [Profile -> Config] /\ kept \in [Profile -> Config]
        /\ known \subseteq Profile /\ checkpoint \in [Request -> Checkpoint]
    BY WiFiParts DEF WiFiTypeOK, TypeOK, NMTypeOK
  <2>2. QED
    BY <1>1, <2>1, EditStepKeeps
<1>3. DeletesNetwork'
  BY WiFiParts DEF EditStep, DeletesNetwork, ClickAt
<1>4. QED
  BY <1>1, <1>2, <1>3 DEF TypesInv, WiFiInv, EditInv

----------------------------------------------------------------------------
LEMMA TypesInitial == WiFiInit => TypesInv
<1> SUFFICES ASSUME WiFiInit PROVE TypesInv
  OBVIOUS
<1>1. FateInv
  BY FateInit DEF WiFiInit
<1>2. TypeOK /\ active \in [Device -> Profile \cup {None}]
  BY <1>1 DEF FateInv, TypeOK, NMTypeOK
<1>3. Fresh \in ClickRecord
  BY DEF Fresh, ClickRecord, ClickPC, AnyShown, AnyKey
<1>4. ClicksTyped
  BY <1>3 DEF WiFiInit, ClicksTyped, Fresh
<1>5. known \subseteq Profile
  BY <1>2 DEF WiFiInit
<1>6. kept \in [Profile -> Config]
  BY AutoIPv4Assumption DEF WiFiInit
<1>7. QED
  BY <1>1, <1>2, <1>4, <1>5, <1>6, WiFiTyped DEF TypesInv, WiFiInit

LEMMA WiFiInitial == WiFiInit => WiFiInv
<1> SUFFICES ASSUME WiFiInit PROVE WiFiInv
  OBVIOUS
<1>1. FateInv
  BY FateInit DEF WiFiInit
<1>2. /\ TypeOK /\ active \in [Device -> Profile \cup {None}] /\ Exclusive(active)
      /\ \A r \in Request : ~Live(r) /\ req[r].pc = "idle"
      /\ \A d \in Device : LiveOn(d) = {}
  BY <1>1 DEF FateInv, WiFiInit, Init, NMInit, NoCheckpoint, Blank, Live, LiveOn
<1>3. \A r \in Request : req[r].pc \notin Holding /\ ~Changing(r)
  BY <1>2 DEF Holding, Changing
<1>4. /\ ActiveKnown /\ IdleWired /\ LiveAlone /\ OwnDevice /\ ChangingIsGuarded
      /\ GuardsOrLoose /\ SnapshotKept
  <2>1. ActiveKnown
    BY <1>2 DEF WiFiInit, ActiveKnown
  <2>2. IdleWired
    BY <1>2, <1>3 DEF IdleWired, Wired
  <2>3. LiveAlone /\ OwnDevice /\ ChangingIsGuarded /\ GuardsOrLoose /\ SnapshotKept
    BY <1>2, <1>3 DEF LiveAlone, OwnDevice, ChangingIsGuarded, GuardsOrLoose, SnapshotKept
  <2>4. QED
    BY <2>1, <2>2, <2>3
<1>5. WiredTied
  <2> SUFFICES ASSUME NEW w \in Wired, active[w] # None
               PROVE  ssidOf[active[w]] = None /\ \A e \in Device : active[e] = active[w] => e = w
    BY <1>2, <1>3 DEF WiredTied
  <2>1. w \in Device /\ w \notin Station
    BY DEF Wired
  <2>2. \A e \in Device : active[e] = active[w] => e = w
    BY <1>2, <2>1 DEF Exclusive
  <2>3. active[w] \in Profile /\ active[w] \notin {active[d] : d \in Station}
    BY <1>2, <2>1, <2>2, StationAssumption
  <2>4. QED
    BY <2>2, <2>3 DEF WiFiInit
<1>6. EditedIsGuarded
  BY DEF WiFiInit, EditedIsGuarded
<1>7. WiFiTypeOK
  BY TypesInitial DEF TypesInv
<1>8. DeletesNetwork
  BY DEF WiFiInit, DeletesNetwork, ClickAt, Fresh
<1>9. QED
  BY <1>1, <1>4, <1>5, <1>6, <1>7, <1>8 DEF WiFiInv

(* Every step keeps the types, and the invariant. *)
LEMMA TypesStep == TypesInv /\ [WiFiNext]_allVars => TypesInv'
<1> SUFFICES ASSUME TypesInv, [WiFiNext]_allVars PROVE TypesInv'
  OBVIOUS
<1>1. CASE UNCHANGED allVars
  <2>1. UNCHANGED <<vars, known, ssidOf, click, rows, hold, kept, loose>>
    BY <1>1 DEF allVars, wifiVars
  <2>2. FateInv'
    BY <2>1, TypesStay
  <2>3. TypeOK'
    BY <2>2 DEF FateInv
  <2>4. QED
    BY <2>1, <2>2, <2>3 DEF TypesInv, WiFiTypeOK
<1>2. CASE WiFiNext
  BY <1>2, EditTypes, ClickTypes, AddTypes, StopTypes, AutoConnectTypes, ProbeTypes, CrashTypes
     DEF WiFiNext
<1>3. QED
  BY <1>1, <1>2

LEMMA WiFiStep ==
    OneStation /\ ~SlowBus /\ WiFiInv /\ [WiFiNext]_allVars => WiFiInv'
<1> SUFFICES ASSUME OneStation, ~SlowBus, WiFiInv, [WiFiNext]_allVars PROVE WiFiInv'
  OBVIOUS
<1>1. CASE UNCHANGED allVars
  <2>1. UNCHANGED <<vars, known, ssidOf, click, kept, loose>>
    BY <1>1 DEF allVars, wifiVars
  <2>2. EditInv'
    BY <2>1, WiFiParts, ClickStep
  <2>3. TypesInv' /\ DeletesNetwork'
    BY <2>1, TypesStep, WiFiParts DEF DeletesNetwork, ClickAt
  <2>4. QED
    BY <2>2, <2>3 DEF TypesInv, WiFiInv, EditInv
<1>2. CASE WiFiNext
  BY <1>2, EditKeeps, ClickKeeps, AddKeeps, StopKeeps, AutoConnectKeeps, ProbeKeeps, CrashKeeps
     DEF WiFiNext
<1>3. QED
  BY <1>1, <1>2

(* The inductive invariant holds in every state: joining, leaving and      *)
(* forgetting networks, edits, the probe, timeouts and crashes included.   *)
THEOREM WiFiCorrect == OneStation /\ ~SlowBus => (WiFiSpec => []WiFiInv)
<1> SUFFICES ASSUME OneStation, ~SlowBus PROVE WiFiSpec => []WiFiInv
  OBVIOUS
<1>1. WiFiInit => WiFiInv
  BY WiFiInitial
<1>2. WiFiInv /\ [WiFiNext]_allVars => WiFiInv'
  BY WiFiStep
<1>3. QED
  BY <1>1, <1>2, PTL DEF WiFiSpec

(* Profiles, clicks, audit rows and edits keep their types, however many   *)
(* stations there are and however slow the bus is.                         *)
THEOREM WiFiTypeCorrect == WiFiSpec => []WiFiTypeOK
<1>1. WiFiInit => TypesInv
  BY TypesInitial
<1>2. TypesInv /\ [WiFiNext]_allVars => TypesInv'
  BY TypesStep
<1>3. TypesInv => WiFiTypeOK
  BY DEF TypesInv
<1>4. QED
  BY <1>1, <1>2, <1>3, PTL DEF WiFiSpec

(* Whatever is joined, left or forgotten while edits are under way, a      *)
(* profile at rest has what an operator confirmed for it, unless it is one *)
(* of those whose device changed its profile before the checkpoint.        *)
THEOREM EditCorrect == OneStation /\ ~SlowBus => (WiFiSpec => []EditStaysWithItsProfile)
<1> SUFFICES ASSUME OneStation, ~SlowBus PROVE WiFiSpec => []EditStaysWithItsProfile
  OBVIOUS
<1>1. WiFiInv => EditStaysWithItsProfile
  <2> SUFFICES ASSUME WiFiInv, NEW p \in known, saved[p] # kept[p]
               PROVE  p \in loose \/ \E r \in Request : Live(r) /\ checkpoint[r].profile = p
    BY DEF EditStaysWithItsProfile
  <2>1. p \in Profile
    BY DEF WiFiInv, WiFiTypeOK
  <2>2. QED
    BY <2>1 DEF WiFiInv, EditedIsGuarded
<1>2. WiFiSpec => []WiFiInv
  BY WiFiCorrect
<1>3. QED
  BY <1>1, <1>2, PTL

----------------------------------------------------------------------------
(* What is so at 0, and at n when it is so at n - 1, is so up to N. *)
LEMMA UpTo ==
  ASSUME NEW N \in Nat, NEW S, 0 \in S, \A n \in 1..N : n - 1 \in S => n \in S
  PROVE  0..N \subseteq S
<1> SUFFICES ASSUME NEW m \in 0..N, m \notin S PROVE FALSE
  OBVIOUS
<1> DEFINE T == {n \in 0..N : n \notin S}
<1>1. T \subseteq Nat /\ T # {}
  OBVIOUS
<1>2. PICK x \in T : \A y \in T : ~(<<y, x>> \in OpToRel(<, Nat))
  BY <1>1, WFMin, NatLessThanWellFounded
<1>3. x \in 0..N /\ x \notin S /\ x # 0
  OBVIOUS
<1>4. x - 1 \in T
  BY <1>3
<1>5. <<x - 1, x>> \in OpToRel(<, Nat)
  BY <1>3 DEF OpToRel
<1>6. QED
  BY <1>2, <1>4, <1>5

(* The loop of matchAP, one access point after the other. *)
LEMMA MatchRuns ==
  ASSUME NEW scan, Len(scan) \in Nat, NEW s
  PROVE  \E f : /\ AP!matchAP(scan, s) = f[Len(scan)]
                /\ f[0] = AP!NoMatch
                /\ \A n \in 1..Len(scan) : f[n] = AP!BestMatch(f[n - 1], scan[n], s)
<1> DEFINE Loop(N, f) == f = [n \in 0..N |-> IF n = 0 THEN AP!NoMatch
                                             ELSE AP!BestMatch(f[n - 1], scan[n], s)]
           S == {n \in 0..Len(scan) : \E f : Loop(n, f)}
           run == CHOOSE f : Loop(Len(scan), f)
<1>1. 0 \in S
  <2> DEFINE g == [n \in 0..0 |-> AP!NoMatch]
  <2>1. Loop(0, g)
    OBVIOUS
  <2> HIDE DEF g, Loop
  <2>2. QED
    BY <2>1
<1>2. ASSUME NEW n \in 1..Len(scan), n - 1 \in S
      PROVE  n \in S
  <2>1. PICK f : Loop(n - 1, f)
    BY <1>2
  <2> DEFINE g == [k \in 0..n |-> IF k = n THEN AP!BestMatch(f[n - 1], scan[n], s) ELSE f[k]]
  <2>2. \A k \in 0..n : g[k] = IF k = 0 THEN AP!NoMatch ELSE AP!BestMatch(g[k - 1], scan[k], s)
    BY <2>1
  <2>3. Loop(n, g)
    BY <2>2
  <2> HIDE DEF g, Loop
  <2>4. QED
    BY <2>3
<1>3. 0..Len(scan) \subseteq S
  <2> HIDE DEF S
  <2>1. QED
    BY <1>1, <1>2, UpTo
<1>4. \E f : Loop(Len(scan), f)
  <2> HIDE DEF Loop
  <2>1. QED
    BY <1>3
<1>5. Loop(Len(scan), run)
  <2> HIDE DEF Loop
  <2>1. QED
    BY <1>4, Zenon
<1>6. /\ run[0] = AP!NoMatch
      /\ \A n \in 1..Len(scan) : run[n] = AP!BestMatch(run[n - 1], scan[n], s)
  <2>1. \A n \in 0..Len(scan) : run[n] = IF n = 0 THEN AP!NoMatch
                                         ELSE AP!BestMatch(run[n - 1], scan[n], s)
    BY <1>5
  <2>2. QED
    BY <2>1
<1>7. AP!matchAP(scan, s) = run[Len(scan)]
  BY DEF AP!matchAP
<1> HIDE DEF run
<1>8. QED
  BY <1>6, <1>7

(* The loop of WiFiNetworks, one access point after the other. *)
LEMMA ListRuns ==
  ASSUME NEW scan, Len(scan) \in Nat
  PROVE  \E g : /\ AP!WiFiNetworks(scan) = g[Len(scan)]
                /\ g[0] = [s \in AP!Visible(scan) |-> AP!NoRow]
                /\ \A n \in 1..Len(scan) : g[n] = AP!KeepStrongest(g[n - 1], scan[n])
<1> DEFINE Start == [s \in AP!Visible(scan) |-> AP!NoRow]
           Loop(N, f) == f = [n \in 0..N |-> IF n = 0 THEN Start
                                             ELSE AP!KeepStrongest(f[n - 1], scan[n])]
           S == {n \in 0..Len(scan) : \E f : Loop(n, f)}
           run == CHOOSE f : Loop(Len(scan), f)
<1>0. AP!WiFiNetworks(scan) = run[Len(scan)]
  BY DEF AP!WiFiNetworks
<1> HIDE DEF Start
<1>1. 0 \in S
  <2> DEFINE g == [n \in 0..0 |-> Start]
  <2>1. Loop(0, g)
    OBVIOUS
  <2> HIDE DEF g, Loop
  <2>2. QED
    BY <2>1
<1>2. ASSUME NEW n \in 1..Len(scan), n - 1 \in S
      PROVE  n \in S
  <2>1. PICK f : Loop(n - 1, f)
    BY <1>2
  <2> DEFINE g == [k \in 0..n |-> IF k = n THEN AP!KeepStrongest(f[n - 1], scan[n]) ELSE f[k]]
  <2>2. \A k \in 0..n : g[k] = IF k = 0 THEN Start ELSE AP!KeepStrongest(g[k - 1], scan[k])
    BY <2>1
  <2>3. Loop(n, g)
    BY <2>2
  <2> HIDE DEF g, Loop
  <2>4. QED
    BY <2>3
<1>3. 0..Len(scan) \subseteq S
  <2> HIDE DEF S
  <2>1. QED
    BY <1>1, <1>2, UpTo
<1>4. \E f : Loop(Len(scan), f)
  <2> HIDE DEF Loop
  <2>1. QED
    BY <1>3
<1>5. Loop(Len(scan), run)
  <2> HIDE DEF Loop
  <2>1. QED
    BY <1>4, Zenon
<1>6. \A n \in 0..Len(scan) : run[n] = IF n = 0 THEN Start
                                       ELSE AP!KeepStrongest(run[n - 1], scan[n])
  BY <1>5
<1> HIDE DEF run
<1>7. /\ run[0] = Start
      /\ \A n \in 1..Len(scan) : run[n] = AP!KeepStrongest(run[n - 1], scan[n])
  BY <1>6
<1>8. QED
  BY <1>0, <1>7 DEF Start

(* What the list says of a network's security and what a connect finds are *)
(* made of the flags of one access point of the scan, or of none.          *)
OneSource(security, best) ==
    \/ security = "" /\ best.secured = FALSE /\ best.keymgmt = ""
    \/ \E flags : /\ security = AP!apSecurity(flags)
                  /\ best.secured = AP!Secured(flags)
                  /\ best.keymgmt = AP!secKeyMgmt(flags)

SameSource(row, best) ==
    /\ row = [strength |-> row.strength, security |-> row.security,
              secured |-> row.secured, active |-> row.active]
    /\ row.strength = best.strength
    /\ OneSource(row.security, best)

(* One access point leaves it so. *)
LEMMA PointAgrees ==
    ASSUME NEW V, NEW list, list = [x \in V |-> list[x]], NEW s \in V, NEW best, NEW ap,
           SameSource(list[s], best), s # AP!Hidden
    PROVE  SameSource(AP!KeepStrongest(list, ap)[s], AP!BestMatch(best, ap, s))
<1>1. CASE ap.ssid # s
  <2>1. AP!KeepStrongest(list, ap)[s] = list[s]
    BY <1>1 DEF AP!KeepStrongest
  <2>2. AP!BestMatch(best, ap, s) = best
    BY <1>1 DEF AP!BestMatch
  <2>3. QED
    BY <2>1, <2>2
<1>2. CASE ap.ssid = s /\ ap.strength > list[s].strength
  <2>1. AP!KeepStrongest(list, ap)[s] =
            [strength |-> ap.strength, security |-> AP!apSecurity(ap.flags),
             secured |-> AP!Secured(ap.flags), active |-> ap.active \/ list[s].active]
    BY <1>2 DEF AP!KeepStrongest
  <2>2. AP!BestMatch(best, ap, s) =
            [strength |-> ap.strength, secured |-> AP!Secured(ap.flags),
             keymgmt |-> AP!secKeyMgmt(ap.flags)]
    BY <1>2 DEF AP!BestMatch, SameSource
  <2> DEFINE now == AP!KeepStrongest(list, ap)[s]
             match == AP!BestMatch(best, ap, s)
  <2>3. OneSource(now.security, match)
    <3>1. /\ now.security = AP!apSecurity(ap.flags)
          /\ match.secured = AP!Secured(ap.flags)
          /\ match.keymgmt = AP!secKeyMgmt(ap.flags)
      BY <2>1, <2>2
    <3> HIDE DEF now, match
    <3>2. QED
      BY <3>1, Zenon DEF OneSource
  <2>4. QED
    BY <2>1, <2>2, <2>3 DEF SameSource
<1>3. CASE ap.ssid = s /\ ~(ap.strength > list[s].strength)
  <2>1. AP!KeepStrongest(list, ap)[s] = [list[s] EXCEPT !.active = @ \/ ap.active]
    BY <1>3 DEF AP!KeepStrongest
  <2>2. AP!BestMatch(best, ap, s) = best
    BY <1>3 DEF AP!BestMatch, SameSource
  <2>3. DOMAIN list[s] = {"strength", "security", "secured", "active"}
    BY DEF SameSource
  <2> DEFINE row == list[s]
             new == AP!KeepStrongest(list, ap)[s]
  <2>4. /\ new.strength = row.strength /\ new.security = row.security
        /\ new = [strength |-> new.strength, security |-> new.security,
                  secured |-> new.secured, active |-> new.active]
    BY <2>1, <2>3
  <2> HIDE DEF new
  <2>5. QED
    BY <2>2, <2>4 DEF SameSource, new
<1>4. QED
  BY <1>1, <1>2, <1>3

(* So does the whole scan. *)
LEMMA ScanAgrees ==
    ASSUME NEW scan \in Scan, NEW s \in Ssid
    PROVE  \/ /\ s \in DOMAIN AP!WiFiNetworks(scan)
              /\ SameSource(AP!WiFiNetworks(scan)[s], AP!matchAP(scan, s))
           \/ /\ s \notin DOMAIN AP!WiFiNetworks(scan)
              /\ AP!matchAP(scan, s) = AP!NoMatch
<1>1. Len(scan) \in Nat /\ DOMAIN scan = 1..Len(scan) /\ s # AP!Hidden
  BY ScanAssumption, SsidAssumption
<1>2. PICK f : /\ AP!matchAP(scan, s) = f[Len(scan)]
               /\ f[0] = AP!NoMatch
               /\ \A n \in 1..Len(scan) : f[n] = AP!BestMatch(f[n - 1], scan[n], s)
  BY <1>1, MatchRuns
<1>3. PICK g : /\ AP!WiFiNetworks(scan) = g[Len(scan)]
               /\ g[0] = [x \in AP!Visible(scan) |-> AP!NoRow]
               /\ \A n \in 1..Len(scan) : g[n] = AP!KeepStrongest(g[n - 1], scan[n])
  BY <1>1, ListRuns
<1> DEFINE V == AP!Visible(scan)
           Agree(n) == /\ g[n] = [x \in V |-> g[n][x]]
                       /\ s \in V => SameSource(g[n][s], f[n])
                       /\ s \notin V => f[n] = AP!NoMatch
           S == {n \in 0..Len(scan) : Agree(n)}
<1> HIDE DEF V
<1>4. 0 \in S
  <2>1. g[0] = [x \in V |-> AP!NoRow]
    BY <1>3 DEF V
  <2>2. SameSource(AP!NoRow, AP!NoMatch)
    BY DEF SameSource, OneSource, AP!NoRow, AP!NoMatch
  <2>3. QED
    BY <1>1, <1>2, <2>1, <2>2
<1>5. ASSUME NEW n \in 1..Len(scan), n - 1 \in S
      PROVE  n \in S
  <2>1. /\ g[n - 1] = [x \in V |-> g[n - 1][x]]
        /\ s \in V => SameSource(g[n - 1][s], f[n - 1])
        /\ s \notin V => f[n - 1] = AP!NoMatch
    BY <1>5
  <2>2. /\ g[n] = AP!KeepStrongest(g[n - 1], scan[n])
        /\ f[n] = AP!BestMatch(f[n - 1], scan[n], s)
    BY <1>2, <1>3
  <2>3. g[n] = [x \in V |-> g[n][x]]
    BY <2>1, <2>2 DEF AP!KeepStrongest
  <2>4. s \in V => SameSource(g[n][s], f[n])
    BY <1>1, <2>1, <2>2, PointAgrees
  <2>5. s \notin V => f[n] = AP!NoMatch
    BY <1>1, <2>1, <2>2 DEF V, AP!Visible, AP!BestMatch
  <2>6. QED
    BY <1>1, <2>3, <2>4, <2>5
<1>6. Agree(Len(scan))
  <2>1. 0..Len(scan) \subseteq S
    <3> HIDE DEF S
    <3>1. QED
      BY <1>1, <1>4, <1>5, UpTo
  <2> HIDE DEF Agree
  <2>2. QED
    BY <1>1, <2>1
<1>7. DOMAIN AP!WiFiNetworks(scan) = V
  BY <1>3, <1>6
<1>8. QED
  BY <1>2, <1>3, <1>6, <1>7

(* So the list and the connect make the same of every scan. *)
LEMMA ListAndConnectAgree == ScansAgree
<1> DEFINE Agreed(shown, best) ==
               /\ shown \in AP!Unsupported => best.secured /\ best.keymgmt = ""
               /\ shown \in {"WPA", "WPA2", "WPA3"} =>
                      best.secured /\ best.keymgmt \in {"sae", "wpa-psk"}
               /\ shown \in {"Open", "OWE", ""} => ~best.secured
<1>1. ASSUME NEW shown, NEW best, OneSource(shown, best)
      PROVE  Agreed(shown, best)
  <2>1. CASE shown = "" /\ best.secured = FALSE
    BY <2>1 DEF AP!Unsupported
  <2>2. ASSUME NEW flags, shown = AP!apSecurity(flags), best.secured = AP!Secured(flags),
               best.keymgmt = AP!secKeyMgmt(flags)
        PROVE  Agreed(shown, best)
    BY <2>2 DEF AP!Unsupported, AP!apSecurity, AP!Secured, AP!secKeyMgmt
  <2>3. QED
    BY <1>1, <2>1, <2>2 DEF OneSource
<1>2. ASSUME NEW s \in Ssid, NEW scan \in Scan
      PROVE  OneSource(Shown(scan, s), AP!matchAP(scan, s))
  <2>1. CASE /\ s \in DOMAIN AP!WiFiNetworks(scan)
             /\ SameSource(AP!WiFiNetworks(scan)[s], AP!matchAP(scan, s))
    BY <2>1 DEF Shown, SameSource
  <2>2. CASE /\ s \notin DOMAIN AP!WiFiNetworks(scan)
             /\ AP!matchAP(scan, s) = AP!NoMatch
    <3>1. AP!NoMatch.secured = FALSE /\ AP!NoMatch.keymgmt = ""
      BY DEF AP!NoMatch
    <3>2. Shown(scan, s) = ""
      BY <2>2 DEF Shown
    <3>3. QED
      BY <2>2, <3>1, <3>2 DEF OneSource
  <2>3. QED
    BY <1>2, <2>1, <2>2, ScanAgrees, Zenon
<1> HIDE DEF Agreed
<1>3. ASSUME NEW s \in Ssid, Trim[s] = s, NEW v \in Views[s]
      PROVE  Agreed(v.seen, v.best)
  <2>1. PICK scan \in Scan : v = [seen |-> Shown(scan, s), best |-> AP!matchAP(scan, s)]
    BY <1>3 DEF Views
  <2>2. v.seen = Shown(scan, s) /\ v.best = AP!matchAP(scan, s)
    BY <2>1
  <2>3. QED
    BY <1>1, <1>2, <2>2
<1>4. QED
  BY <1>3 DEF ScansAgree, Agreed

(* A click and its audit rows go on as JoinInv says. *)
JoinAt(q) ==
    /\ click[q].pc = "idle" => click[q].profile = None /\ <<"wifi_connect", q>> \notin rows
    /\ ClickAt(q, "add", "connect") /\ click[q].exact => click[q].seen \notin AP!Unsupported
    /\ click[q].kind = "connect" =>
        LET c == click[q] IN
        /\ c.exact =>
            /\ c.seen \in AP!Unsupported => c.profile = None /\ <<"wifi_connect", q>> \notin rows
            /\ c.seen \in {"WPA", "WPA2", "WPA3"} => c.keymgmt \in {"sae", "wpa-psk"}
            /\ c.seen \in {"Open", "OWE", ""} => c.keymgmt = "open"
        /\ <<"wifi_connect", q>> \in rows => c.profile # None

LEMMA JoinParts == JoinInv <=> TypesInv /\ \A q \in Click : JoinAt(q)
  BY DEF JoinInv, TypesInv, RefusedInTime, JoinAsListed, JoinAt

LEMMA JoinNext ==
    ASSUME TypesInv', \A q \in Click : JoinAt(q)'
    PROVE  JoinInv'
  BY DEF JoinInv, TypesInv, RefusedInTime, JoinAsListed, JoinAt

(* A step of click q leaves the others alone. *)
LEMMA OthersJoin ==
    ASSUME JoinInv, NEW q \in Click, NEW t, click' = [click EXCEPT ![q] = t],
           NEW kind, Row(kind, q) \/ UNCHANGED rows
    PROVE  \A c \in Click \ {q} : JoinAt(c)'
<1> SUFFICES ASSUME NEW c \in Click \ {q} PROVE JoinAt(c)'
  OBVIOUS
<1>1. click'[c] = click[c]
  BY WiFiTyped, JoinParts DEF TypesInv, ClicksTyped
<1>2. <<"wifi_connect", c>> \in rows' <=> <<"wifi_connect", c>> \in rows
  BY DEF Row
<1>3. QED
  BY <1>1, <1>2, JoinParts DEF JoinAt, ClickAt

(* A click that is over, or about something else, stays as listed. *)
LEMMA OverJoins ==
    ASSUME JoinInv, NEW q \in Click, click'[q].pc # "idle", click'[q].pc # "add",
           \/ click'[q].kind # "connect"
           \/ /\ click[q].kind = "connect" /\ click'[q].profile = click[q].profile
              /\ click'[q].exact = click[q].exact /\ click'[q].seen = click[q].seen
              /\ click'[q].keymgmt = click[q].keymgmt
              /\ <<"wifi_connect", q>> \in rows' => <<"wifi_connect", q>> \in rows
    PROVE  JoinAt(q)'
  BY JoinParts DEF JoinAt, ClickAt

(* A connect takes the network as the list shows it. *)
LEMMA ConnectJoins ==
    ASSUME JoinInv, NEW q \in Click, NEW d \in Device, NEW s \in Ssid, Connect(q, d, s)
    PROVE  \A c \in Click : JoinAt(c)'
<1>1. /\ click \in [Click -> ClickRecord] /\ click[q].pc = "idle"
      /\ click[q].profile = None /\ <<"wifi_connect", q>> \notin rows
  BY WiFiTyped, JoinParts DEF TypesInv, ClicksTyped, JoinAt, Connect
<1>2. PICK v \in Views[s] :
          LET best == v.best
              refused == best.secured /\ best.keymgmt = ""
          IN  /\ click' = [click EXCEPT ![q] = [@ EXCEPT !.pc = IF refused THEN "done" ELSE "add",
                     !.kind = "connect", !.dev = wifiIface(d), !.ssid = Trim[s],
                         !.exact = Trim[s] = s, !.seen = v.seen,
                     !.keymgmt = IF best.secured THEN best.keymgmt ELSE "open"]]
              /\ IF refused THEN Row("wifi_connect_failed", q) ELSE UNCHANGED rows
  BY DEF Connect
<1> DEFINE refused == v.best.secured /\ v.best.keymgmt = ""
<1>3. Trim[s] = s =>
          /\ v.seen \in AP!Unsupported => refused
          /\ v.seen \in {"WPA", "WPA2", "WPA3"} =>
                 v.best.secured /\ v.best.keymgmt \in {"sae", "wpa-psk"}
          /\ v.seen \in {"Open", "OWE", ""} => ~v.best.secured
  BY ListAndConnectAgree DEF ScansAgree
<1>4. /\ click'[q].pc = IF refused THEN "done" ELSE "add"
      /\ click'[q].kind = "connect" /\ click'[q].seen = v.seen /\ click'[q].profile = None
      /\ click'[q].exact = (Trim[s] = s)
      /\ click'[q].keymgmt = IF v.best.secured THEN v.best.keymgmt ELSE "open"
  <2>1. click'[q] = [click[q] EXCEPT !.pc = IF refused THEN "done" ELSE "add",
                         !.kind = "connect", !.dev = wifiIface(d), !.ssid = Trim[s],
                         !.exact = Trim[s] = s, !.seen = v.seen,
                         !.keymgmt = IF v.best.secured THEN v.best.keymgmt ELSE "open"]
    BY <1>1, <1>2
  <2>2. DOMAIN click[q] = {"pc", "kind", "dev", "ssid", "profile", "exact", "seen", "keymgmt"}
    BY <1>1 DEF ClickRecord
  <2> HIDE DEF refused
  <2>3. QED
    BY <1>1, <2>1, <2>2
<1>5. Row("wifi_connect_failed", q) \/ UNCHANGED rows
  BY <1>2
<1>6. <<"wifi_connect", q>> \notin rows'
  BY <1>1, <1>5 DEF Row
<1>7. JoinAt(q)'
  <2> HIDE DEF refused
  <2>1. /\ click'[q].pc # "idle"
        /\ ClickAt(q, "add", "connect")' /\ click'[q].exact => click'[q].seen \notin AP!Unsupported
    BY <1>3, <1>4 DEF ClickAt
  <2>2. click'[q].exact =>
            /\ click'[q].seen \in {"WPA", "WPA2", "WPA3"} => click'[q].keymgmt \in {"sae", "wpa-psk"}
            /\ click'[q].seen \in {"Open", "OWE", ""} => click'[q].keymgmt = "open"
    BY <1>3, <1>4
  <2>3. QED
    BY <1>4, <1>6, <2>1, <2>2 DEF JoinAt
<1>8. \A c \in Click \ {q} : JoinAt(c)'
  BY <1>2, <1>5, OthersJoin
<1>9. QED
  BY <1>7, <1>8

(* Add joins what was not refused, and says so only when it did. *)
LEMMA AddJoins ==
    ASSUME JoinInv, NEW q \in Click, Add(q)
    PROVE  \A c \in Click : JoinAt(c)'
<1>1. /\ click \in [Click -> ClickRecord] /\ click[q] \in ClickRecord
      /\ click[q].exact => click[q].seen \notin AP!Unsupported
      /\ click[q].kind = "connect"
      /\ JoinAt(q)
  BY WiFiTyped, JoinParts DEF TypesInv, ClicksTyped, JoinAt, Add, ClickAt
<1>2. \/ \E p \in Profile :
             /\ click' = [click EXCEPT ![q].pc = "done", ![q].profile = p]
             /\ Row("wifi_connect", q) \/ Row("wifi_connect_failed", q)
      \/ /\ click' = [click EXCEPT ![q].pc = "done"]
         /\ Row("wifi_connect_failed", q)
  BY DEF Add, Answered
<1>3. \A c \in Click \ {q} : JoinAt(c)'
  <2>1. \E t : click' = [click EXCEPT ![q] = t]
    BY <1>1, <1>2
  <2>2. QED
    BY <1>2, <2>1, OthersJoin
<1>4. CASE \E p \in Profile : click' = [click EXCEPT ![q].pc = "done", ![q].profile = p]
  <2>1. PICK p \in Profile : click' = [click EXCEPT ![q].pc = "done", ![q].profile = p]
    BY <1>4
  <2>2. /\ click'[q].pc = "done" /\ click'[q].profile = p /\ p # None
        /\ click'[q].exact = click[q].exact /\ click'[q].seen = click[q].seen
        /\ click'[q].keymgmt = click[q].keymgmt
    BY <1>1, <2>1, NoneAssumption DEF ClickRecord
  <2>3. JoinAt(q)'
    BY <1>1, <2>2 DEF JoinAt, ClickAt
  <2>4. QED
    BY <1>3, <2>3
<1>5. CASE /\ click' = [click EXCEPT ![q].pc = "done"]
           /\ Row("wifi_connect_failed", q)
  <2>1. /\ click'[q].pc = "done" /\ click'[q].profile = click[q].profile
        /\ click'[q].exact = click[q].exact /\ click'[q].seen = click[q].seen
        /\ click'[q].keymgmt = click[q].keymgmt
    BY <1>1, <1>5 DEF ClickRecord
  <2>2. <<"wifi_connect", q>> \in rows' => <<"wifi_connect", q>> \in rows
    BY <1>5 DEF Row
  <2>3. JoinAt(q)'
    BY <1>1, <2>1, <2>2, OverJoins
  <2>4. QED
    BY <1>3, <2>3
<1>6. QED
  BY <1>2, <1>4, <1>5

(* Disconnecting and forgetting are not connecting. *)
LEMMA LeaveJoins ==
    ASSUME JoinInv, NEW q \in Click, NEW d, NEW s,
           Disconnect(q, d) \/ Forget(q, s) \/ Deactivate(q) \/ Delete(q)
    PROVE  \A c \in Click : JoinAt(c)'
<1>1. click \in [Click -> ClickRecord] /\ click[q] \in ClickRecord
  BY WiFiTyped, JoinParts DEF TypesInv, ClicksTyped
<1>2. PICK kind : Row(kind, q) \/ UNCHANGED rows
  BY DEF Disconnect, Forget, Deactivate, Delete
<1>3. PICK t : /\ click' = [click EXCEPT ![q] = t] /\ t.pc \in {"done", "deactivate", "delete"}
               /\ t.kind # "connect"
  <2>1. CASE Disconnect(q, d)
    <3> DEFINE t == [click[q] EXCEPT !.kind = "disconnect", !.dev = wifiIface(d),
                       !.pc = IF wifiIface(d) = None \/ active[wifiIface(d)] = None
                              THEN "done" ELSE "deactivate",
                       !.profile = IF wifiIface(d) = None THEN None ELSE active[wifiIface(d)]]
    <3>1. click' = [click EXCEPT ![q] = t]
      BY <2>1 DEF Disconnect
    <3>2. t.pc \in {"done", "deactivate", "delete"} /\ t.kind # "connect"
      BY <1>1 DEF ClickRecord
    <3> HIDE DEF t
    <3>3. QED
      BY <3>1, <3>2
  <2>2. CASE Forget(q, s)
    <3>1. PICK p : click' = [click EXCEPT ![q] = [@ EXCEPT !.kind = "forget", !.ssid = Trim[s],
                        !.pc = IF p = None THEN "done" ELSE "delete", !.profile = p]]
      BY <2>2 DEF Forget
    <3> DEFINE t == [click[q] EXCEPT !.kind = "forget", !.ssid = Trim[s],
                       !.pc = IF p = None THEN "done" ELSE "delete", !.profile = p]
    <3>2. click' = [click EXCEPT ![q] = t]
      BY <3>1
    <3>3. t.pc \in {"done", "deactivate", "delete"} /\ t.kind # "connect"
      BY <1>1 DEF ClickRecord
    <3> HIDE DEF t
    <3>4. QED
      BY <3>2, <3>3
  <2>3. CASE Deactivate(q) \/ Delete(q)
    BY <1>1, <2>3 DEF Deactivate, Delete, Answered, ClickAt, ClickRecord
  <2>4. QED
    BY <2>1, <2>2, <2>3
<1>4. click'[q] = t
  BY <1>1, <1>3
<1>5. JoinAt(q)'
  BY <1>3, <1>4, OverJoins
<1>6. \A c \in Click \ {q} : JoinAt(c)'
  BY <1>2, <1>3, OthersJoin
<1>7. QED
  BY <1>5, <1>6

LEMMA JoinStep == JoinInv /\ [WiFiNext]_allVars => JoinInv'
<1> SUFFICES ASSUME JoinInv, [WiFiNext]_allVars PROVE JoinInv'
  OBVIOUS
<1>1. TypesInv'
  BY TypesStep, JoinParts
<1>2. ASSUME UNCHANGED <<click, rows>> PROVE JoinInv'
  BY <1>1, <1>2, JoinParts, JoinNext DEF JoinAt, ClickAt
<1>3. ASSUME GatewayCrash PROVE JoinInv'
  <2> SUFFICES ASSUME NEW q \in Click PROVE JoinAt(q)'
    BY <1>1, JoinNext
  <2>1. click \in [Click -> ClickRecord] /\ click[q] \in ClickRecord
    BY WiFiTyped, JoinParts DEF TypesInv, ClicksTyped
  <2>2. /\ click'[q] = IF click[q].pc = "idle" THEN click[q] ELSE [click[q] EXCEPT !.pc = "done"]
        /\ UNCHANGED rows
    BY <1>3 DEF GatewayCrash
  <2>3. CASE click[q].pc = "idle"
    BY <2>2, <2>3, JoinParts DEF JoinAt, ClickAt
  <2>4. CASE click[q].pc # "idle"
    <3>1. /\ click'[q].pc = "done" /\ click'[q].kind = click[q].kind
          /\ click'[q].profile = click[q].profile
          /\ click'[q].exact = click[q].exact /\ click'[q].seen = click[q].seen
          /\ click'[q].keymgmt = click[q].keymgmt
      BY <2>1, <2>2, <2>4 DEF ClickRecord
    <3>2. QED
      BY <2>2, <3>1, OverJoins
  <2>5. QED
    BY <2>3, <2>4
<1>4. CASE UNCHANGED allVars
  BY <1>2, <1>4 DEF allVars, wifiVars
<1>5. ASSUME NEW q \in Click, NEW d \in Device, NEW s \in Ssid,
             Connect(q, d, s) \/ Disconnect(q, d) \/ Forget(q, s)
      PROVE  JoinInv'
  BY <1>1, <1>5, ConnectJoins, LeaveJoins, JoinNext
<1>6. ASSUME NEW q \in Click, Add(q) PROVE JoinInv'
  BY <1>1, <1>6, AddJoins, JoinNext
<1>7. ASSUME NEW q \in Click, Deactivate(q) \/ Delete(q) PROVE JoinInv'
  BY <1>1, <1>7, LeaveJoins, JoinNext
<1>8. ASSUME EditStep PROVE JoinInv'
  BY <1>2, <1>8 DEF EditStep
<1>9. ASSUME NEW d \in Station, NEW p \in Profile, AutoConnect(d, p) PROVE JoinInv'
  BY <1>2, <1>9 DEF AutoConnect, wifiVars
<1>10. ASSUME ProbeCreate \/ ProbeDestroy PROVE JoinInv'
  BY <1>2, <1>10 DEF ProbeCreate, ProbeDestroy
<1>11. QED
  BY <1>3, <1>4, <1>5, <1>6, <1>7, <1>8, <1>9, <1>10 DEF WiFiNext

LEMMA JoinInitial == WiFiInit => JoinInv
<1> SUFFICES ASSUME WiFiInit PROVE JoinInv
  OBVIOUS
<1>1. \A q \in Click : JoinAt(q)
  BY ClickAssumption DEF WiFiInit, Fresh, JoinAt, ClickAt, ClickKind
<1>2. QED
  BY <1>1, TypesInitial, JoinParts

(* A connect by a name without blanks at its ends makes of its scan what a *)
(* list of that scan shows, whatever the scan and whatever else goes on,   *)
(* on every number of stations; and no audit row tells of a join that made *)
(* no profile.                                                             *)
THEOREM JoinCorrect == WiFiSpec => []JoinAsListed
<1>1. WiFiInit => JoinInv
  BY JoinInitial
<1>2. JoinInv /\ [WiFiNext]_allVars => JoinInv'
  BY JoinStep
<1>3. JoinInv => JoinAsListed
  BY DEF JoinInv
<1>4. QED
  BY <1>1, <1>2, <1>3, PTL DEF WiFiSpec
=============================================================================
