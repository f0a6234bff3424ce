---------------------------- MODULE GatewayProofs ----------------------------
(***************************************************************************)
(* Proofs about the gateway's life, for any containers, requests, streams, *)
(* key pairs, crashes and failing writes.  About container actions: types, *)
(* that actions are over before a shutdown gives up, that a good shutdown  *)
(* leaves no action without its audit row, and the gateway's guard of its  *)
(* own container.  After that, about the pair of TLS files, the lines of a *)
(* log and the ticks of the dashboard.                                     *)
(***************************************************************************)
EXTENDS Gateway, Streams, SequenceTheorems, WellFoundedInduction, TLAPS

ContainersTyped ==
    /\ selfHost \in Seq(Nat) /\ running \in [Container -> BOOLEAN]
    /\ job \in [Request -> Job]
    /\ req \in [Request -> Handler]
    /\ rows \subseteq BOOLEAN \X Request

HandlerPc == {"idle", "sent", "record", "done", "dead"}
JobPc == {"none", "queued", "stopping", "done", "error"}

(* Jobs and handlers put together of parts of the right types, and what    *)
(* time leaves of a remaining time.                                        *)
LEMMA MinusInRange == \A m \in Nat : \A n \in 0..m : Minus(n) \in 0..m
  BY DEF Minus

LEMMA TimesInRange ==
    /\ 0 \in 0..ActionTimeout /\ ActionTimeout \in 0..ActionTimeout
    /\ 0 \in 0..Grace /\ Grace \in 0..Grace
    /\ ActionTimeout \in Nat /\ Grace \in Nat
  BY ContainersAssumption

LEMMA HandlerSet ==
    ASSUME NEW h \in Handler, NEW pc \in HandlerPc, NEW ok \in BOOLEAN, NEW n \in 0..ActionTimeout
    PROVE  /\ [h EXCEPT !.pc = pc, !.ok = ok, !.left = n] \in Handler
           /\ [h EXCEPT !.pc = pc, !.left = n] \in Handler
           /\ [h EXCEPT !.left = n] \in Handler
           /\ h.ok \in BOOLEAN /\ h.left \in 0..ActionTimeout
<1> DEFINE Left == 0..ActionTimeout
<1>1. n \in Left /\ Handler = [pc : HandlerPc, ok : BOOLEAN, left : Left]
  BY DEF Handler, HandlerPc
<1> HIDE DEF Left
<1>2. /\ [h EXCEPT !.pc = pc, !.ok = ok, !.left = n] \in Handler
      /\ [h EXCEPT !.pc = pc, !.left = n] \in Handler
      /\ [h EXCEPT !.left = n] \in Handler
      /\ h.ok \in BOOLEAN /\ h.left \in Left
  BY <1>1
<1> QED
  BY <1>2 DEF Left

LEMMA JobIsTyped == \A pc \in JobPc : JobIs(pc) \in Job
  BY TimesInRange DEF JobIs, Job, JobPc

LEMMA HandlerIsTyped == \A pc \in HandlerPc : HandlerIs(pc) \in Handler
  BY TimesInRange DEF HandlerIs, Handler, HandlerPc

(* Types, one lemma for each kind of step. *)
LEMMA ActTyped ==
    ASSUME ContainersTyped, NEW r \in Request, NEW verb \in Verb, NEW ref \in Ref, Act(r, verb, ref)
    PROVE  ContainersTyped'
<1>1. job' \in [Request -> Job]
  <2>1. [JobIs("queued") EXCEPT !.verb = verb, !.ref = ref] \in Job
    <3>1. JobIs("queued") \in Job
      BY JobIsTyped DEF JobPc
    <3> QED
      BY <3>1 DEF Job
  <2> QED
    BY <2>1 DEF Act, ContainersTyped
<1>2. req' \in [Request -> Handler]
  <2>1. /\ HandlerIs("sent") \in Handler /\ HandlerIs("done") \in Handler
        /\ HandlerIs("record") \in Handler
    BY HandlerIsTyped DEF HandlerPc
  <2>2. [HandlerIs("sent") EXCEPT !.left = ActionTimeout] \in Handler
    BY <2>1, TimesInRange, HandlerSet DEF HandlerPc
  <2> QED
    BY <2>1, <2>2 DEF Act, ContainersTyped
<1> QED
  BY <1>1, <1>2 DEF Act, ContainersTyped

LEMMA EngineTyped ==
    ASSUME ContainersTyped, NEW r \in Request, Engine(r)
    PROVE  ContainersTyped'
<1>1. JobIs("done") \in Job /\ JobIs("error") \in Job
  BY JobIsTyped DEF JobPc
<1>2. CASE Refuse(r)
  BY <1>1, <1>2 DEF Refuse, ContainersTyped
<1>3. CASE Take(r)
  <2>1. PICK c \in Named(job[r].ref) :
          LET stops == running[c] /\ job[r].verb # "start" IN
          /\ job' = [job EXCEPT ![r] =
                 IF stops THEN [@ EXCEPT !.pc = "stopping", !.target = c, !.left = Grace]
                 ELSE JobIs("done")]
          /\ running' = IF stops \/ job[r].verb = "stop" THEN running
                        ELSE [running EXCEPT ![c] = TRUE]
    BY <1>3 DEF Take
  <2>2. c \in Container
    BY DEF Named
  <2>3. [job[r] EXCEPT !.pc = "stopping", !.target = c, !.left = Grace] \in Job
    <3>1. job[r] \in Job /\ Grace \in 0..Grace
      BY TimesInRange DEF ContainersTyped
    <3> QED
      BY <2>2, <3>1 DEF Job
  <2> QED
    BY <1>1, <1>3, <2>1, <2>2, <2>3 DEF Take, ContainersTyped
<1>4. CASE Stopped(r)
  BY <1>1, <1>4 DEF Stopped, ContainersTyped
<1> QED
  BY <1>2, <1>3, <1>4 DEF Engine

LEMMA HandleTyped ==
    ASSUME ContainersTyped, NEW r \in Request, Handle(r)
    PROVE  ContainersTyped'
<1>1. req[r] \in Handler
  BY DEF ContainersTyped
<1>2. CASE Reply(r)
  <2>1. [req[r] EXCEPT !.pc = "record", !.ok = JobAt(r, "done"), !.left = 0] \in Handler
    BY <1>1, TimesInRange, HandlerSet DEF HandlerPc, JobAt
  <2> QED
    BY <1>2, <2>1 DEF Reply, ContainersTyped
<1>3. CASE GiveUp(r)
  <2>1. [req[r] EXCEPT !.pc = "record", !.left = 0] \in Handler
    BY <1>1, TimesInRange, HandlerSet DEF HandlerPc
  <2> QED
    BY <1>3, <2>1 DEF GiveUp, ContainersTyped
<1>4. CASE Record(r)
  <2>1. req[r].ok \in BOOLEAN /\ HandlerIs("done") \in Handler
    BY <1>1, HandlerIsTyped DEF Handler, HandlerPc
  <2> QED
    BY <1>4, <2>1 DEF Record, ContainersTyped
<1> QED
  BY <1>2, <1>3, <1>4 DEF Handle

LEMMA AgeTyped ==
    ASSUME ContainersTyped, Age, UNCHANGED <<selfHost, running, rows>>
    PROVE  ContainersTyped'
<1>1. \A r \in Request : [req[r] EXCEPT !.left = Minus(@)] \in Handler
  <2> SUFFICES ASSUME NEW r \in Request PROVE [req[r] EXCEPT !.left = Minus(@)] \in Handler
    OBVIOUS
  <2>1. req[r] \in Handler /\ TRUE \in BOOLEAN /\ "idle" \in HandlerPc
    BY DEF ContainersTyped, HandlerPc
  <2>2. req[r].left \in 0..ActionTimeout
    BY <2>1, TimesInRange, HandlerSet
  <2>3. Minus(req[r].left) \in 0..ActionTimeout
    BY <2>2, TimesInRange, MinusInRange
  <2> QED
    BY <2>1, <2>3, HandlerSet
<1>2. \A r \in Request : [job[r] EXCEPT !.left = Minus(@)] \in Job
  <2> SUFFICES ASSUME NEW r \in Request PROVE [job[r] EXCEPT !.left = Minus(@)] \in Job
    OBVIOUS
  <2>1. job[r] \in Job
    BY DEF ContainersTyped
  <2>2. job[r].left \in 0..Grace
    BY <2>1 DEF Job
  <2>3. Minus(job[r].left) \in 0..Grace
    BY <2>2, TimesInRange, MinusInRange
  <2> DEFINE n == Minus(job[r].left)
  <2> HIDE DEF n
  <2>4. [job[r] EXCEPT !.left = n] \in Job
    BY <2>1, <2>3 DEF Job, n
  <2> QED
    BY <2>4 DEF n
<1> QED
  BY <1>1, <1>2 DEF Age, ContainersTyped

LEMMA GoneTyped ==
    ASSUME ContainersTyped, NEW status, Gone(status), UNCHANGED <<selfHost, running, job, rows>>
    PROVE  ContainersTyped'
<1>1. HandlerIs("dead") \in Handler
  BY HandlerIsTyped DEF HandlerPc
<1> QED
  BY <1>1 DEF Gone, ContainersTyped

----------------------------------------------------------------------------
(* What the gateway's own state may be; a handler works only while the     *)
(* server does.                                                            *)
MainTyped ==
    /\ proc \in Proc /\ exit \in {None, 0, 1} /\ left \in 0..Drain
    /\ stream \in [Stream -> {"none", "open", "done"}]
    /\ {cert, key} \subseteq Pair \cup {Absent, Half}
    /\ making \in Pair \cup {None} /\ served \in Pair \cup {None}
    /\ torn \in BOOLEAN /\ touched \in BOOLEAN
    /\ proc \in {"certopen", "key", "keyopen", "cert"} => making \in Pair

WorksServed == \A r \in Request : At(r, "sent") \/ At(r, "record") => proc \in {"serve", "drain"}

(* An action that reached the engine has a handler to report it, or died   *)
(* with one, or is on record; no exit status while the process runs.       *)
Recorded ==
    \A r \in Request : job[r].pc # "none" =>
        At(r, "sent") \/ At(r, "record") \/ At(r, "dead") \/ \E ok \in BOOLEAN : <<ok, r>> \in rows

RunningHasNoExit == proc # "down" => exit = None

(* Whoever waits for the engine stops waiting before Shutdown does. *)
DrainInTime ==
    proc = "drain" => /\ \A r \in Request : At(r, "sent") => req[r].left < left
                      /\ left = 0 => Quiet

(* The inductive invariant of actions and shutdown. *)
LifeInv ==
    /\ ContainersTyped
    /\ MainTyped
    /\ WorksServed
    /\ Recorded
    /\ RunningHasNoExit
    /\ DrainInTime

LEMMA InitLife == Init => LifeInv
<1> SUFFICES ASSUME Init PROVE LifeInv
    OBVIOUS
<1>1. ContainersTyped
  <2>1. JobIs("none") \in Job /\ HandlerIs("idle") \in Handler
    BY JobIsTyped, HandlerIsTyped DEF JobPc, HandlerPc
  <2> QED
    BY <2>1, MountinfoAssumption DEF Init, ContainersInit, ContainersTyped
<1>2. MainTyped
  <2>1. left \in 0..Drain /\ exit \in {None, 0, 1}
    BY GatewayAssumption DEF Init
  <2> QED
    BY <2>1 DEF Init, MainTyped, Proc
<1>3. WorksServed /\ Recorded
  BY DEF Init, ContainersInit, WorksServed, Recorded, At, HandlerIs, JobIs
<1>4. RunningHasNoExit /\ DrainInTime
  BY DEF Init, RunningHasNoExit, DrainInTime
<1> QED
  BY <1>1, <1>2, <1>3, <1>4 DEF LifeInv

(* What the steps of one request do to the others: nothing. *)
OneRequest(r) ==
    \A q \in Request \ {r} : req'[q] = req[q] /\ job'[q] = job[q]

LEMMA RequestSteps ==
    ASSUME ContainersTyped, NEW r \in Request,
           (\E verb \in Verb, ref \in Ref : Act(r, verb, ref)) \/ Engine(r) \/ Handle(r)
    PROVE  OneRequest(r) /\ rows \subseteq rows'
  BY DEF ContainersTyped, OneRequest, Act, Engine, Refuse, Take, Stopped,
         Handle, Reply, GiveUp, Record

LEMMA ActLife ==
    ASSUME LifeInv, NEW r \in Request, NEW verb \in Verb, NEW ref \in Ref,
           ActOnContainer(r, verb, ref)
    PROVE  LifeInv'
<1> USE DEF LifeInv
<1>1. ContainersTyped /\ Act(r, verb, ref) /\ proc = "serve"
  BY DEF ActOnContainer
<1>2. ContainersTyped'
  BY <1>1, ActTyped
<1>3. OneRequest(r) /\ UNCHANGED rows
  BY <1>1, RequestSteps DEF Act
<1>4. /\ req'[r].pc \in {"sent", "record"} \/ (req'[r].pc = "done" /\ job'[r] = job[r])
      /\ req[r].pc = "idle"
  BY <1>1 DEF Act, ContainersTyped, At, HandlerIs
<1>5. MainTyped' /\ RunningHasNoExit' /\ DrainInTime' /\ WorksServed'
  BY <1>1 DEF ActOnContainer, gatewayVars, mainVars, filesVars, histVars, MainTyped,
     RunningHasNoExit, DrainInTime, WorksServed
<1>6. Recorded'
  BY <1>3, <1>4 DEF Recorded, OneRequest, At
<1> QED
  BY <1>2, <1>5, <1>6

LEMMA StepLife ==
    ASSUME LifeInv, NEW r \in Request, Step(r)
    PROVE  LifeInv'
<1> USE DEF LifeInv
<1>1. ContainersTyped /\ (Engine(r) \/ Handle(r))
  BY DEF Step
<1>2. ContainersTyped'
  BY <1>1, EngineTyped, HandleTyped
<1>3. OneRequest(r) /\ rows \subseteq rows'
  BY <1>1, RequestSteps
<1>4. MainTyped' /\ RunningHasNoExit' /\ UNCHANGED <<proc, left>>
  BY DEF Step, gatewayVars, mainVars, filesVars, histVars, MainTyped, RunningHasNoExit
<1>5. CASE Engine(r)
  <2>1. UNCHANGED req /\ UNCHANGED rows /\ job[r].pc # "none"
    BY <1>5 DEF Engine, Refuse, Take, Stopped, JobAt
  <2>2. WorksServed' /\ DrainInTime'
    BY <1>4, <2>1 DEF WorksServed, DrainInTime, Quiet, At
  <2>3. Recorded'
    BY <1>3, <2>1 DEF Recorded, OneRequest, At
  <2> QED
    BY <1>2, <1>4, <2>2, <2>3
<1>6. CASE Handle(r)
  <2>1. /\ UNCHANGED job
        /\ \/ req[r].pc = "sent" /\ req'[r].pc = "record"
           \/ /\ req[r].pc = "record" /\ req'[r].pc = "done"
              /\ req[r].ok \in BOOLEAN /\ <<req[r].ok, r>> \in rows'
    <3>1. req[r] \in Handler /\ req[r].ok \in BOOLEAN
      BY DEF ContainersTyped, Handler
    <3>2. CASE Reply(r) \/ GiveUp(r)
      <4> DEFINE ok == JobAt(r, "done")
      <4> HIDE DEF ok
      <4>1. /\ [req[r] EXCEPT !.pc = "record", !.ok = ok, !.left = 0].pc = "record"
            /\ [req[r] EXCEPT !.pc = "record", !.left = 0].pc = "record"
        BY <3>1 DEF Handler
      <4>2. req'[r].pc = "record"
        BY <3>2, <4>1 DEF Reply, GiveUp, ContainersTyped, ok
      <4> QED
        BY <3>2, <4>2 DEF Reply, GiveUp, At
    <3>3. CASE Record(r)
      BY <3>1, <3>3 DEF Record, At, HandlerIs, ContainersTyped
    <3> QED
      BY <1>6, <3>2, <3>3 DEF Handle
  <2>2. WorksServed'
    BY <1>3, <1>4, <2>1 DEF WorksServed, OneRequest, At
  <2>3. DrainInTime'
    BY <1>3, <1>4, <2>1 DEF DrainInTime, OneRequest, At, Quiet
  <2>4. Recorded'
    BY <1>3, <2>1 DEF Recorded, OneRequest, At
  <2> QED
    BY <1>2, <1>4, <2>2, <2>3, <2>4
<1> QED
  BY <1>1, <1>5, <1>6

(* Steps of main before it drains. *)
LEMMA MainLife ==
    ASSUME LifeInv, UNCHANGED containerVars, MainTyped', exit' = exit,
           proc' \notin {"down", "drain"}, proc # "down",
           proc = "serve" => proc' = "serve", proc # "drain"
    PROVE  LifeInv'
<1> USE DEF LifeInv, containerVars
<1>1. ContainersTyped'
  BY DEF ContainersTyped
<1>2. WorksServed' /\ Recorded' /\ RunningHasNoExit' /\ DrainInTime'
  BY DEF WorksServed, Recorded, RunningHasNoExit, DrainInTime, At
<1> QED
  BY <1>1, <1>2

LEMMA GoneLife ==
    ASSUME LifeInv, NEW status \in {None, 0, 1}, Gone(status),
           UNCHANGED <<selfHost, running, job, rows>>, MainTyped'
    PROVE  LifeInv'
<1> USE DEF LifeInv
<1>1. ContainersTyped'
  BY GoneTyped
<1>2. \A r \in Request : req'[r] = IF req[r].pc \in {"idle", "done"} THEN req[r]
                                   ELSE HandlerIs("dead")
  BY DEF Gone
<1>3. WorksServed'
  BY <1>2 DEF WorksServed, At, HandlerIs
<1>4. Recorded'
  BY <1>2 DEF Recorded, At, HandlerIs
<1>5. RunningHasNoExit' /\ DrainInTime'
  BY DEF Gone, RunningHasNoExit, DrainInTime
<1> QED
  BY <1>1, <1>3, <1>4, <1>5

LEMMA SignalLife ==
    ASSUME LifeInv, Signal
    PROVE  LifeInv'
<1> USE DEF LifeInv, Signal, containerVars
<1>1. ContainersTyped'
  BY DEF ContainersTyped
<1>2. MainTyped'
  BY GatewayAssumption DEF MainTyped, filesVars, histVars, Proc
<1>3. WorksServed' /\ Recorded' /\ RunningHasNoExit'
  BY DEF WorksServed, Recorded, RunningHasNoExit, At
<1>4. DrainInTime'
  <2>1. \A r \in Request : req[r].left \in 0..ActionTimeout
    BY DEF ContainersTyped, Handler
  <2>2. \A r \in Request : req[r].left < Drain
    BY <2>1, GatewayAssumption, TimesInRange
  <2> QED
    BY <2>2, GatewayAssumption, TimesInRange DEF DrainInTime
<1> QED
  BY <1>1, <1>2, <1>3, <1>4

LEMMA TickLife ==
    ASSUME LifeInv, Tick
    PROVE  LifeInv'
<1> USE DEF LifeInv
<1>1. ContainersTyped'
  BY AgeTyped DEF Tick
<1>2. MainTyped'
  <2>1. left' \in 0..Drain
    BY MinusInRange, GatewayAssumption DEF Tick, MainTyped
  <2> QED
    BY <2>1 DEF Tick, MainTyped, filesVars, histVars
<1>3. \A r \in Request : /\ req'[r] = [req[r] EXCEPT !.left = Minus(@)]
                         /\ job'[r] = [job[r] EXCEPT !.left = Minus(@)]
                         /\ req[r] \in Handler /\ job[r] \in Job
  BY DEF Tick, Age, ContainersTyped
<1>4. \A r \in Request : /\ req'[r].pc = req[r].pc /\ req'[r].left = Minus(req[r].left)
                         /\ job'[r].pc = job[r].pc
                         /\ req[r].left \in 0..ActionTimeout
  BY <1>3 DEF Handler, Job
<1>5. WorksServed' /\ Recorded' /\ RunningHasNoExit'
  BY <1>4 DEF Tick, WorksServed, Recorded, RunningHasNoExit, At
<1>6. ASSUME proc = "drain" PROVE DrainInTime'
  <2>1. left > 0 /\ left' = left - 1 /\ left \in Nat
    BY <1>6, GatewayAssumption DEF Tick, MainTyped, Minus
  <2>2. \A r \in Request : At(r, "sent") => /\ req'[r].left < left' /\ req'[r].left \in Nat
    <3> SUFFICES ASSUME NEW r \in Request, At(r, "sent")
                 PROVE  req'[r].left < left' /\ req'[r].left \in Nat
      OBVIOUS
    <3>1. req[r].left > 0 /\ req[r].left < left /\ req[r].left \in Nat
      BY <1>4, <1>6, TimesInRange DEF Tick, TimeMayPass, DrainInTime
    <3>2. req'[r].left = req[r].left - 1
      BY <1>4, <3>1 DEF Minus
    <3> QED
      BY <2>1, <3>1, <3>2
  <2>3. left' = 0 => \A r \in Request : ~At(r, "sent")
    BY <2>1, <2>2
  <2>4. \A r \in Request : ~At(r, "record") /\ req[r].pc \in HandlerPc
    BY <1>3 DEF Tick, TimeMayPass, Handler, HandlerPc
  <2>5. left' = 0 => Quiet'
    BY <1>4, <2>3, <2>4 DEF Quiet, At, HandlerPc
  <2>6. \A r \in Request : At(r, "sent")' => req'[r].left < left'
    BY <1>4, <2>2 DEF At
  <2> QED
    BY <2>5, <2>6 DEF DrainInTime
<1>7. DrainInTime'
  BY <1>6 DEF DrainInTime, Tick
<1> QED
  BY <1>1, <1>2, <1>5, <1>7

LEMMA NextLife == LifeInv /\ [Next]_allVars => LifeInv'
<1> SUFFICES ASSUME LifeInv, [Next]_allVars PROVE LifeInv'
    OBVIOUS
<1>1. MainTyped /\ RunningHasNoExit
  BY DEF LifeInv
<1> USE GatewayAssumption
<1>2. CASE Boot
  <2>1. MainTyped'
    BY <1>1, <1>2 DEF Boot, MainTyped, Proc, histVars
  <2>2. ContainersTyped' /\ WorksServed' /\ Recorded' /\ RunningHasNoExit' /\ DrainInTime'
    BY <1>2 DEF Boot, LifeInv, containerVars, ContainersTyped, WorksServed, Recorded,
       RunningHasNoExit, DrainInTime, At
  <2> QED
    BY <2>1, <2>2 DEF LifeInv
<1>3. CASE OpenCert
  <2>1. MainTyped'
    BY <1>1, <1>3 DEF OpenCert, MainTyped, Proc, histVars
  <2> QED
    BY <1>3, <2>1, MainLife DEF OpenCert
<1>4. CASE WriteCert
  <2>1. MainTyped'
    BY <1>1, <1>4 DEF WriteCert, MainTyped, Proc, histVars
  <2> QED
    BY <1>4, <2>1, MainLife DEF WriteCert
<1>5. CASE OpenKey
  <2>1. MainTyped'
    BY <1>1, <1>5 DEF OpenKey, MainTyped, Proc, histVars
  <2> QED
    BY <1>5, <2>1, MainLife DEF OpenKey
<1>6. CASE WriteKey
  <2>1. MainTyped'
    BY <1>1, <1>6 DEF WriteKey, MainTyped, Proc, histVars
  <2> QED
    BY <1>6, <2>1, MainLife DEF WriteKey
<1>7. CASE Listen
  <2>1. MainTyped'
    BY <1>1, <1>7 DEF Listen, MainTyped, Proc
  <2> QED
    BY <1>7, <2>1, MainLife DEF Listen
<1>8. CASE Bring
  <2>1. MainTyped'
    BY <1>1, <1>8 DEF Bring, MainTyped, mainVars
  <2>2. ContainersTyped' /\ WorksServed' /\ Recorded' /\ RunningHasNoExit' /\ DrainInTime'
    BY <1>8 DEF Bring, LifeInv, containerVars, mainVars, ContainersTyped, WorksServed,
       Recorded, RunningHasNoExit, DrainInTime, At, Quiet
  <2> QED
    BY <2>1, <2>2 DEF LifeInv
<1>9. CASE \E r \in Request, verb \in Verb, ref \in Ref : ActOnContainer(r, verb, ref)
  BY <1>9, ActLife
<1>10. CASE \E r \in Request : Step(r)
  BY <1>10, StepLife
<1>11. CASE \E s \in Stream : Open(s) \/ End(s)
  <2>1. /\ UNCHANGED <<containerVars, mainVars, filesVars, histVars>>
        /\ stream' \in [Stream -> {"none", "open", "done"}]
    BY <1>1, <1>11 DEF Open, End, MainTyped
  <2>2. ContainersTyped' /\ WorksServed' /\ Recorded' /\ RunningHasNoExit' /\ DrainInTime'
    BY <2>1 DEF LifeInv, containerVars, mainVars, ContainersTyped, WorksServed,
       Recorded, RunningHasNoExit, DrainInTime, At, Quiet
  <2> QED
    BY <1>1, <2>1, <2>2 DEF LifeInv, MainTyped, mainVars, filesVars, histVars
<1>12. CASE Signal
  BY <1>12, SignalLife
<1>13. CASE Tick
  BY <1>13, TickLife
<1>14. CASE WriteFails \/ ListenFails \/ Exit \/ ExitLate \/ Crash
  <2>1. \E status \in {None, 0, 1} : Gone(status)
    BY <1>14 DEF WriteFails, ListenFails, Exit, ExitLate, Crash
  <2>2. UNCHANGED <<selfHost, running, job, rows, cert, key, served, touched>>
    BY <1>14 DEF WriteFails, ListenFails, Exit, ExitLate, Crash, histVars
  <2>3. torn' \in BOOLEAN
    BY <1>1, <1>14 DEF WriteFails, ListenFails, Exit, ExitLate, Crash, histVars, MainTyped
  <2>4. MainTyped'
    BY <1>1, <2>1, <2>2, <2>3 DEF Gone, MainTyped, Proc
  <2> QED
    BY <2>1, <2>2, <2>4, GoneLife
<1>15. CASE UNCHANGED allVars
  <2>1. ContainersTyped' /\ WorksServed' /\ Recorded' /\ RunningHasNoExit' /\ DrainInTime'
    BY <1>15 DEF LifeInv, allVars, gatewayVars, containerVars, mainVars, ContainersTyped,
       WorksServed, Recorded, RunningHasNoExit, DrainInTime, At, Quiet
  <2> QED
    BY <1>1, <1>15, <2>1 DEF LifeInv, MainTyped, allVars, gatewayVars, mainVars, filesVars, histVars
<1> QED
  BY <1>2, <1>3, <1>4, <1>5, <1>6, <1>7, <1>8, <1>9, <1>10, <1>11, <1>12, <1>13, <1>14,
     <1>15 DEF Next

THEOREM LifeCorrect == Spec => []LifeInv
  BY InitLife, NextLife, PTL DEF Spec

(* Every variable of the gateway's life keeps its type. *)
THEOREM GatewayTyped == Spec => []TypeOK
<1>1. LifeInv => TypeOK
  BY DEF LifeInv, ContainersTyped, MainTyped, WorksServed, TypeOK
<1> QED
  BY <1>1, LifeCorrect, PTL

(* Shutdown: the client's timeout ends every action before Shutdown's own  *)
(* timeout, however long the engine takes.                                 *)
THEOREM ShutdownWaitsForActions == Spec => []OnlyStreamsFailShutdown
<1>1. LifeInv => OnlyStreamsFailShutdown
  BY DEF LifeInv, DrainInTime, OnlyStreamsFailShutdown
<1> QED
  BY <1>1, LifeCorrect, PTL

(* Shutdown: when it returns nil, every action that reached the engine has *)
(* its row, or its handler died in an earlier crash.                       *)
THEOREM RecordsCorrect == Spec => CleanExitHasRecords
<1>1. LifeInv /\ [Next]_allVars =>
        (proc = "drain" /\ exit' = 0 =>
            \A r \in Request : job[r].pc = "none" \/ At(r, "dead") \/
                \E ok \in BOOLEAN : <<ok, r>> \in rows)
  <2> SUFFICES ASSUME LifeInv, [Next]_allVars, proc = "drain", exit' = 0
               PROVE  \A r \in Request : job[r].pc = "none" \/ At(r, "dead") \/
                          \E ok \in BOOLEAN : <<ok, r>> \in rows
    OBVIOUS
  <2>1. exit' # exit /\ None \notin {0, 1}
    BY GatewayAssumption DEF LifeInv, RunningHasNoExit
  <2>2. Exit
    <3>1. ~Boot /\ ~OpenCert /\ ~WriteCert /\ ~OpenKey /\ ~WriteKey /\ ~WriteFails
          /\ ~Listen /\ ~ListenFails /\ ~Bring /\ ~Signal
      BY DEF Boot, OpenCert, WriteCert, OpenKey, WriteKey, WriteFails, Listen, ListenFails,
         Bring, Signal
    <3>2. ~ExitLate /\ ~Crash
      BY <2>1 DEF ExitLate, Crash, Gone
    <3>3. ~Tick /\ ~UNCHANGED allVars
      BY <2>1 DEF Tick, allVars, gatewayVars, mainVars
    <3>4. ~\E r \in Request, verb \in Verb, ref \in Ref : ActOnContainer(r, verb, ref)
      BY DEF ActOnContainer
    <3>5. ~\E r \in Request : Step(r)
      BY <2>1 DEF Step, gatewayVars, mainVars
    <3>6. ~\E s \in Stream : Open(s) \/ End(s)
      BY <2>1 DEF Open, End, mainVars
    <3> QED
      BY <3>1, <3>2, <3>3, <3>4, <3>5, <3>6 DEF Next
  <2> QED
    BY <2>2 DEF LifeInv, Recorded, Exit, Quiet, At
<1> QED
  BY <1>1, LifeCorrect, PTL DEF Spec, CleanExitHasRecords

----------------------------------------------------------------------------
(* Two names of one container: one is a prefix of the other. *)
LEMMA PrefixesComparable ==
    ASSUME NEW s \in Seq(Nat), NEW a \in Seq(Nat), NEW b \in Seq(Nat),
           IsPrefix(a, s), IsPrefix(b, s)
    PROVE  IsPrefix(a, b) \/ IsPrefix(b, a)
  BY DEF IsPrefix

(* The inductive invariant of the guard: what the engine was asked to stop *)
(* is not what the gateway takes for itself.                               *)
SelfGuarded ==
    /\ selfHost \in Seq(Nat) /\ job \in [Request -> Job]
    /\ \A r \in Request : job[r].pc = "queued" => job[r].ref \in Ref
    /\ \A r \in Request : job[r].pc = "queued" /\ job[r].verb # "start" => ~IsSelf(job[r].ref)
    /\ GuardHolds

(* Only Act queues jobs, only Take stops containers, and only those queued. *)
LEMMA GuardedAct ==
    ASSUME SelfGuarded, NEW r \in Request, NEW verb \in Verb, NEW ref \in Ref, Act(r, verb, ref)
    PROVE  SelfGuarded'
<1> USE DEF SelfGuarded
<1> DEFINE j == [JobIs("queued") EXCEPT !.verb = verb, !.ref = ref]
<1>1. j \in Job /\ j.pc = "queued" /\ j.verb = verb /\ j.ref = ref
  <2>1. JobIs("queued") \in Job
    BY JobIsTyped DEF JobPc
  <2> QED
    BY <2>1 DEF Job, JobIs
<1> HIDE DEF j
<1>2. \/ UNCHANGED job
      \/ job' = [job EXCEPT ![r] = j] /\ ~(verb \in {"stop", "restart"} /\ IsSelf(ref))
  BY DEF Act, j
<1>3. UNCHANGED selfHost /\ (\A name : IsSelf(name)' <=> IsSelf(name))
  BY DEF Act, IsSelf
<1>4. verb = "start" \/ verb \in {"stop", "restart"}
  BY DEF Verb
<1> QED
  BY <1>1, <1>2, <1>3, <1>4 DEF GuardHolds, JobAt

LEMMA GuardedTake ==
    ASSUME SelfGuarded, NEW r \in Request, Take(r)
    PROVE  SelfGuarded'
<1> USE DEF SelfGuarded
<1>1. PICK c \in Named(job[r].ref) :
        job' = [job EXCEPT ![r] =
                   IF running[c] /\ job[r].verb # "start"
                   THEN [@ EXCEPT !.pc = "stopping", !.target = c, !.left = Grace]
                   ELSE JobIs("done")]
  BY DEF Take
<1>2. c \in Container /\ job[r].pc = "queued"
  BY DEF Named, Take, JobAt
<1>3. ASSUME selfHost # <<>>, IsPrefix(selfHost, Id[Self]), IsPrefix(job[r].ref, Id[Self]),
             job[r].verb # "start"
      PROVE  FALSE
  <2>1. job[r].ref \in Seq(Nat) /\ job[r].ref # <<>> /\ Id[Self] \in Seq(Nat)
    BY <1>2, ContainersAssumption
  <2>2. IsPrefix(selfHost, job[r].ref) \/ IsPrefix(job[r].ref, selfHost)
    BY <1>2, <1>3, <2>1, PrefixesComparable
  <2> QED
    BY <1>2, <1>3, <2>1, <2>2 DEF IsSelf
<1> DEFINE j == [job[r] EXCEPT !.pc = "stopping", !.target = c, !.left = Grace]
<1>4. j \in Job /\ j.pc = "stopping" /\ j.ref = job[r].ref
  <2>1. job[r] \in Job /\ Grace \in 0..Grace
    BY TimesInRange
  <2> QED
    BY <1>2, <2>1 DEF Job
<1> HIDE DEF j
<1>5. JobIs("done") \in Job /\ JobIs("done").pc = "done"
  <2>1. JobIs("done") \in Job
    BY JobIsTyped DEF JobPc
  <2> QED
    BY <2>1 DEF JobIs
<1>6. \/ job' = [job EXCEPT ![r] = j] /\ job[r].verb # "start"
      \/ job' = [job EXCEPT ![r] = JobIs("done")]
  BY <1>1 DEF j
<1>7. UNCHANGED selfHost /\ (\A name : IsSelf(name)' <=> IsSelf(name))
  BY DEF Take, IsSelf
<1> QED
  BY <1>3, <1>4, <1>5, <1>6, <1>7 DEF GuardHolds, JobAt

LEMMA GuardedEnd ==
    ASSUME SelfGuarded, NEW r \in Request, Refuse(r) \/ Stopped(r)
    PROVE  SelfGuarded'
<1> USE DEF SelfGuarded
<1>1. PICK pc \in {"done", "error"} : job' = [job EXCEPT ![r] = JobIs(pc)]
  BY DEF Refuse, Stopped
<1>2. JobIs(pc) \in Job /\ JobIs(pc).pc = pc
  <2>1. JobIs(pc) \in Job
    BY JobIsTyped DEF JobPc
  <2> QED
    BY <2>1 DEF JobIs
<1>3. UNCHANGED selfHost /\ (\A name : IsSelf(name)' <=> IsSelf(name))
  BY DEF Refuse, Stopped, IsSelf
<1> QED
  BY <1>1, <1>2, <1>3 DEF GuardHolds, JobAt

LEMMA GuardedAge ==
    ASSUME SelfGuarded, ContainersTyped', Age, UNCHANGED selfHost
    PROVE  SelfGuarded'
<1> USE DEF SelfGuarded
<1>1. \A r \in Request : job'[r] = [job[r] EXCEPT !.left = Minus(@)] /\ job[r] \in Job
  BY DEF Age
<1>2. \A r \in Request : /\ job'[r].pc = job[r].pc /\ job'[r].verb = job[r].verb
                         /\ job'[r].ref = job[r].ref /\ job'[r].target = job[r].target
  BY <1>1 DEF Job
<1>3. (\A name : IsSelf(name)' <=> IsSelf(name))
  BY DEF IsSelf
<1> QED
  BY <1>2, <1>3 DEF ContainersTyped, GuardHolds, JobAt

(* Service.IsSelf, for any ids, names, mounts and names of hosts: where the *)
(* gateway holds a part of its own id for its id, no request that names it *)
(* by a part of its id stops it, whichever of the two is the longer.       *)
THEOREM GuardCorrect == Spec => []GuardHolds
<1>1. Init => SelfGuarded
  <2>1. JobIs("none") \in Job /\ JobIs("none").pc = "none"
    BY JobIsTyped DEF JobPc, JobIs
  <2> QED
    BY <2>1, MountinfoAssumption
       DEF Init, ContainersInit, SelfGuarded, GuardHolds, JobAt
<1>2. LifeInv /\ LifeInv' /\ SelfGuarded /\ [Next]_allVars => SelfGuarded'
  <2> SUFFICES ASSUME LifeInv, LifeInv', SelfGuarded, [Next]_allVars PROVE SelfGuarded'
    OBVIOUS
  <2>1. CASE \E r \in Request, verb \in Verb, ref \in Ref : ActOnContainer(r, verb, ref)
    BY <2>1, GuardedAct DEF ActOnContainer
  <2>2. CASE \E r \in Request : Step(r)
    <3>1. PICK r \in Request : Engine(r) \/ Handle(r)
      BY <2>2 DEF Step
    <3>2. CASE Engine(r)
      BY <3>2, GuardedTake, GuardedEnd DEF Engine
    <3>3. CASE Handle(r)
      <4>1. UNCHANGED <<selfHost, job>>
        BY <3>3 DEF Handle, Reply, GiveUp, Record
      <4> QED
        BY <4>1 DEF SelfGuarded, GuardHolds, JobAt, IsSelf
    <3> QED
      BY <3>1, <3>2, <3>3
  <2>3. CASE Tick
    BY <2>3, GuardedAge DEF Tick, LifeInv
  <2>4. ASSUME UNCHANGED <<selfHost, job>> PROVE SelfGuarded'
    BY <2>4 DEF SelfGuarded, GuardHolds, JobAt, IsSelf
  <2>5. CASE \/ Boot \/ OpenCert \/ WriteCert \/ OpenKey \/ WriteKey \/ Listen \/ Bring \/ Signal
             \/ (\E s \in Stream : Open(s) \/ End(s)) \/ UNCHANGED allVars
    BY <2>4, <2>5 DEF Boot, OpenCert, WriteCert, OpenKey, WriteKey, Listen, Bring, Signal,
       Open, End, allVars, containerVars
  <2>6. CASE WriteFails \/ ListenFails \/ Exit \/ ExitLate \/ Crash
    BY <2>4, <2>6 DEF WriteFails, ListenFails, Exit, ExitLate, Crash
  <2> QED
    BY <2>1, <2>2, <2>3, <2>5, <2>6 DEF Next
<1>3. SelfGuarded => GuardHolds
  BY DEF SelfGuarded
<1> QED
  BY <1>1, <1>2, <1>3, LifeCorrect, PTL DEF Spec
----------------------------------------------------------------------------
(* The pair of TLS files, while containers and streams come and go.        *)

(* Places of main while it makes a pair; before the key file is opened.    *)
Making == {"cert", "certopen", "key", "keyopen"}
BeforeKey == {"cert", "certopen", "key"}

(* A pair is made when none was served, and the certificate comes first.   *)
MakesNew ==
    /\ proc \in Making => making \in Pair /\ served = None
    /\ proc \in {"key", "keyopen"} => cert = making

(* There is no key without its certificate, unless somebody else put it    *)
(* there or a write of the key was cut short.                              *)
KeyAfterCert ==
    ~touched /\ ~torn =>
        /\ proc \in BeforeKey => key = Absent
        /\ proc \notin Making => key = Absent \/ (cert = key /\ cert \in Pair)

(* The inductive invariant of the TLS files. *)
FilesInv ==
    /\ proc \in Proc
    /\ served \in Pair \cup {None}
    /\ torn \in BOOLEAN
    /\ touched => served = None
    /\ MakesNew
    /\ KeyAfterCert
    /\ ServedPairStays
    /\ BootHealsFiles

----------------------------------------------------------------------------
LEMMA InitFiles == Init => FilesInv
  BY DEF Init, FilesInv, MakesNew, KeyAfterCert, ServedPairStays, BootHealsFiles,
         Proc, Making, BeforeKey, Absent

(* Steps of requests, streams and time leave files and history alone.      *)
FilesSame == UNCHANGED <<cert, key, making, histVars>>

LEMMA FilesQuiet ==
    ASSUME FilesInv, FilesSame, proc' = proc \/ (proc = "serve" /\ proc' = "drain")
    PROVE  FilesInv'
  BY DEF FilesInv, FilesSame, MakesNew, KeyAfterCert, ServedPairStays, BootHealsFiles,
         Proc, Making, BeforeKey, histVars

(* The process ends: what the files hold then is all that is left of it.   *)
LEMMA FilesGone ==
    ASSUME FilesInv, NEW status, Gone(status), UNCHANGED <<cert, key, served, touched>>,
           torn' = (torn \/ proc = "keyopen")
    PROVE  FilesInv'
  BY DEF FilesInv, Gone, MakesNew, KeyAfterCert, ServedPairStays, BootHealsFiles,
         Proc, Making, BeforeKey

LEMMA FilesGoneIntact ==
    ASSUME FilesInv, NEW status, Gone(status), UNCHANGED <<cert, key, histVars>>,
           proc # "keyopen"
    PROVE  FilesInv'
<1>1. torn' = (torn \/ proc = "keyopen")
  BY DEF FilesInv, histVars
<1>2. UNCHANGED <<cert, key, served, touched>>
  BY DEF histVars
<1> QED
  BY <1>1, <1>2, FilesGone

LEMMA NextFiles == FilesInv /\ [Next]_allVars => FilesInv'
<1> SUFFICES ASSUME FilesInv, [Next]_allVars PROVE FilesInv'
    OBVIOUS
<1> USE GatewayAssumption
<1>1. CASE Boot
  <2>1. served # None => proc' = "listen"
    BY <1>1 DEF Boot, FilesInv, ServedPairStays, fileExists
  <2>2. proc' = "cert" => making' \in Pair
    BY <1>1 DEF Boot
  <2>3. proc' = "cert" /\ ~touched /\ ~torn => key = Absent
    BY <1>1 DEF Boot, FilesInv, KeyAfterCert, Making, fileExists
  <2>4. proc' = "listen" => key # Absent
    BY <1>1 DEF Boot, fileExists
  <2> QED
    BY <1>1, <2>1, <2>2, <2>3, <2>4 DEF Boot, FilesInv, MakesNew, KeyAfterCert,
       ServedPairStays, BootHealsFiles, Proc, Making, BeforeKey, histVars
<1>2. CASE OpenCert
  BY <1>2 DEF OpenCert, FilesInv, MakesNew, KeyAfterCert, ServedPairStays,
     BootHealsFiles, Proc, Making, BeforeKey, histVars
<1>3. CASE WriteCert
  BY <1>3 DEF WriteCert, FilesInv, MakesNew, KeyAfterCert, ServedPairStays,
     BootHealsFiles, Proc, Making, BeforeKey, histVars
<1>4. CASE OpenKey
  BY <1>4 DEF OpenKey, FilesInv, MakesNew, KeyAfterCert, ServedPairStays,
     BootHealsFiles, Proc, Making, BeforeKey, histVars
<1>5. CASE WriteKey
  BY <1>5 DEF WriteKey, FilesInv, MakesNew, KeyAfterCert, ServedPairStays,
     BootHealsFiles, Proc, Making, BeforeKey, histVars
<1>6. CASE WriteFails
  BY <1>6, FilesGone DEF WriteFails
<1>7. CASE Listen
  BY <1>7 DEF Listen, FilesInv, MakesNew, KeyAfterCert, ServedPairStays,
     BootHealsFiles, Proc, Making, BeforeKey
<1>8. CASE ListenFails
  <2>1. Gone(1) /\ UNCHANGED <<cert, key, histVars>> /\ proc # "keyopen"
    BY <1>8 DEF ListenFails
  <2> QED
    BY <2>1, FilesGoneIntact
<1>9. CASE Bring
  BY <1>9 DEF Bring, FilesInv, MakesNew, KeyAfterCert, ServedPairStays,
     BootHealsFiles, Proc, Making, BeforeKey, mainVars
<1>10. CASE \E r \in Request, verb \in Verb, ref \in Ref : ActOnContainer(r, verb, ref)
  BY <1>10, FilesQuiet DEF ActOnContainer, gatewayVars, filesVars, mainVars, FilesSame
<1>11. CASE \E r \in Request : Step(r)
  BY <1>11, FilesQuiet DEF Step, gatewayVars, filesVars, mainVars, FilesSame
<1>12. CASE \E s \in Stream : Open(s) \/ End(s)
  BY <1>12, FilesQuiet DEF Open, End, filesVars, mainVars, FilesSame
<1>13. CASE Signal
  BY <1>13, FilesQuiet DEF Signal, filesVars, FilesSame
<1>14. CASE Exit \/ ExitLate
  <2>1. (Gone(0) \/ Gone(1)) /\ UNCHANGED <<cert, key, histVars>> /\ proc # "keyopen"
    BY <1>14 DEF Exit, ExitLate
  <2> QED
    BY <2>1, FilesGoneIntact
<1>15. CASE Tick
  BY <1>15, FilesQuiet DEF Tick, filesVars, FilesSame
<1>16. CASE Crash
  BY <1>16, FilesGone DEF Crash
<1>17. CASE UNCHANGED allVars
  BY <1>17, FilesQuiet DEF allVars, gatewayVars, filesVars, mainVars, FilesSame
<1> QED
  BY <1>1, <1>2, <1>3, <1>4, <1>5, <1>6, <1>7, <1>8, <1>9, <1>10, <1>11, <1>12,
     <1>13, <1>14, <1>15, <1>16, <1>17 DEF Next

THEOREM FilesCorrect == Spec => []FilesInv
  BY InitFiles, NextFiles, PTL DEF Spec

(* EnsureSelfSignedCert: a pair that was served is served again, whatever  *)
(* crashes between the writes of the two files, unless an operator changed *)
(* a file.                                                                 *)
THEOREM PairCorrect == Spec => []ServedPairStays
<1>1. FilesInv => ServedPairStays
  BY DEF FilesInv
<1> QED
  BY <1>1, FilesCorrect, PTL

(* EnsureSelfSignedCert: the one write that later boots do not make up for *)
(* is that of the key.                                                     *)
THEOREM HealCorrect == Spec => []BootHealsFiles
<1>1. FilesInv => BootHealsFiles
  BY DEF FilesInv
<1> QED
  BY <1>1, FilesCorrect, PTL

----------------------------------------------------------------------------
(* The log stream, for any bytes and payloads, and logs of any length.     *)

(* Induction over the numbers up to N. *)
LEMMA UpTo ==
    ASSUME NEW N \in Nat, NEW S, 0 \in S, \A n \in 1..N : n - 1 \in S => n \in S
    PROVE  0..N \subseteq S
<1> SUFFICES ASSUME NEW m \in 0..N, m \notin S PROVE FALSE
  OBVIOUS
<1> DEFINE T == {n \in 0..N : n \notin S}
<1>1. T \subseteq Nat /\ T # {}
  OBVIOUS
<1>2. PICK x \in T : \A y \in T : ~(<<y, x>> \in OpToRel(<, Nat))
  BY <1>1, WFMin, NatLessThanWellFounded
<1>3. x \in 0..N /\ x \notin S /\ x # 0
  OBVIOUS
<1>4. x - 1 \in T
  BY <1>3
<1>5. <<x - 1, x>> \in OpToRel(<, Nat)
  BY <1>3 DEF OpToRel
<1>6. QED
  BY <1>2, <1>4, <1>5

Char == Byte \cup {Feed}

(* What was sent, and what is kept back for later, is what was received;   *)
(* one line feed more when the log ended without one.                      *)
LogInv ==
    /\ log \in {"reading", "ended", "cut"}
    /\ line \in Seq(Byte) /\ dropped \in Seq(Byte)
    /\ emitted \in Seq(Seq(Byte)) /\ received \in Seq(Char)
    /\ log = "reading" => Text(emitted) \o line = received
    /\ log = "ended" =>
           Text(emitted) = IF Finished(received) THEN received ELSE Append(received, Feed)
    /\ log = "cut" => Text(emitted) \o dropped = received

(* Text, one line after the other. *)
LEMMA TextRuns ==
    ASSUME NEW lines, Len(lines) \in Nat
    PROVE  \E f : /\ Text(lines) = f[Len(lines)]
                  /\ f[0] = <<>>
                  /\ \A n \in 1..Len(lines) : f[n] = AddLine(f[n - 1], lines[n])
<1> DEFINE Loop(N, f) == f = [n \in 0..N |-> IF n = 0 THEN <<>>
                                             ELSE AddLine(f[n - 1], lines[n])]
           S == {n \in 0..Len(lines) : \E f : Loop(n, f)}
           run == CHOOSE f : Loop(Len(lines), f)
<1>1. 0 \in S
  <2> DEFINE g == [n \in 0..0 |-> <<>>]
  <2>1. Loop(0, g)
    OBVIOUS
  <2> HIDE DEF g, Loop
  <2>2. QED
    BY <2>1
<1>2. ASSUME NEW n \in 1..Len(lines), n - 1 \in S
      PROVE  n \in S
  <2>1. PICK f : Loop(n - 1, f)
    BY <1>2
  <2> DEFINE g == [k \in 0..n |-> IF k = n THEN AddLine(f[n - 1], lines[n]) ELSE f[k]]
  <2>2. \A k \in 0..n : g[k] = IF k = 0 THEN <<>> ELSE AddLine(g[k - 1], lines[k])
    BY <2>1
  <2>3. Loop(n, g)
    BY <2>2
  <2> HIDE DEF g, Loop
  <2>4. QED
    BY <2>3
<1>3. 0..Len(lines) \subseteq S
  <2> HIDE DEF S
  <2>1. QED
    BY <1>1, <1>2, UpTo
<1>4. \E f : Loop(Len(lines), f)
  <2> HIDE DEF Loop
  <2>1. QED
    BY <1>3
<1>5. Loop(Len(lines), run)
  <2> HIDE DEF Loop
  <2>1. QED
    BY <1>4, Zenon
<1>6. /\ run[0] = <<>>
      /\ \A n \in 1..Len(lines) : run[n] = AddLine(run[n - 1], lines[n])
  <2>1. \A n \in 0..Len(lines) : run[n] = IF n = 0 THEN <<>>
                                          ELSE AddLine(run[n - 1], lines[n])
    BY <1>5
  <2>2. QED
    BY <2>1
<1>7. Text(lines) = run[Len(lines)]
  BY DEF Text
<1> HIDE DEF run
<1>8. QED
  BY <1>6, <1>7

LEMMA TextOfNone == Text(<<>>) = <<>>
<1>1. Len(<<>>) = 0
  OBVIOUS
<1>2. PICK f : Text(<<>>) = f[0] /\ f[0] = <<>>
  BY <1>1, TextRuns
<1>3. QED
  BY <1>2

(* One line more, one line and one line feed more. *)
LEMMA TextOfMore ==
    ASSUME NEW lines \in Seq(Seq(Byte)), NEW l \in Seq(Byte)
    PROVE  Text(Append(lines, l)) = Text(lines) \o Append(l, Feed)
<1> DEFINE N == Len(lines)
           more == Append(lines, l)
<1>1. N \in Nat /\ Len(more) = N + 1 /\ more[N + 1] = l /\ \A n \in 1..N : more[n] = lines[n]
  BY AppendProperties
<1> HIDE DEF N, more
<1>2. PICK f : /\ Text(lines) = f[N]
               /\ f[0] = <<>>
               /\ \A n \in 1..N : f[n] = AddLine(f[n - 1], lines[n])
  BY <1>1, TextRuns DEF N
<1>3. PICK g : /\ Text(more) = g[N + 1]
               /\ g[0] = <<>>
               /\ \A n \in 1..(N + 1) : g[n] = AddLine(g[n - 1], more[n])
  <2> DEFINE M == Len(more)
  <2>1. M \in Nat /\ M = N + 1
    BY <1>1
  <2>2. \E g : /\ Text(more) = g[M]
               /\ g[0] = <<>>
               /\ \A n \in 1..M : g[n] = AddLine(g[n - 1], more[n])
    BY <2>1, TextRuns
  <2> HIDE DEF M
  <2>3. QED
    BY <2>1, <2>2
<1> DEFINE S == {n \in 0..N : f[n] = g[n]}
<1>4. 0..N \subseteq S
  <2>1. 0 \in S
    BY <1>1, <1>2, <1>3
  <2>2. ASSUME NEW n \in 1..N, n - 1 \in S
        PROVE  n \in S
    <3>1. n \in 1..(N + 1) /\ n \in 0..N
      BY <1>1
    <3>2. f[n - 1] = g[n - 1]
      BY <2>2
    <3>3. f[n] = AddLine(f[n - 1], lines[n]) /\ g[n] = AddLine(g[n - 1], more[n])
      BY <1>2, <1>3, <3>1
    <3>4. f[n] = g[n]
      BY <1>1, <3>2, <3>3
    <3>5. QED
      BY <3>1, <3>4
  <2> HIDE DEF S
  <2>3. QED
    BY <1>1, <2>1, <2>2, UpTo
<1>5. f[N] = g[N]
  BY <1>1, <1>4
<1>6. g[N + 1] = AddLine(g[N], l)
  <2>1. N + 1 \in 1..(N + 1) /\ (N + 1) - 1 = N
    BY <1>1
  <2>2. QED
    BY <1>1, <1>3, <2>1
<1>7. QED
  BY <1>2, <1>3, <1>5, <1>6 DEF more, AddLine

LEMMA TextTyped ==
    ASSUME NEW lines \in Seq(Seq(Byte))
    PROVE  Text(lines) \in Seq(Char)
<1> DEFINE N == Len(lines)
<1>1. N \in Nat /\ \A n \in 1..N : lines[n] \in Seq(Byte)
  OBVIOUS
<1>2. PICK f : /\ Text(lines) = f[N]
               /\ f[0] = <<>>
               /\ \A n \in 1..N : f[n] = AddLine(f[n - 1], lines[n])
  BY <1>1, TextRuns
<1> DEFINE S == {n \in 0..N : f[n] \in Seq(Char)}
<1> HIDE DEF N
<1>3. 0 \in S
  <2>1. <<>> \in Seq(Char)
    OBVIOUS
  <2>2. f[0] \in Seq(Char)
    BY <1>2, <2>1, Zenon
  <2>3. 0 \in 0..N
    BY <1>1
  <2>4. QED
    BY <2>2, <2>3
<1>4. ASSUME NEW n \in 1..N, n - 1 \in S
      PROVE  n \in S
  <2>1. f[n - 1] \in Seq(Char) /\ n \in 0..N
    BY <1>1, <1>4
  <2>2. Append(lines[n], Feed) \in Seq(Char)
    <3>1. lines[n] \in Seq(Char)
      BY <1>1, SeqMonotonic DEF Char
    <3>2. QED
      BY <3>1, AppendProperties DEF Char
  <2>3. f[n] \in Seq(Char)
    BY <1>2, <2>1, <2>2, ConcatProperties DEF AddLine
  <2>4. QED
    BY <2>1, <2>3
<1>5. 0..N \subseteq S
  <2> HIDE DEF S
  <2>1. QED
    BY <1>1, <1>3, <1>4, UpTo
<1>6. QED
  BY <1>1, <1>2, <1>5

(* The inner loop, one byte after the other. *)
LEMMA CutRuns ==
    ASSUME NEW text, Len(text) \in Nat
    PROVE  \E f : /\ cut(text) = f[Len(text)]
                  /\ f[0] = [lines |-> emitted, rest |-> <<>>]
                  /\ \A n \in 1..Len(text) : f[n] = TakeByte(f[n - 1], text[n])
<1> DEFINE Start == [lines |-> emitted, rest |-> <<>>]
           Loop(N, f) == f = [n \in 0..N |-> IF n = 0 THEN Start ELSE TakeByte(f[n - 1], text[n])]
           S == {n \in 0..Len(text) : \E f : Loop(n, f)}
           run == CHOOSE f : Loop(Len(text), f)
<1>7. cut(text) = run[Len(text)]
  BY DEF cut
<1> HIDE DEF Start
<1>1. 0 \in S
  <2> DEFINE g == [n \in 0..0 |-> Start]
  <2>1. Loop(0, g)
    OBVIOUS
  <2> HIDE DEF g, Loop
  <2>2. QED
    BY <2>1
<1>2. ASSUME NEW n \in 1..Len(text), n - 1 \in S
      PROVE  n \in S
  <2>1. PICK f : Loop(n - 1, f)
    BY <1>2
  <2> DEFINE g == [k \in 0..n |-> IF k = n THEN TakeByte(f[n - 1], text[n]) ELSE f[k]]
  <2>2. \A k \in 0..n : g[k] = IF k = 0 THEN Start ELSE TakeByte(g[k - 1], text[k])
    BY <2>1
  <2>3. Loop(n, g)
    BY <2>2
  <2> HIDE DEF g, Loop
  <2>4. QED
    BY <2>3
<1>3. 0..Len(text) \subseteq S
  <2> HIDE DEF S
  <2>1. QED
    BY <1>1, <1>2, UpTo
<1>4. \E f : Loop(Len(text), f)
  <2> HIDE DEF Loop
  <2>1. QED
    BY <1>3
<1>5. Loop(Len(text), run)
  <2> HIDE DEF Loop
  <2>1. QED
    BY <1>4, Zenon
<1>6. /\ run[0] = Start
      /\ \A n \in 1..Len(text) : run[n] = TakeByte(run[n - 1], text[n])
  <2>1. \A n \in 0..Len(text) : run[n] = IF n = 0 THEN Start ELSE TakeByte(run[n - 1], text[n])
    BY <1>5
  <2>2. QED
    BY <2>1
<1> HIDE DEF run
<1>8. QED
  BY <1>6, <1>7 DEF Start

(* What a byte of the loop leaves of a log, and that it keeps it whole. *)
Part(s) == s \in [lines : Seq(Seq(Byte)), rest : Seq(Byte)]
Whole(s) == Text(s.lines) \o s.rest

LEMMA TakeKeeps ==
    ASSUME NEW s, Part(s), NEW b \in Char
    PROVE  Part(TakeByte(s, b)) /\ Whole(TakeByte(s, b)) = Append(Whole(s), b)
<1>1. s.lines \in Seq(Seq(Byte)) /\ s.rest \in Seq(Byte) /\ s.rest \in Seq(Char)
  <2>1. s.lines \in Seq(Seq(Byte)) /\ s.rest \in Seq(Byte)
    BY DEF Part
  <2>2. QED
    BY <2>1, SeqMonotonic DEF Char
<1> DEFINE L == s.lines
           R == s.rest
           T == Text(L)
<1>2. T \in Seq(Char) /\ Whole(s) = T \o R
  BY <1>1, TextTyped DEF Whole
<1>3. <<b>> \in Seq(Char) /\ T \o R \in Seq(Char)
  BY <1>1, <1>2, ConcatProperties
<1>4. Append(T \o R, b) = T \o Append(R, b)
  <2>1. Append(R, b) = R \o <<b>>
    BY <1>1, AppendIsConcat
  <2>2. Append(T \o R, b) = (T \o R) \o <<b>>
    BY <1>3, AppendIsConcat
  <2>3. (T \o R) \o <<b>> = T \o (R \o <<b>>)
    <3>1. T \in Seq(Char) /\ R \in Seq(Char) /\ <<b>> \in Seq(Char)
      BY <1>1, <1>2, <1>3
    <3> HIDE DEF T, R
    <3>2. QED
      BY <3>1, ConcatAssociative
  <2>4. QED
    BY <2>1, <2>2, <2>3
<1>5. CASE b = Feed
  <2> DEFINE more == Append(L, R)
             t == [lines |-> more, rest |-> <<>>]
  <2>1. TakeByte(s, b) = t
    BY <1>5 DEF TakeByte
  <2>2. more \in Seq(Seq(Byte)) /\ <<>> \in Seq(Byte)
    BY <1>1, AppendProperties
  <2>3. Text(more) = T \o Append(R, b)
    BY <1>1, <1>5, TextOfMore
  <2> HIDE DEF more
  <2>4. t.lines = more /\ t.rest = <<>> /\ Part(t)
    BY <2>2 DEF Part
  <2>5. Text(more) \o <<>> = Text(more)
    BY <2>2, TextTyped, ConcatEmptySeq
  <2>6. QED
    BY <1>2, <1>4, <2>1, <2>3, <2>4, <2>5 DEF Whole
<1>6. CASE b # Feed
  <2> DEFINE t == TakeByte(s, b)
  <2>1. t.lines = L /\ t.rest = Append(R, b) /\ Part(t)
    <3>1. b \in Byte
      BY <1>6 DEF Char
    <3>2. Append(R, b) \in Seq(Byte)
      BY <1>1, <3>1, AppendProperties
    <3>3. t = [s EXCEPT !.rest = Append(R, b)]
      BY <1>6 DEF TakeByte
    <3>4. QED
      BY <3>2, <3>3 DEF Part
  <2>2. QED
    BY <1>2, <1>4, <2>1 DEF Whole
<1>7. QED
  BY <1>5, <1>6

(* So the loop as a whole loses nothing of what it was given. *)
LEMMA CutKeeps ==
    ASSUME emitted \in Seq(Seq(Byte)), NEW text \in Seq(Char)
    PROVE  Part(cut(text)) /\ Whole(cut(text)) = Text(emitted) \o text
<1> DEFINE N == Len(text)
           T == Text(emitted)
           Upto(n) == SubSeq(text, 1, n)
<1>1. N \in Nat /\ T \in Seq(Char) /\ \A n \in 1..N : text[n] \in Char
  BY TextTyped
<1>2. PICK f : /\ cut(text) = f[N]
               /\ f[0] = [lines |-> emitted, rest |-> <<>>]
               /\ \A n \in 1..N : f[n] = TakeByte(f[n - 1], text[n])
  BY <1>1, CutRuns
<1> DEFINE Kept(n) == Part(f[n]) /\ Whole(f[n]) = T \o Upto(n)
           S == {n \in 0..N : Kept(n)}
<1>3. \A n \in 0..N : Upto(n) \in Seq(Char)
  BY <1>1, SubSeqProperties
<1>4. 0 \in S
  <2>1. Upto(0) = <<>>
    BY SubSeqEmpty
  <2>2. f[0].lines = emitted /\ f[0].rest = <<>> /\ Part(f[0])
    BY <1>2 DEF Part
  <2>3. Kept(0)
    BY <2>1, <2>2 DEF Whole
  <2> HIDE DEF Kept
  <2>4. QED
    BY <1>1, <2>3
<1>5. ASSUME NEW n \in 1..N, n - 1 \in S
      PROVE  n \in S
  <2>1. Kept(n - 1) /\ n \in 0..N /\ n - 1 \in 0..N
    BY <1>1, <1>5
  <2>2. Part(f[n]) /\ Whole(f[n]) = Append(T \o Upto(n - 1), text[n])
    BY <1>1, <1>2, <2>1, TakeKeeps
  <2>3. Append(T \o Upto(n - 1), text[n]) = T \o Upto(n)
    <3> DEFINE u == Upto(n - 1)
               e == text[n]
    <3>1. u \in Seq(Char) /\ e \in Char /\ <<e>> \in Seq(Char)
      BY <1>1, <1>3, <2>1
    <3>2. Upto(n) = u \o <<e>>
      <4>1. 1 \in 1..N /\ n \in 1..N
        BY <1>1
      <4>2. QED
        BY <4>1, SubSeqRecursiveSecond
    <3> HIDE DEF u, e
    <3>3. T \o u \in Seq(Char)
      BY <1>1, <3>1, ConcatProperties
    <3>4. Append(T \o u, e) = (T \o u) \o <<e>>
      BY <3>1, <3>3, AppendIsConcat
    <3>5. (T \o u) \o <<e>> = T \o (u \o <<e>>)
      BY SMTT(30), <1>1, <3>1, ConcatAssociative
    <3>6. QED
      BY <3>2, <3>4, <3>5 DEF u, e
  <2>4. Kept(n)
    BY <2>2, <2>3
  <2> HIDE DEF Kept
  <2>5. QED
    BY <2>1, <2>4
<1>6. Kept(N)
  <2>1. 0..N \subseteq S
    <3> HIDE DEF S
    <3>1. QED
      BY <1>1, <1>4, <1>5, UpTo
  <2> HIDE DEF Kept
  <2>2. QED
    BY <1>1, <2>1
<1>7. Upto(N) = text
  BY SubSeqFull
<1>8. QED
  BY <1>2, <1>6, <1>7

(* A text of whole lines ends in a line feed. *)
LEMMA TextFinished ==
    ASSUME NEW lines \in Seq(Seq(Byte))
    PROVE  Finished(Text(lines))
<1>1. CASE lines = <<>>
  BY <1>1, TextOfNone DEF Finished
<1>2. CASE lines # <<>>
  <2> DEFINE N == Len(lines)
             front == SubSeq(lines, 1, N - 1)
             last == lines[N]
             T == Text(front)
             end == Append(last, Feed)
  <2>1. N \in Nat /\ N >= 1 /\ last \in Seq(Byte) /\ \A i \in 1..(N - 1) : lines[i] \in Seq(Byte)
    BY <1>2, EmptySeq
  <2>2. front \in Seq(Seq(Byte))
    BY <2>1, SubSeqProperties
  <2>3. lines = Append(front, last)
    <3>1. SubSeq(lines, 1, N) = front \o <<last>>
      <4>1. 1 \in 1..N /\ N \in 1..N
        BY <2>1
      <4>2. QED
        BY <4>1, SubSeqRecursiveSecond
    <3>2. SubSeq(lines, 1, N) = lines
      BY SubSeqFull
    <3> HIDE DEF front, last
    <3>3. Append(front, last) = front \o <<last>>
      BY <2>1, <2>2, AppendIsConcat
    <3>4. QED
      BY <3>1, <3>2, <3>3
  <2>4. Text(Append(front, last)) = T \o end
    <3> HIDE DEF front, last
    <3>1. QED
      BY <2>1, <2>2, TextOfMore
  <2>5. T \in Seq(Char)
    BY <2>2, TextTyped
  <2>6. end \in Seq(Char) /\ Len(end) \in Nat /\ Len(end) >= 1 /\ end[Len(end)] = Feed
    <3> HIDE DEF last
    <3>1. last \in Seq(Char) /\ Feed \in Char
      BY <2>1, SeqMonotonic DEF Char
    <3>2. QED
      BY <3>1, AppendProperties
  <2> HIDE DEF T, end
  <2>7. Len(T \o end) = Len(T) + Len(end) /\ (T \o end)[Len(T) + Len(end)] = end[Len(end)]
    <3>1. Len(T) \in Nat
      BY <2>5
    <3> DEFINE n == Len(T) + Len(end)
    <3>2. n \in 1..(Len(T) + Len(end)) /\ ~(n <= Len(T)) /\ n - Len(T) = Len(end)
      BY <2>6, <3>1
    <3>3. (T \o end)[n] = IF n <= Len(T) THEN T[n] ELSE end[n - Len(T)]
      BY <2>5, <2>6, <3>2, ConcatProperties
    <3>4. QED
      BY <2>5, <2>6, <3>2, <3>3, ConcatProperties
  <2>8. Text(lines) = T \o end
    BY <2>3, <2>4
  <2>9. QED
    BY <2>6, <2>7, <2>8 DEF Finished
<1>3. QED
  BY <1>1, <1>2

LEMMA LogInitial == LogInit => LogInv
<1> SUFFICES ASSUME LogInit PROVE LogInv
  OBVIOUS
<1>1. log = "reading" /\ line = <<>> /\ emitted = <<>> /\ received = <<>> /\ dropped = <<>>
  BY DEF LogInit
<1>2. Text(emitted) \o line = <<>>
  BY <1>1, TextOfNone
<1>3. /\ line \in Seq(Byte) /\ dropped \in Seq(Byte) /\ emitted \in Seq(Seq(Byte))
      /\ received \in Seq(Char)
  BY <1>1
<1>4. QED
  BY <1>1, <1>2, <1>3 DEF LogInv

LEMMA FrameKeeps ==
    ASSUME LogInv, NEW payload \in Payload, Frame(payload)
    PROVE  LogInv'
<1> DEFINE text == line \o payload
           T == Text(emitted)
           s == cut(text)
<1>1. /\ line \in Seq(Byte) /\ line \in Seq(Char) /\ payload \in Seq(Char)
      /\ emitted \in Seq(Seq(Byte)) /\ received \in Seq(Char) /\ T \in Seq(Char)
  <2>1. line \in Seq(Byte) /\ emitted \in Seq(Seq(Byte)) /\ received \in Seq(Char)
    BY DEF LogInv
  <2>2. payload \in Seq(Char)
    BY LogAssumption DEF Char
  <2>3. QED
    BY <2>1, <2>2, SeqMonotonic, TextTyped DEF Char
<1>2. /\ log = "reading" /\ log' = log /\ emitted' = s.lines /\ line' = s.rest
      /\ received' = received \o payload /\ dropped' = dropped
  BY DEF Frame, Received
<1>3. T \o line = received
  BY <1>2 DEF LogInv
<1>4. Part(s) /\ Whole(s) = T \o text
  <2>1. text \in Seq(Char)
    BY <1>1, ConcatProperties
  <2>2. QED
    BY <1>1, <2>1, CutKeeps
<1>5. T \o text = received \o payload
  <2>1. (T \o line) \o payload = T \o (line \o payload)
    BY <1>1, ConcatAssociative
  <2>2. QED
    BY <1>3, <2>1
<1> HIDE DEF s, text, T
<1>6. Text(emitted') \o line' = received'
  BY <1>2, <1>4, <1>5 DEF Whole
<1>7. emitted' \in Seq(Seq(Byte)) /\ line' \in Seq(Byte) /\ received' \in Seq(Char)
  <2>1. received \o payload \in Seq(Char)
    BY <1>1, ConcatProperties
  <2>2. QED
    BY <1>2, <1>4, <2>1 DEF Part
<1>8. QED
  BY <1>2, <1>6, <1>7 DEF LogInv

LEMMA LogStep == LogInv /\ [LogNext]_logVars => LogInv'
<1> SUFFICES ASSUME LogInv, [LogNext]_logVars PROVE LogInv'
  OBVIOUS
<1>1. CASE \E payload \in Payload : Frame(payload)
  BY <1>1, FrameKeeps
<1>2. CASE HeaderEnds
  <2>1. /\ log = "reading" /\ log' = "ended" /\ line' = <<>> /\ received' = received
        /\ dropped' = dropped
        /\ emitted' = IF line = <<>> THEN emitted ELSE Append(emitted, line)
    BY <1>2 DEF HeaderEnds
  <2>2. /\ line \in Seq(Byte) /\ line \in Seq(Char) /\ emitted \in Seq(Seq(Byte))
        /\ received \in Seq(Char) /\ Text(emitted) \o line = received
        /\ Text(emitted) \in Seq(Char)
    <3>1. /\ line \in Seq(Byte) /\ emitted \in Seq(Seq(Byte)) /\ received \in Seq(Char)
          /\ Text(emitted) \o line = received
      BY <2>1 DEF LogInv
    <3>2. QED
      BY <3>1, SeqMonotonic, TextTyped DEF Char
  <2>3. CASE line = <<>>
    <3>1. Text(emitted) = received
      BY <2>2, <2>3, ConcatEmptySeq
    <3>2. Finished(received)
      BY <2>2, <3>1, TextFinished
    <3>3. QED
      BY <2>1, <2>2, <2>3, <3>1, <3>2 DEF LogInv
  <2>4. CASE line # <<>>
    <3> DEFINE more == Append(emitted, line)
    <3>1. emitted' = more
      BY <2>1, <2>4
    <3>2. more \in Seq(Seq(Byte)) /\ <<>> \in Seq(Byte)
      BY <2>2, AppendProperties
    <3>3. Text(more) = Text(emitted) \o Append(line, Feed)
      BY <2>2, TextOfMore
    <3>4. Text(emitted) \o Append(line, Feed) = Append(received, Feed)
      <4> DEFINE T == Text(emitted)
      <4>1. Feed \in Char /\ <<Feed>> \in Seq(Char)
        BY DEF Char
      <4>2. Append(line, Feed) = line \o <<Feed>> /\ Append(received, Feed) = received \o <<Feed>>
        BY <2>2, <4>1, AppendIsConcat
      <4>3. (T \o line) \o <<Feed>> = T \o (line \o <<Feed>>)
        <5>1. T \in Seq(Char) /\ line \in Seq(Char) /\ <<Feed>> \in Seq(Char)
          BY <2>2, <4>1
        <5> HIDE DEF T
        <5>2. QED
          BY <5>1, ConcatAssociative
      <4>4. QED
        BY <2>2, <4>2, <4>3
    <3>5. ~Finished(received)
      <4> DEFINE T == Text(emitted)
                 n == Len(T) + Len(line)
      <4>1. T \in Seq(Char) /\ line \in Seq(Char) /\ T \o line = received
        BY <2>2
      <4>2. /\ Len(T) \in Nat /\ Len(line) \in Nat /\ Len(line) >= 1
            /\ line[Len(line)] \in Byte
        BY <2>2, <2>4, EmptySeq
      <4> HIDE DEF T
      <4>3. n \in 1..(Len(T) + Len(line)) /\ ~(n <= Len(T)) /\ n - Len(T) = Len(line)
        BY <4>2
      <4>4. (T \o line)[n] = IF n <= Len(T) THEN T[n] ELSE line[n - Len(T)]
        BY <4>1, <4>3, ConcatProperties
      <4>5. Len(received) = n /\ n # 0 /\ received[n] = line[Len(line)]
        BY <4>1, <4>2, <4>3, <4>4, ConcatProperties
      <4>6. QED
        BY <4>2, <4>5, LogAssumption DEF Finished
    <3> HIDE DEF more
    <3>6. Text(emitted') = Append(received', Feed)
      BY <2>1, <3>1, <3>3, <3>4
    <3>7. QED
      BY <2>1, <2>2, <3>1, <3>2, <3>5, <3>6 DEF LogInv
  <2>5. QED
    BY <2>3, <2>4
<1>3. CASE PayloadEnds
  <2>1. <<>> \in Seq(Byte)
    OBVIOUS
  <2>2. QED
    BY <1>3, <2>1 DEF PayloadEnds, LogInv
<1>4. CASE Follow
  <2>1. /\ log' = "reading" /\ line' = <<>> /\ emitted' = <<>> /\ received' = <<>>
        /\ dropped' = <<>>
    BY <1>4 DEF Follow
  <2>2. Text(emitted') \o line' = <<>>
    BY <2>1, TextOfNone
  <2>3. /\ line' \in Seq(Byte) /\ dropped' \in Seq(Byte) /\ emitted' \in Seq(Seq(Byte))
        /\ received' \in Seq(Char)
    BY <2>1
  <2>4. QED
    BY <2>1, <2>2, <2>3 DEF LogInv
<1>5. CASE UNCHANGED logVars
  BY <1>5 DEF logVars, LogInv
<1>6. QED
  BY <1>1, <1>2, <1>3, <1>4, <1>5 DEF LogNext

(* StreamLines: however frames cut the lines of a log, they are sent whole, *)
(* in order and once, and only a log that ends inside a frame loses its    *)
(* begun line.                                                             *)
THEOREM LinesCorrect == LogSpec => []LinesAreWhole
<1>1. LogInv => LinesAreWhole
  <2> SUFFICES ASSUME LogInv PROVE LinesAreWhole
    OBVIOUS
  <2>1. /\ line \in Seq(Byte) /\ dropped \in Seq(Byte) /\ emitted \in Seq(Seq(Byte))
        /\ Feed \notin Byte
    BY LogAssumption DEF LogInv
  <2>2. ASSUME NEW l \in {line, dropped} \cup {emitted[i] : i \in DOMAIN emitted},
               NEW j \in DOMAIN l
        PROVE  l[j] # Feed
    <3>1. l \in Seq(Byte)
      BY <2>1
    <3>2. l[j] \in Byte
      BY <3>1
    <3>3. QED
      BY <2>1, <3>2
  <2>3. QED
    BY <2>2 DEF LogInv, LinesAreWhole
<1>2. QED
  BY <1>1, LogInitial, LogStep, PTL DEF LogSpec
----------------------------------------------------------------------------
(* The metrics stream, for any width of the counters, and streams of any   *)
(* length.                                                                 *)

(* What a metrics stream needs to stay true. *)
MetricsInv ==
    /\ stat \in [user : Nat, idle : Nat, iowait : Nat]
    /\ stat.user + stat.idle + stat.iowait <= Limit
    /\ bytes \in 0..(W - 1) /\ grown \in 0..Limit
    /\ back \in BOOLEAN /\ amiss \in BOOLEAN
    /\ prev \in [cpu : [idle : Nat, total : Nat], rx : 0..(W - 1)]
    /\ prev.cpu.idle <= prev.cpu.total /\ prev.cpu.total <= Limit
    /\ ~back => /\ prev.cpu.idle <= CPUSample.idle
                /\ prev.cpu.total - prev.cpu.idle <= CPUSample.total - CPUSample.idle
    /\ ~amiss => Minus64(bytes, prev.rx) = grown
    /\ TicksAreTrue

(* Differences of counters modulo W. *)
LEMMA ModTyped == ASSUME NEW x \in Int PROVE x % W \in 0..(W - 1)
<1>1. W \in Nat /\ W > 0
  BY CounterAssumption
<1>2. QED
  BY <1>1

(* Of a division, that the remainder is one number.                        *)
LEMMA DivUnique ==
    ASSUME NEW b \in Nat, b > 0, NEW k \in Int, NEW l \in Int,
           NEW r \in 0..(b - 1), NEW s \in 0..(b - 1), b * k + r = b * l + s
    PROVE  r = s
<1>1. CASE k = l
  BY <1>1
<1>2. CASE k > l
  <2>1. PICK d \in Nat : k = l + 1 + d
    <3>1. k - l - 1 \in Nat /\ k = l + 1 + (k - l - 1)
      BY <1>2
    <3>2. QED
      BY <3>1
  <2>2. b * k = b * l + b + b * d /\ b * d \in Nat
    BY <2>1
  <2>3. b * k \in Int /\ b * l \in Int
    OBVIOUS
  <2> DEFINE x == b * k
             y == b * l
             z == b * d
  <2>4. x \in Int /\ y \in Int /\ z \in Nat /\ x = y + b + z /\ x + r = y + s
    BY <2>2, <2>3
  <2> HIDE DEF x, y, z
  <2>5. QED
    BY <2>4
<1>3. CASE l > k
  <2>1. PICK d \in Nat : l = k + 1 + d
    <3>1. l - k - 1 \in Nat /\ l = k + 1 + (l - k - 1)
      BY <1>3
    <3>2. QED
      BY <3>1
  <2>2. b * l = b * k + b + b * d /\ b * d \in Nat
    BY <2>1
  <2>3. b * k \in Int /\ b * l \in Int
    OBVIOUS
  <2> DEFINE x == b * k
             y == b * l
             z == b * d
  <2>4. x \in Int /\ y \in Int /\ z \in Nat /\ y = x + b + z /\ x + r = y + s
    BY <2>2, <2>3
  <2> HIDE DEF x, y, z
  <2>5. QED
    BY <2>4
<1>4. QED
  BY <1>1, <1>2, <1>3

LEMMA DivMod ==
    ASSUME NEW b \in Nat, b > 0, NEW x \in Int
    PROVE  x \div b \in Int /\ x % b \in 0..(b - 1) /\ x = b * (x \div b) + (x % b)
OBVIOUS

LEMMA ModPlus ==
    ASSUME NEW b \in Nat, b > 0, NEW x \in Int, NEW y \in Int
    PROVE  (x + (y % b)) % b = (x + y) % b
<1> DEFINE r == y % b
           q == y \div b
           u == x + r
           v == x + y
<1>1. r \in 0..(b - 1) /\ q \in Int /\ y = b * q + r
  BY DivMod
<1>2. u \in Int /\ v \in Int /\ v = u + b * q
  <2>1. b * q \in Int
    BY <1>1
  <2> DEFINE z == b * q
  <2>2. z \in Int /\ y = z + r
    BY <1>1, <2>1
  <2> HIDE DEF z, r, q
  <2>3. x + r \in Int /\ x + y \in Int /\ x + y = x + r + z
    BY <1>1, <2>2
  <2>4. QED
    BY <2>3 DEF z
<1>3. /\ u \div b \in Int /\ u % b \in 0..(b - 1) /\ u = b * (u \div b) + (u % b)
      /\ v \div b \in Int /\ v % b \in 0..(b - 1) /\ v = b * (v \div b) + (v % b)
  BY <1>2, DivMod
<1> DEFINE k == u \div b
           l == v \div b
           s == u % b
           t == v % b
<1>4. /\ k \in Int /\ s \in 0..(b - 1) /\ u = b * k + s /\ l \in Int /\ t \in 0..(b - 1)
      /\ v = b * l + t
  BY <1>3
<1> HIDE DEF r, q, u, v, k, l, s, t
<1>5. b * (k + q) + s = b * l + t
  <2>1. b * (k + q) = b * k + b * q /\ b * k \in Int /\ b * q \in Int
    BY <1>1, <1>4
  <2> DEFINE z == b * q
             w == b * k
  <2>2. b * (k + q) = w + z /\ w \in Int /\ z \in Int /\ v = u + z /\ u = w + s
    BY <1>2, <1>4, <2>1
  <2> HIDE DEF z, w
  <2>3. b * (k + q) + s = v
    BY <1>4, <2>2
  <2>4. QED
    BY <1>4, <2>3
<1>6. k + q \in Int
  BY <1>1, <1>4
<1>7. s = t
  BY <1>4, <1>5, <1>6, DivUnique
<1>8. QED
  BY <1>7 DEF s, t, u, v, r

LEMMA ModSmall == ASSUME NEW x \in Int, 0 <= x, x < W PROVE x % W = x
<1>1. W \in Nat /\ W > 0
  BY CounterAssumption
<1>2. QED
  BY <1>1

LEMMA ModBelow == ASSUME NEW x \in Int, x < 0, 0 <= x + W PROVE x % W = x + W
<1>1. W \in Nat /\ W > 0
  BY CounterAssumption
<1>2. QED
  BY <1>1

(* A counter that grows keeps its distance from an earlier value, also     *)
(* when it wraps.                                                          *)
LEMMA GrownSince ==
    ASSUME NEW b \in 0..(W - 1), NEW p \in 0..(W - 1), NEW d \in Nat,
           NEW g \in Nat, Minus64(b, p) = g, g + d <= Limit
    PROVE  Minus64((b + d) % W, p) = g + d
<1>1. W \in Nat /\ W > 0 /\ Limit \in Nat /\ Limit < W
  BY CounterAssumption
<1> DEFINE x == -p
           y == b + d
           z == b - p
<1>2. x \in Int /\ y \in Int /\ z \in Int /\ d \in Int /\ x + y = d + z
  OBVIOUS
<1>3. (x + (y % W)) % W = (x + y) % W
  BY <1>1, <1>2, ModPlus
<1>4. (d + (z % W)) % W = (d + z) % W
  BY <1>1, <1>2, ModPlus
<1>5. z % W = g
  BY DEF Minus64
<1>6. (d + g) % W = d + g
  BY <1>1, ModSmall
<1>7. Minus64(y % W, p) = (x + (y % W)) % W
  <2>1. y % W \in Int
    BY <1>1, <1>2
  <2> HIDE DEF y
  <2>2. (y % W) - p = x + (y % W)
    BY <2>1
  <2>3. QED
    BY <2>2 DEF Minus64
<1> HIDE DEF x, y, z
<1>8. Minus64(y % W, p) = d + g
  BY <1>2, <1>3, <1>4, <1>5, <1>6, <1>7
<1>9. QED
  BY <1>8 DEF y

(* Numbers that round1 makes a percentage of. *)
Enough(n, d) == 0 <= 2000 * n + d
Permille == 0..1000

LEMMA Tenths ==
    ASSUME NEW d \in Nat, d > 0, NEW n \in Int, Enough(n, d), n <= d
    PROVE  round1(n, d) \in Permille
<1> DEFINE m == 2000 * n + d
<1>1. m \in Nat /\ m <= 2001 * d
  BY DEF Enough
<1> HIDE DEF m
<1>2. m \div (2 * d) \in 0..1000
  BY <1>1
<1>3. QED
  BY <1>1, <1>2 DEF round1, m, Permille

(* The share of the time between two samples is none, all or some of it. *)
LEMMA Share ==
    ASSUME MetricsInv, ~back, NEW cpu \in {CPUSample, Unread}
    PROVE  cpuPct(cpu) \in Permille
<1> DEFINE pi == prev.cpu.idle
           pt == prev.cpu.total
           dTot == Minus64(cpu.total, prev.cpu.total)
           dIdle == Minus64(cpu.idle, prev.cpu.idle)
<1>1. /\ pi \in Nat /\ pt \in Nat /\ pi <= pt /\ pt <= Limit
      /\ W \in Nat /\ Limit \in Nat /\ 2001 * Limit <= W /\ W > 0
  BY CounterAssumption DEF MetricsInv
<1>2. ASSUME dTot \in Nat, dTot - dIdle \in Int, dTot - dIdle <= dTot, Enough(dTot - dIdle, dTot)
      PROVE  cpuPct(cpu) \in Permille
  <2>1. cpuPct(cpu) = IF dTot > 0 THEN round1(dTot - dIdle, dTot) ELSE 0
    BY DEF cpuPct
  <2> HIDE DEF dTot, dIdle
  <2>2. dTot > 0 => round1(dTot - dIdle, dTot) \in Permille
    BY <1>2, Tenths
  <2>3. 0 \in Permille
    BY DEF Permille
  <2>4. QED
    BY <2>1, <2>2, <2>3
<1>3. CASE cpu = CPUSample
  <2> DEFINE i == CPUSample.idle
             t == CPUSample.total
  <2>1. i \in Nat /\ t \in Nat /\ i <= t /\ t <= Limit /\ pi <= i /\ pt - pi <= t - i
    BY DEF MetricsInv, CPUSample
  <2>2. dTot = (t - pt) % W /\ dIdle = (i - pi) % W
    BY <1>3 DEF Minus64
  <2> HIDE DEF i, t, pi, pt, dTot, dIdle
  <2>3. /\ t - pt \in Nat /\ t - pt < W /\ i - pi \in Nat /\ i - pi < W
        /\ i - pi <= t - pt
    BY <1>1, <2>1
  <2>4. dTot = t - pt /\ dIdle = i - pi
    BY <2>2, <2>3, ModSmall
  <2>5. dTot \in Nat /\ dTot - dIdle \in Nat /\ dTot - dIdle <= dTot
    BY <2>3, <2>4
  <2>6. Enough(dTot - dIdle, dTot)
    BY <2>5 DEF Enough
  <2>7. QED
    BY <1>2, <2>5, <2>6 DEF dTot, dIdle
<1>4. CASE cpu = Unread
  <2>1. dTot = (0 - pt) % W /\ dIdle = (0 - pi) % W
    BY <1>4 DEF Unread, Minus64
  <2> HIDE DEF pi, pt, dTot, dIdle
  <2>2. ASSUME NEW x \in Nat, x <= Limit
        PROVE  (0 - x) % W = IF x = 0 THEN 0 ELSE W - x
    <3>1. 0 - x \in Int /\ 0 <= (0 - x) + W /\ (0 - x) + W = W - x /\ (x = 0 => 0 - x = 0)
      BY <1>1, <2>2
    <3>2. CASE x = 0
      BY <1>1, <3>1, <3>2, ModSmall
    <3>3. CASE x # 0
      BY <2>2, <3>1, <3>3, ModBelow
    <3>4. QED
      BY <3>2, <3>3
  <2>3. /\ dTot = IF pt = 0 THEN 0 ELSE W - pt
        /\ dIdle = IF pi = 0 THEN 0 ELSE W - pi
    BY <1>1, <2>1, <2>2
  <2>4. /\ dTot \in Nat /\ dTot - dIdle \in Int /\ dTot - dIdle <= dTot
        /\ 0 <= 2000 * (dTot - dIdle) + dTot
    BY <1>1, <2>3
  <2>5. Enough(dTot - dIdle, dTot)
    BY <2>4 DEF Enough
  <2>6. QED
    BY <1>2, <2>4, <2>5 DEF dTot, dIdle
<1>5. QED
  BY <1>3, <1>4

LEMMA MetricsInitial == MetricsInit => MetricsInv
<1> SUFFICES ASSUME MetricsInit PROVE MetricsInv
  OBVIOUS
<1>1. PICK rx \in NetCounters : prev = [cpu |-> CPUSample, rx |-> rx] /\ amiss = (rx # First)
  BY DEF MetricsInit
<1>2. Minus64(First, First) = 0 /\ First \in 0..(W - 1) /\ 0 \in 0..(W - 1) /\ Limit \in Nat
  BY CounterAssumption, ModSmall DEF Minus64
<1>3. stat = NoTime /\ bytes = First /\ tick = NoTick /\ grown = 0 /\ back = FALSE
  BY DEF MetricsInit
<1>4. CPUSample = Unread /\ rx \in {First, 0}
  BY <1>3 DEF CPUSample, NoTime, Unread, NetCounters
<1>5. /\ stat.user = 0 /\ stat.idle = 0 /\ stat.iowait = 0
      /\ stat \in [user : Nat, idle : Nat, iowait : Nat]
      /\ CPUSample.idle = 0 /\ CPUSample.total = 0 /\ prev.cpu.idle = 0 /\ prev.cpu.total = 0
      /\ prev.rx = rx
  BY <1>1, <1>3, <1>4 DEF NoTime, Unread
<1>6. prev \in [cpu : [idle : Nat, total : Nat], rx : 0..(W - 1)]
  BY <1>1, <1>2, <1>4 DEF Unread
<1>7. TicksAreTrue
  BY <1>3 DEF TicksAreTrue, NoTick
<1>8. ~amiss => Minus64(bytes, prev.rx) = grown
  BY <1>1, <1>2, <1>3, <1>5
<1>9. /\ stat.user + stat.idle + stat.iowait <= Limit
      /\ prev.cpu.idle <= prev.cpu.total /\ prev.cpu.total <= Limit
      /\ prev.cpu.idle <= CPUSample.idle
      /\ prev.cpu.total - prev.cpu.idle <= CPUSample.total - CPUSample.idle
  <2>1. 0 + 0 + 0 <= Limit /\ 0 <= 0 /\ 0 <= Limit /\ 0 - 0 <= 0 - 0
    BY <1>2
  <2>2. QED
    BY <1>5, <2>1
<1>10. /\ bytes \in 0..(W - 1) /\ grown \in 0..Limit /\ back \in BOOLEAN /\ amiss \in BOOLEAN
  <2>1. amiss \in BOOLEAN /\ back \in BOOLEAN
    BY <1>1, <1>3, Zenon
  <2>2. bytes \in 0..(W - 1) /\ grown \in 0..Limit
    BY <1>2, <1>3
  <2>3. QED
    BY <2>1, <2>2
<1>11. QED
  BY <1>5, <1>6, <1>7, <1>8, <1>9, <1>10, Zenon DEF MetricsInv

LEMMA MetricsStep == MetricsInv /\ [MetricsNext]_metricsVars => MetricsInv'
<1> SUFFICES ASSUME MetricsInv, [MetricsNext]_metricsVars PROVE MetricsInv'
  OBVIOUS
<1>1. CASE Count
  <2>1. PICK u \in Growth, i \in Growth, w \in Growth \cup {-1} :
            /\ stat' = [user |-> stat.user + u, idle |-> stat.idle + i, iowait |-> stat.iowait + w]
            /\ stat'.iowait >= 0
            /\ stat'.user + stat'.idle + stat'.iowait <= Limit
            /\ back' = (back \/ w < 0)
    BY <1>1 DEF Count
  <2>2. u \in Nat /\ i \in Nat /\ w \in Int /\ (w < 0 \/ w \in Nat)
    BY CounterAssumption
  <2>3. /\ stat' \in [user : Nat, idle : Nat, iowait : Nat]
        /\ stat'.user = stat.user + u /\ stat'.idle = stat.idle + i
        /\ stat'.iowait = stat.iowait + w
    BY <2>1, <2>2 DEF MetricsInv
  <2>5. UNCHANGED <<prev, tick>>
    BY <1>1 DEF Count
  <2>4. /\ bytes' \in 0..(W - 1) /\ grown' \in 0..Limit /\ amiss' \in BOOLEAN
        /\ ~amiss' => Minus64(bytes', prev'.rx) = grown'
    <3>1. /\ bytes \in 0..(W - 1) /\ prev.rx \in 0..(W - 1) /\ grown \in 0..Limit
          /\ amiss \in BOOLEAN /\ (~amiss => Minus64(bytes, prev.rx) = grown)
          /\ W \in Nat /\ W > 0 /\ Limit \in Nat
      BY CounterAssumption DEF MetricsInv
    <3>2. CountBytes
      BY <1>1 DEF Count
    <3>3. CASE bytes' = 0 /\ amiss' = TRUE /\ UNCHANGED grown
      BY <3>1, <3>3
    <3>4. ASSUME NEW d \in Growth, bytes' = (bytes + d) % W, grown' = grown + d,
                 grown' <= Limit, UNCHANGED amiss
          PROVE  /\ bytes' \in 0..(W - 1) /\ grown' \in 0..Limit /\ amiss' \in BOOLEAN
                 /\ ~amiss' => Minus64(bytes', prev'.rx) = grown'
      <4>1. d \in Nat /\ bytes + d \in Int
        BY <3>1, CounterAssumption
      <4>2. bytes' \in 0..(W - 1)
        BY <3>4, <4>1, ModTyped
      <4>3. grown' \in 0..Limit
        BY <3>1, <3>4, <4>1
      <4>4. ~amiss => Minus64((bytes + d) % W, prev.rx) = grown + d
        BY <3>1, <3>4, <4>1, GrownSince
      <4>5. QED
        BY <2>5, <3>1, <3>4, <4>2, <4>3, <4>4
    <3>5. QED
      BY <3>2, <3>3, <3>4 DEF CountBytes
  <2>6. ~back' => /\ prev'.cpu.idle <= CPUSample'.idle
                  /\ prev'.cpu.total - prev'.cpu.idle <= CPUSample'.total - CPUSample'.idle
    <3> DEFINE p == prev.cpu
    <3>1. /\ CPUSample'.idle = stat.idle + i + (stat.iowait + w)
          /\ CPUSample'.total = stat.user + u + (stat.idle + i) + (stat.iowait + w)
          /\ CPUSample.idle = stat.idle + stat.iowait
          /\ CPUSample.total = stat.user + stat.idle + stat.iowait
          /\ prev' = prev
      BY <2>3, <2>5 DEF CPUSample
    <3>2. /\ stat.user \in Nat /\ stat.idle \in Nat /\ stat.iowait \in Nat
          /\ p.idle \in Nat /\ p.total \in Nat /\ back \in BOOLEAN
          /\ ~back => p.idle <= CPUSample.idle /\ p.total - p.idle <= CPUSample.total - CPUSample.idle
      BY DEF MetricsInv
    <3> HIDE DEF p
    <3>3. ~back' => ~back /\ w \in Nat
      BY <2>1, <2>2
    <3>4. ~back' => /\ p.idle <= CPUSample'.idle
                    /\ p.total - p.idle <= CPUSample'.total - CPUSample'.idle
      BY <2>2, <3>1, <3>2, <3>3
    <3>5. QED
      BY <3>1, <3>4 DEF p
  <2>7. TicksAreTrue'
    BY <2>5 DEF MetricsInv, TicksAreTrue
  <2>8. back' \in BOOLEAN
    BY <2>1 DEF MetricsInv
  <2>9. QED
    BY <2>1, <2>3, <2>4, <2>5, <2>6, <2>7, <2>8 DEF MetricsInv
<1>2. ASSUME NEW cpu \in {CPUSample, Unread}, NEW rx \in NetCounters, Emit(cpu, rx)
      PROVE  MetricsInv'
  <2>1. /\ prev' = [cpu |-> cpu, rx |-> rx] /\ back' = FALSE /\ UNCHANGED <<stat, bytes>>
        /\ tick' = [cpu |-> cpuPct(cpu), rx |-> float64(Minus64(rx, prev.rx)), back |-> back,
                    grown |-> grown, amiss |-> amiss \/ rx # bytes]
        /\ grown' = 0 /\ amiss' = (rx # bytes)
    BY <1>2 DEF Emit, Ticked
  <2>2. /\ cpu \in [idle : Nat, total : Nat] /\ cpu.idle <= cpu.total /\ cpu.total <= Limit
        /\ cpu.idle <= CPUSample.idle /\ cpu.total - cpu.idle <= CPUSample.total - CPUSample.idle
    BY CounterAssumption DEF MetricsInv, CPUSample, Unread
  <2>3. /\ rx \in 0..(W - 1) /\ grown' \in 0..Limit /\ amiss' \in BOOLEAN
        /\ ~amiss' => Minus64(bytes', prev'.rx) = grown'
    <3>1. /\ W \in Nat /\ W > 0 /\ Limit \in Nat /\ bytes \in 0..(W - 1)
      BY CounterAssumption DEF MetricsInv
    <3>2. rx \in 0..(W - 1) /\ prev'.rx = rx
      BY <2>1, <3>1 DEF NetCounters
    <3>3. Minus64(bytes, bytes) = 0
      BY <3>1, ModSmall DEF Minus64
    <3>4. grown' \in 0..Limit
      BY <2>1, <3>1
    <3>5. amiss' \in BOOLEAN
      BY <2>1, Zenon
    <3>6. ~amiss' => bytes' = bytes /\ prev'.rx = bytes
      BY <2>1, <3>2
    <3>7. ~amiss' => Minus64(bytes', prev'.rx) = grown'
      BY <2>1, <3>3, <3>6
    <3>8. QED
      BY <3>2, <3>4, <3>5, <3>7
  <2>4. ~tick'.amiss => tick'.rx = tick'.grown
    <3>1. /\ tick'.amiss = (amiss \/ rx # bytes) /\ tick'.grown = grown
          /\ tick'.rx = float64(Minus64(rx, prev.rx))
      BY <2>1
    <3>2. grown \in 0..Limit /\ (~amiss => Minus64(bytes, prev.rx) = grown)
      BY DEF MetricsInv
    <3>3. float64(grown) = grown
      BY <3>2, CounterAssumption DEF float64
    <3>4. QED
      BY <3>1, <3>2, <3>3
  <2>5. ~tick'.back => tick'.cpu \in 0..1000
    BY <2>1, Share DEF MetricsInv, Permille
  <2>6. prev' \in [cpu : [idle : Nat, total : Nat], rx : 0..(W - 1)]
    BY <2>1, <2>2, <2>3
  <2>7. CPUSample' = CPUSample /\ prev'.cpu = cpu /\ back' = FALSE
    BY <2>1 DEF CPUSample
  <2>8. /\ prev'.cpu.idle <= prev'.cpu.total /\ prev'.cpu.total <= Limit
        /\ prev'.cpu.idle <= CPUSample'.idle
        /\ prev'.cpu.total - prev'.cpu.idle <= CPUSample'.total - CPUSample'.idle
    BY <2>2, <2>7, Zenon
  <2>9. TicksAreTrue'
    BY <2>4, <2>5, Zenon DEF TicksAreTrue
  <2>10. /\ stat' \in [user : Nat, idle : Nat, iowait : Nat]
         /\ stat'.user + stat'.idle + stat'.iowait <= Limit
         /\ bytes' \in 0..(W - 1) /\ back' \in BOOLEAN
    BY <2>1 DEF MetricsInv
  <2>11. QED
    BY <2>3, <2>6, <2>8, <2>9, <2>10, Zenon DEF MetricsInv
<1>3. CASE Reopen
  <2>1. /\ stat' = NoTime /\ bytes' = First /\ prev' = [cpu |-> Unread, rx |-> First]
        /\ tick' = NoTick /\ grown' = 0 /\ amiss' = FALSE /\ back' = FALSE
    BY <1>3 DEF Reopen
  <2>2. Minus64(First, First) = 0
    BY CounterAssumption, ModSmall DEF Minus64
  <2>3. /\ stat'.user = 0 /\ stat'.idle = 0 /\ stat'.iowait = 0
        /\ stat' \in [user : Nat, idle : Nat, iowait : Nat]
        /\ prev'.cpu.idle = 0 /\ prev'.cpu.total = 0 /\ prev'.rx = First
    BY <2>1 DEF NoTime, Unread
  <2>4. CPUSample'.idle = 0 /\ CPUSample'.total = 0
    BY <2>3 DEF CPUSample
  <2>5. prev' \in [cpu : [idle : Nat, total : Nat], rx : 0..(W - 1)]
    BY <2>1, CounterAssumption DEF Unread
  <2>6. First \in 0..(W - 1) /\ Limit \in Nat
    BY CounterAssumption
  <2>7. TicksAreTrue'
    BY <2>1 DEF TicksAreTrue, NoTick
  <2>8. /\ stat'.user + stat'.idle + stat'.iowait <= Limit
        /\ prev'.cpu.idle <= prev'.cpu.total /\ prev'.cpu.total <= Limit
        /\ prev'.cpu.idle <= CPUSample'.idle
        /\ prev'.cpu.total - prev'.cpu.idle <= CPUSample'.total - CPUSample'.idle
    <3>1. 0 + 0 + 0 <= Limit /\ 0 <= 0 /\ 0 <= Limit /\ 0 - 0 <= 0 - 0
      BY <2>6
    <3>2. QED
      BY <2>3, <2>4, <3>1
  <2>9. /\ bytes' \in 0..(W - 1) /\ grown' \in 0..Limit /\ back' \in BOOLEAN
        /\ amiss' \in BOOLEAN
    <3>1. 0 \in 0..Limit
      BY <2>6
    <3>2. QED
      BY <2>1, <2>6, <3>1
  <2>10. ~amiss' => Minus64(bytes', prev'.rx) = grown'
    BY <2>1, <2>2, <2>3
  <2>11. QED
    BY <2>3, <2>5, <2>7, <2>8, <2>9, <2>10, Zenon DEF MetricsInv
<1>4. CASE UNCHANGED metricsVars
  BY <1>4 DEF metricsVars, MetricsInv, TicksAreTrue, CPUSample, Minus64
<1>5. QED
  BY <1>1, <1>2, <1>3, <1>4 DEF MetricsNext

(* handleMetricsSSE: a tick tells what the interface counted since the one *)
(* before if the counter went on and was read, and the utilisation is one  *)
(* of 0 to 100 percent unless iowait went back.                            *)
THEOREM TicksCorrect == MetricsSpec => []TicksAreTrue
<1>1. MetricsInv => TicksAreTrue
  BY DEF MetricsInv
<1>2. QED
  BY <1>1, MetricsInitial, MetricsStep, PTL DEF MetricsSpec
=============================================================================
