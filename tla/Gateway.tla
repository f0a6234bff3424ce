------------------------------ MODULE Gateway -------------------------------
(***************************************************************************)
(* The life of the gateway process (cmd/gateway-manager/main.go): the pair *)
(* of TLS files made on the first boot (internal/httpserver/tls.go),       *)
(* serving container actions and event streams, and the shutdown that      *)
(* waits for both; with crashes, failing writes and operators who bring    *)
(* their own pair.                                                         *)
(***************************************************************************)
EXTENDS Containers

CONSTANTS
    Stream,         \* event streams browsers open: metrics and logs
    Drain,          \* how long Shutdown waits
    Pair            \* key pairs: those the gateway makes, and Own
CONSTANT Own        \* the pair an operator brings

Absent == "absent"
Half == "half"

ASSUME GatewayAssumption ==
    /\ Own \in Pair /\ Pair \cap {Absent, Half, None} = {} /\ None \notin {0, 1}
    /\ Drain \in Nat /\ ActionTimeout < Drain

VARIABLES
    proc,       \* where main is
    exit,       \* exit status of the last run, None for a crash or none yet
    left,       \* what is left of Shutdown's timeout
    stream,     \* stream[s]: "none", "open" or "done"
    cert, key,  \* the two files: absent, half-written, or of a pair
    making,     \* the pair EnsureSelfSignedCert is writing
    served,     \* history, the pair the last server used, until it is touched
    torn,       \* history, a key file was left half-written
    touched     \* history, the operator changed the files

filesVars == <<cert, key, making>>
mainVars == <<proc, exit, left>>
histVars == <<served, torn, touched>>
gatewayVars == <<mainVars, stream, filesVars, histVars>>
allVars == <<containerVars, gatewayVars>>

Proc == {"down", "cert", "certopen", "key", "keyopen", "listen", "serve", "drain"}

TypeOK ==
    /\ selfHost \in Seq(Nat) /\ running \in [Container -> BOOLEAN]
    /\ job \in [Request -> Job]
    /\ req \in [Request -> Handler]
    /\ rows \subseteq BOOLEAN \X Request
    /\ proc \in Proc /\ exit \in {None, 0, 1} /\ left \in 0..Drain
    /\ stream \in [Stream -> {"none", "open", "done"}]
    /\ {cert, key} \subseteq Pair \cup {Absent, Half}
    /\ making \in Pair \cup {None} /\ served \in Pair \cup {None}
    /\ torn \in BOOLEAN /\ touched \in BOOLEAN
    /\ \A r \in Request : At(r, "sent") \/ At(r, "record") => proc \in {"serve", "drain"}

Init ==
    /\ ContainersInit
    /\ proc = "down" /\ exit = None /\ left = 0
    /\ stream = [s \in Stream |-> "none"]
    /\ cert = Absent /\ key = Absent /\ making = None
    /\ served = None /\ torn = FALSE /\ touched = FALSE

fileExists(f) == f # Absent
Unused(p) == p \notin {cert, key, served, Own}

----------------------------------------------------------------------------
(* Wrong variants: a boot that looks at the certificate only, and one that *)
(* makes a new pair every time.                                            *)
BootCertOnly ==
    /\ proc = "down"
    /\ IF fileExists(cert)
       THEN proc' = "listen" /\ UNCHANGED making
       ELSE proc' = "cert" /\ \E p \in Pair : Unused(p) /\ making' = p
    /\ exit' = None
    /\ UNCHANGED <<containerVars, left, stream, cert, key, histVars>>

BootAnew ==
    /\ proc = "down"
    /\ proc' = "cert" /\ \E p \in Pair : Unused(p) /\ making' = p
    /\ exit' = None
    /\ UNCHANGED <<containerVars, left, stream, cert, key, histVars>>

(* main: EnsureSelfSignedCert makes a pair unless both files exist. *)
Boot ==
    /\ proc = "down"
    /\ IF fileExists(cert) /\ fileExists(key)
       THEN proc' = "listen" /\ UNCHANGED making
       ELSE proc' = "cert" /\ \E p \in Pair : Unused(p) /\ making' = p
    /\ exit' = None
    /\ UNCHANGED <<containerVars, left, stream, cert, key, histVars>>

(* writePEM opens and truncates, then encodes: first cert.pem, ... *)
OpenCert ==
    /\ proc = "cert" /\ proc' = "certopen"
    /\ cert' = Half
    /\ UNCHANGED <<containerVars, exit, left, stream, key, making, histVars>>

WriteCert ==
    /\ proc = "certopen" /\ proc' = "key"
    /\ cert' = making
    /\ UNCHANGED <<containerVars, exit, left, stream, key, making, histVars>>

(* ... then key.pem. *)
OpenKey ==
    /\ proc = "key" /\ proc' = "keyopen"
    /\ key' = Half
    /\ UNCHANGED <<containerVars, exit, left, stream, cert, making, histVars>>

WriteKey ==
    /\ proc = "keyopen" /\ proc' = "listen"
    /\ key' = making
    /\ UNCHANGED <<containerVars, exit, left, stream, cert, making, histVars>>

(* The process is gone, and with it its handlers and streams. *)
Gone(status) ==
    /\ proc' = "down" /\ exit' = status /\ left' = 0
    /\ req' = [r \in Request |->
           IF req[r].pc \in {"idle", "done"} THEN req[r]
           ELSE HandlerIs("dead")]
    /\ stream' = [s \in Stream |->
           IF stream[s] = "open" THEN "done" ELSE stream[s]]
    /\ making' = None

(* log.Fatalf, when a file could not be opened or written. *)
WriteFails ==
    /\ proc \in {"cert", "certopen", "key", "keyopen"}
    /\ Gone(1)
    /\ torn' = (torn \/ proc = "keyopen")
    /\ UNCHANGED <<selfHost, running, job, rows, cert, key, served, touched>>

(* ListenAndServeTLS loads the pair; if the files do not belong together   *)
(* the process ends, as it will after every later boot.                    *)
Listen ==
    /\ proc = "listen"
    /\ cert = key /\ cert \in Pair
    /\ proc' = "serve" /\ making' = None
    /\ served' = IF touched THEN None ELSE cert
    /\ UNCHANGED <<containerVars, exit, left, stream, cert, key, torn, touched>>

ListenFails ==
    /\ proc = "listen"
    /\ ~(cert = key /\ cert \in Pair)
    /\ Gone(1)
    /\ UNCHANGED <<selfHost, running, job, rows, cert, key, histVars>>

(* An operator replaces the pair, removes it, or is half done with that;   *)
(* once, which is a bound.                                                 *)
Bring ==
    /\ proc \in {"down", "serve"} /\ ~touched
    /\ cert' \in {cert, Own, Absent}
    /\ key' \in {key, Own, Absent}
    /\ touched' = TRUE /\ served' = None
    /\ UNCHANGED <<containerVars, mainVars, stream, making, torn>>

----------------------------------------------------------------------------
(* Requests reach the handlers while the server accepts them. *)
ActOnContainer(r, verb, ref) ==
    /\ proc = "serve"
    /\ Act(r, verb, ref)
    /\ UNCHANGED gatewayVars

Step(r) ==
    /\ Engine(r) \/ Handle(r)
    /\ UNCHANGED gatewayVars

(* handleMetricsSSE, handleContainerLogsSSE or handleJournalSSE. *)
Open(s) ==
    /\ proc = "serve" /\ stream[s] = "none"
    /\ stream' = [stream EXCEPT ![s] = "open"]
    /\ UNCHANGED <<containerVars, mainVars, filesVars, histVars>>

(* The browser leaves, or the log that is followed comes to its end. *)
End(s) ==
    /\ stream[s] = "open"
    /\ stream' = [stream EXCEPT ![s] = "done"]
    /\ UNCHANGED <<containerVars, mainVars, filesVars, histVars>>

----------------------------------------------------------------------------
(* SIGTERM: Shutdown closes the listener. *)
Signal ==
    /\ proc = "serve"
    /\ proc' = "drain" /\ left' = Drain
    /\ UNCHANGED <<containerVars, exit, stream, filesVars, histVars>>

Quiet == \A r \in Request : req[r].pc \in {"idle", "done", "dead"}
Streaming == \E s \in Stream : stream[s] = "open"

(* Wrong variants: a shutdown that closes the connections, and one that    *)
(* has no timeout.                                                         *)
ExitAtOnce ==
    /\ proc = "drain"
    /\ Gone(0)
    /\ UNCHANGED <<selfHost, running, job, rows, cert, key, histVars>>

ExitWhenQuiet ==
    /\ proc = "drain"
    /\ left = 0 /\ Quiet /\ ~Streaming
    /\ Gone(1)
    /\ UNCHANGED <<selfHost, running, job, rows, cert, key, histVars>>

(* Shutdown returns nil when no request is being handled, ... *)
Exit ==
    /\ proc = "drain"
    /\ Quiet /\ ~Streaming
    /\ Gone(0)
    /\ UNCHANGED <<selfHost, running, job, rows, cert, key, histVars>>

(* ... and an error after its timeout: os.Exit(1). *)
ExitLate ==
    /\ proc = "drain"
    /\ left = 0 /\ (~Quiet \/ Streaming)
    /\ Gone(1)
    /\ UNCHANGED <<selfHost, running, job, rows, cert, key, histVars>>

(* A wrong variant: actions go through a client without a timeout. *)
TickForStreams ==
    /\ \A r \in Request : JobAt(r, "stopping") => job[r].left > 0
    /\ proc = "drain" => left > 0
    /\ Age
    /\ left' = Minus(left)
    /\ UNCHANGED <<selfHost, running, rows, proc, exit, stream, filesVars, histVars>>

Tick ==
    /\ TimeMayPass
    /\ proc = "drain" => left > 0
    /\ \E r \in Request : At(r, "sent") \/ JobAt(r, "stopping") \/ proc = "drain"
    /\ Age
    /\ left' = Minus(left)
    /\ UNCHANGED <<selfHost, running, rows, proc, exit, stream, filesVars, histVars>>

Crash ==
    /\ proc # "down"
    /\ Gone(None)
    /\ torn' = (torn \/ proc = "keyopen")
    /\ UNCHANGED <<selfHost, running, job, rows, cert, key, served, touched>>

Next ==
    \/ Boot \/ OpenCert \/ WriteCert \/ OpenKey \/ WriteKey \/ WriteFails
    \/ Listen \/ ListenFails \/ Bring
    \/ \E r \in Request, verb \in Verb, ref \in Ref : ActOnContainer(r, verb, ref)
    \/ \E r \in Request : Step(r)
    \/ \E s \in Stream : Open(s) \/ End(s)
    \/ Signal \/ Exit \/ ExitLate \/ Tick \/ Crash

(* Time passes, main runs, and so do the handlers and the engine. *)
Fairness ==
    /\ WF_allVars(Tick \/ Exit \/ ExitLate)
    /\ \A r \in Request : WF_allVars(Step(r))

Spec == Init /\ [][Next]_allVars /\ Fairness

----------------------------------------------------------------------------
(* Service.IsSelf: where what the gateway holds for its own id is one, or  *)
(* begins one, no request that names the gateway by any part of its id     *)
(* stops it, whichever of the two is the longer.                           *)
GuardHolds ==
    selfHost # <<>> /\ IsPrefix(selfHost, Id[Self]) =>
        \A r \in Request :
            JobAt(r, "stopping") /\ IsPrefix(job[r].ref, Id[Self]) => job[r].target # Self

(* doc.go: the gateway "refuses to stop/restart itself"; ARCHITECTURE.md:  *)
(* "the gateway-manager container cannot stop itself".                     *)
GatewayKeepsItself ==
    \A r \in Request : JobAt(r, "stopping") => job[r].target # Self

(* When a shutdown ends well, every action that reached the engine is on   *)
(* record, unless an earlier crash took its handler: the handlers have run *)
(* to their end before the store is closed.                                *)
CleanExitHasRecords ==
    [][proc = "drain" /\ exit' = 0 =>
          \A r \in Request : job[r].pc = "none" \/ At(r, "dead") \/
              \E ok \in BOOLEAN : <<ok, r>> \in rows]_allVars

(* Actions are over before Shutdown gives up, although the engine may be   *)
(* at them for longer: only open streams make a shutdown fail.             *)
OnlyStreamsFailShutdown == proc = "drain" /\ left = 0 => Quiet

(* The pair that was served is served again by every later boot, unless    *)
(* the operator changed a file.                                            *)
ServedPairStays == served # None => cert = served /\ key = served

(* A boot finds files that do not belong together only after the one write *)
(* that cannot be made up for, that of the key, was cut short.             *)
BootHealsFiles ==
    proc = "listen" /\ ~touched => torn \/ (cert = key /\ cert \in Pair)

(* Every shutdown ends. *)
ShutdownEnds == proc = "drain" ~> proc = "down"
=============================================================================
