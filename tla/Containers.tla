----------------------------- MODULE Containers -----------------------------
(***************************************************************************)
(* Starting, stopping and restarting containers                            *)
(* (internal/containers/actions.go, client.go and handleContainerAction):  *)
(* a request is guarded against the gateway's own container, handed to the *)
(* Docker engine, given up after the client's timeout while the engine     *)
(* goes on, and put on the audit record.                                   *)
(***************************************************************************)
EXTENDS Naturals, SequencesExt

CONSTANTS
    Container,
    Self,           \* the gateway's own container
    Id,             \* Id[c]: the id of c, a sequence of digits
    NameOf,         \* NameOf[c]: the name of c, a sequence as well
    ShortLen,       \* how many digits of an id the pages show
    Mountinfo,      \* what /proc/self may say: sequences of lines
    Hostname,       \* what os.Hostname may return; the network of the shipped
                    \* compose files is the host's, and so is then the name
    Ref,            \* what requests name a container by: parts of ids, names
    Request,
    None,
    ActionTimeout,  \* how long the HTTP client waits for an action
    Grace           \* how long the engine waits before it kills

ASSUME ContainersAssumption ==
    /\ Self \in Container
    /\ Id \in [Container -> Seq(Nat)]
    /\ \A c, d \in Container : c # d => ~IsPrefix(Id[c], Id[d])
    /\ NameOf \in [Container -> Seq(Nat)]
    /\ Ref \subseteq Seq(Nat) \ {<<>>} /\ None \notin Ref
    /\ Hostname \subseteq Seq(Nat)
    /\ {ShortLen, ActionTimeout, Grace} \subseteq Nat \ {0}

VARIABLES
    selfHost,   \* Service.selfHost
    running,    \* running[c]: the engine's view of container c
    job,        \* job[r]: what the engine does for request r
    req,        \* req[r]: the handler of request r
    rows        \* the audit rows handed to the store

containerVars == <<selfHost, running, job, req, rows>>
vars == containerVars

Verb == {"start", "stop", "restart"}
Job == [pc : {"none", "queued", "stopping", "done", "error"}, verb : Verb \cup {None},
        ref : Ref \cup {None}, target : Container \cup {None}, left : 0..Grace]
Handler == [pc : {"idle", "sent", "record", "done", "dead"}, ok : BOOLEAN,
            left : 0..ActionTimeout]

JobIs(pc) == [pc |-> pc, verb |-> None, ref |-> None, target |-> None, left |-> 0]
HandlerIs(pc) == [pc |-> pc, ok |-> FALSE, left |-> 0]
At(r, pc) == req[r].pc = pc
JobAt(r, pc) == job[r].pc = pc

----------------------------------------------------------------------------
(* List: what the pages show of an id, and their buttons post. *)
shortID(id) == IF Len(id) > ShortLen THEN SubSeq(id, 1, ShortLen) ELSE id

ASSUME ListedAssumption == {shortID(Id[c]) : c \in Container} \subseteq Ref

(* detectSelfID: the first id in the first line about docker or containers *)
(* that has one, else what os.Hostname returns.                            *)
detectSelfID(lines, host) ==
    LET found == SelectSeq(lines, LAMBDA l : l.docker /\ l.hex # <<>>) IN
    IF found = <<>> THEN host ELSE Head(Head(found).hex)

MayBeSelf == {detectSelfID(lines, host) : lines \in Mountinfo, host \in Hostname}

(* The ids in those lines are sequences of digits. *)
ASSUME MountinfoAssumption == MayBeSelf \subseteq Seq(Nat)

(* A wrong variant: the guard compares a whole id with what the page shows. *)
IsSelfWhole(ref) == selfHost # <<>> /\ IsPrefix(selfHost, ref)

(* Service.IsSelf: both ids may be short ones. *)
IsSelf(ref) ==
    selfHost # <<>> /\ ref # <<>> /\ (IsPrefix(selfHost, ref) \/ IsPrefix(ref, selfHost))

(* The engine takes a whole id, a name, or else any prefix of ids that     *)
(* only one container has.                                                 *)
Named(ref) ==
    LET whole == {c \in Container : Id[c] = ref}
        called == {c \in Container : NameOf[c] = ref}
    IN  IF whole # {} THEN whole
        ELSE IF called # {} THEN called
        ELSE {c \in Container : IsPrefix(ref, Id[c])}

----------------------------------------------------------------------------
ContainersInit ==
    /\ selfHost \in MayBeSelf
    /\ running \in {f \in [Container -> BOOLEAN] : f[Self]}
    /\ job = [r \in Request |-> JobIs("none")]
    /\ req = [r \in Request |-> HandlerIs("idle")]
    /\ rows = {}

(* A wrong variant: the action goes through the client of the streams,     *)
(* which has no timeout and waits as long as the engine takes.             *)
ActWithoutTimeout(r, verb, ref) ==
    /\ At(r, "idle")
    /\ ~(verb \in {"stop", "restart"} /\ IsSelf(ref))
    /\ req' = [req EXCEPT ![r] = [HandlerIs("sent") EXCEPT !.left = ActionTimeout + Grace]]
    /\ job' = [job EXCEPT ![r] = [JobIs("queued") EXCEPT !.verb = verb, !.ref = ref]]
    /\ UNCHANGED <<selfHost, running, rows>>

(* handleContainerAction up to the POST: the gateway refuses to stop or    *)
(* restart itself; without a connection to the engine the action fails.    *)
Act(r, verb, ref) ==
    LET guarded == verb \in {"stop", "restart"} /\ IsSelf(ref) IN
    /\ At(r, "idle")
    /\ \/ /\ guarded
          /\ req' = [req EXCEPT ![r] = HandlerIs("done")]
          /\ UNCHANGED job
       \/ /\ ~guarded
          /\ req' = [req EXCEPT ![r] = [HandlerIs("sent") EXCEPT !.left = ActionTimeout]]
          /\ job' = [job EXCEPT ![r] = [JobIs("queued") EXCEPT !.verb = verb, !.ref = ref]]
       \/ /\ ~guarded
          /\ req' = [req EXCEPT ![r] = HandlerIs("record")]
          /\ UNCHANGED job
    /\ UNCHANGED <<selfHost, running, rows>>

(* The engine: no such container, or it cannot do it. *)
Refuse(r) ==
    /\ JobAt(r, "queued")
    /\ job' = [job EXCEPT ![r] = JobIs("error")]
    /\ UNCHANGED <<selfHost, running, req, rows>>

(* The engine: a start, and a stop of what is stopped, are done at once; a *)
(* running container is told to stop and given Grace to do so.             *)
Take(r) ==
    /\ JobAt(r, "queued")
    /\ \E c \in Named(job[r].ref) :
         LET stops == running[c] /\ job[r].verb # "start" IN
         /\ Named(job[r].ref) = {c}
         /\ job' = [job EXCEPT ![r] =
                IF stops THEN [@ EXCEPT !.pc = "stopping", !.target = c, !.left = Grace]
                ELSE JobIs("done")]
         /\ running' = IF stops \/ job[r].verb = "stop" THEN running
                       ELSE [running EXCEPT ![c] = TRUE]
    /\ UNCHANGED <<selfHost, req, rows>>

(* The engine: the container has exited or was killed. *)
Stopped(r) ==
    /\ JobAt(r, "stopping")
    /\ running' = [running EXCEPT ![job[r].target] = job[r].verb = "restart"]
    /\ job' = [job EXCEPT ![r] = JobIs("done")]
    /\ UNCHANGED <<selfHost, req, rows>>

(* Service.action: 204 and 304 are success, everything else is an error.   *)
Reply(r) ==
    /\ At(r, "sent") /\ job[r].pc \in {"done", "error"}
    /\ req' = [req EXCEPT ![r] = [@ EXCEPT !.pc = "record", !.ok = JobAt(r, "done"), !.left = 0]]
    /\ UNCHANGED <<selfHost, running, job, rows>>

(* The client's timeout, or the browser is gone and with it the context of *)
(* the request: the handler goes on with an error, the engine with the job. *)
GiveUp(r) ==
    /\ At(r, "sent")
    /\ req' = [req EXCEPT ![r] = [@ EXCEPT !.pc = "record", !.left = 0]]
    /\ UNCHANGED <<selfHost, running, job, rows>>

(* The audit row, container_<verb> or container_<verb>_failed. *)
Record(r) ==
    /\ At(r, "record")
    /\ rows' = rows \cup {<<req[r].ok, r>>}
    /\ req' = [req EXCEPT ![r] = HandlerIs("done")]
    /\ UNCHANGED <<selfHost, running, job>>

(* Time passes for clients that wait and containers that are told to stop; *)
(* who has no time left acts first, and handlers do not dawdle.            *)
Minus(n) == IF n > 0 THEN n - 1 ELSE 0
TimeMayPass ==
    \A r \in Request :
        /\ At(r, "sent") => req[r].left > 0
        /\ JobAt(r, "stopping") => job[r].left > 0
        /\ ~At(r, "record")

Age ==
    /\ req' = [r \in Request |-> [req[r] EXCEPT !.left = Minus(@)]]
    /\ job' = [r \in Request |-> [job[r] EXCEPT !.left = Minus(@)]]

Engine(r) == Refuse(r) \/ Take(r) \/ Stopped(r)
Handle(r) == Reply(r) \/ GiveUp(r) \/ Record(r)
=============================================================================
