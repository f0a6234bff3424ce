----------------------------- MODULE MCGateway ------------------------------
(* Constants and the bounds of TLC's runs of the gateway's life, of what    *)
(* its streams carry and of the tables its pages read.                     *)
EXTENDS Gateway, Streams, Readers, Journal, TerminalBridge

CONSTANTS gw, app

(* Two containers whose ids begin alike, and the id of an image layer. *)
Ids == (gw :> <<1, 1, 2>>) @@ (app :> <<1, 2, 3>>)
Layer == <<7, 7, 7>>

(* Their names; the host's name, and what a network of its own would make  *)
(* of it; no name.                                                         *)
NamesOf == (gw :> <<40, 41>>) @@ (app :> <<50>>)
HostName == {<<60>>}
AnyHostname == HostName \cup {<<1, 1>>, <<>>}

(* What the pages post, a whole id, and the gateway's name. *)
PageRefs == {<<1, 1>>, <<1, 2>>}
Refs == PageRefs \cup {Ids[gw], NamesOf[gw]}

Line(docker, hex) == [docker |-> docker, hex |-> hex]
OwnMount == <<Line(TRUE, <<Ids[gw]>>)>>    \* .../containers/<id>/hostname

(* A root file system whose mount names no layer. *)
Plain == {<<Line(FALSE, <<>>), Line(TRUE, <<>>)>> \o OwnMount}

(* An overlay2 root file system: upperdir=.../docker/overlay2/<layer>/diff. *)
Overlay == {<<Line(TRUE, <<Layer>>)>> \o OwnMount}

(* One of either, or no mounts that can be read. *)
AnyMount == Plain \cup Overlay \cup {<<>>}

(* A bound: no actions on containers once files were brought or torn; they *)
(* have nothing in common, and their product is most of the states.        *)
Apart == touched \/ torn => \A r \in Request : At(r, "idle")

(* A bound, for the same reason: of the two kernel interfaces a tick reads *)
(* one moves, and the other stands still.                                  *)
OnlyStat == bytes = First /\ prev.rx = First
OnlyBytes == stat = NoTime

----------------------------------------------------------------------------
UpTo(n, S) == UNION {[1..k -> S] : k \in 0..n}

Payloads == UpTo(3, Byte \cup {Feed})

Routes == UpTo(3, [iface : {"eth0", "wlan0"}, default : BOOLEAN, metric : {100, 600}])
Interfaces ==
    {<<[name |-> "eth0", connected |-> c[1], ip |-> c[2]],
       [name |-> "wlan0", connected |-> c[3], ip |-> c[4]]>> : c \in [1..4 -> BOOLEAN]}
Mounts == UpTo(3, [dev : {"179:1", "8:0"}, whole : BOOLEAN, point : {"/", "/sysroot"}])
Drives ==
    {[name |-> "mmcblk0", pseudo |-> FALSE, dev |-> "179:0",
      parts |-> {[name |-> "mmcblk0p1", dev |-> "179:1"]}],
     [name |-> "sda", pseudo |-> FALSE, dev |-> "8:0", parts |-> {}],
     [name |-> "loop0", pseudo |-> TRUE, dev |-> "7:0", parts |-> {}]}
Trips == UpTo(2, [type : {"passive", "critical", "active"},
                  milli : {-1, 0, 1000, 85000, 100000, 100400, 124999}])

(* The same medium may be reached through two roots, or through one. *)
Sub(r, md) == [real |-> r, dir |-> TRUE, md |-> md, img |-> FALSE, subs |-> <<>>]
Medium(name, sub) ==
    {<<[real |-> name, dir |-> b[1], md |-> b[2], img |-> TRUE,
        subs |-> <<Sub(sub, b[3])>>]>> : b \in [1..3 -> BOOLEAN]}
Media ==
    UNION {{<<m, r, v>> : r \in {m} \cup Medium("disk", "disk/a"), v \in {m, <<>>}} :
           m \in Medium("usb", "usb/a")}

Attrs == UpTo(2, [type : {1, 2}, flag : {0, 128}, data : {<<>>, <<9>>, <<8, 9, 8, 9>>}])

(* Two bounds on the life.  Either the gateway knows its id and is asked    *)
(* for containers as its pages do, or it takes itself for whatever it may  *)
(* find, whole ids and names are posted as well, one request at a time is  *)
(* not idle, no stream is open and nobody brings files.                    *)
FromPages ==
    selfHost = Id[gw] /\ \A r \in Request : job[r].ref \in PageRefs \cup {None}
OneRequest ==
    /\ \A q, r \in Request : At(q, "idle") \/ At(r, "idle") \/ q = r
    /\ ~touched /\ \A s \in Stream : stream[s] = "none"

(* The parts share no state: a behaviour is one of one of them. *)
VARIABLE part
Lives == {"life", "guard"}
Parts == Lives \cup {"log", "cpu", "net", "pages", "journal", "terminal"}
allParts == <<allVars, logVars, metricsVars, page, journalVars, bridgeVars, part>>

MCInit ==
    /\ part \in Parts
    /\ Init /\ LogInit /\ MetricsInit /\ ReadersInit /\ JournalInit /\ BridgeInit
    /\ part \notin Lives => selfHost = Id[gw] /\ \A c \in Container : running[c]
    /\ part = "life" => FromPages
    /\ part # "net" => OnlyStat

MCSpec ==
    /\ MCInit
    /\ [][/\ UNCHANGED part
          /\ \/ /\ part \in Lives /\ Next /\ Apart'
                /\ IF part = "life" THEN FromPages' ELSE OneRequest'
                /\ UNCHANGED <<logVars, metricsVars, page, journalVars, bridgeVars>>
             \/ /\ part = "log" /\ LogNext
                /\ UNCHANGED <<allVars, metricsVars, page, journalVars, bridgeVars>>
             \/ /\ part \in {"cpu", "net"} /\ MetricsNext
                /\ IF part = "cpu" THEN OnlyStat' ELSE OnlyBytes'
                /\ UNCHANGED <<allVars, logVars, page, journalVars, bridgeVars>>
             \/ /\ part = "pages" /\ ReadersNext
                /\ UNCHANGED <<allVars, logVars, metricsVars, journalVars, bridgeVars>>
             \/ /\ part = "journal" /\ JournalNext
                /\ UNCHANGED <<allVars, logVars, metricsVars, page, bridgeVars>>
             \/ /\ part = "terminal" /\ BridgeNext
                /\ UNCHANGED <<allVars, logVars, metricsVars, page, journalVars>>
             \/ /\ part = "terminal" /\ ~ENABLED BridgeNext    \* it is over
                /\ UNCHANGED allParts
         ]_allParts
    /\ Fairness /\ JournalFairness /\ BridgeFairness
=============================================================================
