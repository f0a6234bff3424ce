------------------------------- MODULE Cloud --------------------------------
(***************************************************************************)
(* The cloud state on the updates page (internal/cloud/cloud.go): the page *)
(* runs aktualizr-info, reads what is installed out of its lines, runs it  *)
(* again for the targets of the director and compares.  Meanwhile          *)
(* aktualizr fetches targets, installs them and is restarted.  It is not   *)
(* in the repository: what it prints is what cloud.go expects of it.       *)
(*                                                                         *)
(* Image hashes are the numbers of the releases they belong to, 0 for no   *)
(* hash; a target is never taken back for an older one.                    *)
(***************************************************************************)
EXTENDS Naturals, Sequences

CONSTANTS
    Primary,    \* hardware id of the primary ECU
    Secondary,  \* hardware ids of the others, in the order of their blocks
    Newest,     \* bound: the number of releases
    Cut         \* a hash that was cut short

ASSUME CloudAssumption ==
    /\ Secondary \in Seq({Secondary[i] : i \in DOMAIN Secondary})
    /\ Newest \in Nat \ {0}

Hardware == {Primary} \cup {Secondary[i] : i \in DOMAIN Secondary}
Release == 0..Newest

VARIABLES
    installed,  \* installed[h]: what runs on ECU h
    staged,     \* staged[h]: what is installed but waits for a reboot, or 0
    desired,    \* desired[h]: the director's target for h, as last fetched
    announced,  \* aktualizr tells what the primary runs; not yet after a restart
    page,       \* progress of Get; "failed" when a run of aktualizr-info did
    lines,      \* what the first run of aktualizr-info printed
    targets,    \* what the last run for the targets gave
    state,      \* Info.State
    told,       \* history, whether the two runs told "all", a "part", or cut
                \* a hash short, "garbled"
    saw         \* history, the states the device was in since Get began

deviceVars == <<installed, staged, desired, announced>>
cloudVars == <<deviceVars, page, lines, targets, state, told, saw>>

NoTargets == [h \in Hardware |-> 0]
Printed(kind, v) == [kind |-> kind, val |-> v]

----------------------------------------------------------------------------
(* What aktualizr-info prints: the primary, a block for every secondary,   *)
(* the version the primary runs, if aktualizr has announced it since it    *)
(* was started, and whether one is pending.                                *)
Block(h) ==
    IF installed[h] = 0 THEN <<Printed("serial", 0), Printed("hardware", h)>>
    ELSE <<Printed("serial", 0), Printed("hardware", h), Printed("hash", installed[h])>>

AddBlock(out, h) == out \o Block(h)

Listed ==
    LET upTo[n \in 0..Len(Secondary)] ==
            IF n = 0 THEN <<Printed("device", 0), Printed("primary", Primary)>>
            ELSE AddBlock(upTo[n - 1], Secondary[n])
    IN  upTo[Len(Secondary)]

RunningLine ==
    IF announced /\ installed[Primary] # 0 THEN <<Printed("running", installed[Primary])>> ELSE <<>>
PendingLine == IF staged = NoTargets THEN <<>> ELSE <<Printed("pending", 0)>>

Output == Listed \o RunningLine \o PendingLine

(* parseInfo: a block is kept open in cur until the next one begins.       *)
Ecu(h, primary) == [hw |-> h, hash |-> 0, primary |-> primary]
Running(ecu, v) == IF ecu.primary THEN [ecu EXCEPT !.hash = v] ELSE ecu
flush(s) == [subs |-> s.subs \o s.cur, cur |-> <<>>]

ParseLine(s, l) ==
    CASE l.kind = "primary" -> [subs |-> Append(flush(s).subs, Ecu(l.val, TRUE)), cur |-> <<>>]
      [] l.kind = "running" -> [s EXCEPT !.subs = [i \in DOMAIN @ |-> Running(@[i], l.val)]]
      [] l.kind = "serial" -> [flush(s) EXCEPT !.cur = <<Ecu("", FALSE)>>]
      [] l.kind = "hardware" /\ s.cur # <<>> -> [s EXCEPT !.cur = <<[@[1] EXCEPT !.hw = l.val]>>]
      [] l.kind = "hash" /\ s.cur # <<>> -> [s EXCEPT !.cur = <<[@[1] EXCEPT !.hash = l.val]>>]
      [] OTHER -> s

ParseOn(start, out) ==
    LET s[n \in 0..Len(out)] == IF n = 0 THEN start ELSE ParseLine(s[n - 1], out[n])
    IN  s[Len(out)]

Unparsed == [subs |-> <<>>, cur |-> <<>>]
parseInfo(out) == flush(ParseOn(Unparsed, out)).subs

(* Get: ECUs with both an installed and a desired image are compared.      *)
UpToDate(ecu, wanted) ==
    ecu.hash # 0 /\ wanted[ecu.hw] # 0 => wanted[ecu.hw] = ecu.hash

Verdict(out, wanted) ==
    LET subs == parseInfo(out) IN
    IF \E i \in DOMAIN out : out[i].kind = "pending" THEN "updating"
    ELSE IF \E i \in DOMAIN subs : ~UpToDate(subs[i], wanted) THEN "update-available"
    ELSE "up-to-date"

(* parseDirectorTargets: an image may be one target for several ECUs, and  *)
(* one of them is found for each target.                                   *)
Finding(ecus) ==
    \A h \in Hardware : desired[h] # 0 => \E g \in ecus : desired[g] = desired[h]
parseDirectorTargets(ecus) == [h \in Hardware |-> IF h \in ecus THEN desired[h] ELSE 0]

(* The states the device is in, whoever looks. *)
Behind(h) == installed[h] # 0 /\ desired[h] \notin {0, installed[h]}
Standing ==
    {IF \E h \in Hardware : Behind(h) THEN "update-available" ELSE "up-to-date"}
    \cup (IF staged = NoTargets THEN {} ELSE {"updating"})

CloudInit ==
    /\ installed \in [Hardware -> 0..1]
    /\ staged = NoTargets
    /\ desired = NoTargets
    /\ announced = TRUE
    /\ told = "all"
    /\ page = "idle" /\ lines = <<>> /\ targets = NoTargets
    /\ state = "unknown" /\ saw = {}

----------------------------------------------------------------------------
(* aktualizr: new targets for some ECUs, one of them staged, a reboot; a   *)
(* restart, and the end of the window after it.                            *)
pageVars == <<page, lines, targets, state, told>>

Fetch(ecus) ==
    /\ \A h \in ecus : desired[h] < Newest
    /\ desired' = [h \in Hardware |-> IF h \in ecus THEN desired[h] + 1 ELSE desired[h]]
    /\ UNCHANGED <<installed, staged, announced, pageVars>>
    /\ saw' = saw \cup Standing'

Stage(h) ==
    /\ desired[h] \notin {0, installed[h], staged[h]} /\ desired[h] > installed[h]
    /\ staged' = [staged EXCEPT ![h] = desired[h]]
    /\ UNCHANGED <<installed, desired, announced, pageVars>>
    /\ saw' = saw \cup Standing'

Install(h) ==
    /\ staged[h] # 0
    /\ installed' = [installed EXCEPT ![h] = staged[h]]
    /\ staged' = [staged EXCEPT ![h] = 0]
    /\ UNCHANGED <<desired, announced, pageVars>>
    /\ saw' = saw \cup Standing'

Restart == announced' = FALSE /\ UNCHANGED <<installed, staged, desired, pageVars, saw>>
Announce == announced' = TRUE /\ UNCHANGED <<installed, staged, desired, pageVars, saw>>

----------------------------------------------------------------------------
(* A wrong variant: targets that were read for an earlier page are kept.   *)
ReadTargetsOnce(ecus) ==
    /\ page = "targets" /\ Finding(ecus)
    /\ targets' = IF targets = NoTargets THEN parseDirectorTargets(ecus) ELSE targets
    /\ state' = Verdict(lines, targets')
    /\ told' = IF told = "all" /\ targets' # desired THEN "part" ELSE told
    /\ page' = "shown"
    /\ UNCHANGED <<deviceVars, lines, saw>>

(* renderUpdates calls Get. *)
Get ==
    /\ page \in {"idle", "shown", "failed"}
    /\ page' = "info"
    /\ saw' = Standing
    /\ UNCHANGED <<deviceVars, lines, targets, state, told>>

(* The first run.  One that fails is trusted for what it did print, if     *)
(* that has a device id: some lines of the output, and the last of them    *)
(* may be cut short.  A line cut short other than one with a hash tells    *)
(* what the lines before it tell.                                          *)
ReadInfo(n) ==
    /\ page = "info"
    /\ \/ /\ lines' = SubSeq(Output, 1, n)
          /\ told' = IF n = Len(Output) /\ (announced \/ installed[Primary] = 0)
                     THEN "all" ELSE "part"
       \/ /\ Output[n].kind \in {"hash", "running"}
          /\ lines' = Append(SubSeq(Output, 1, n - 1), Printed(Output[n].kind, Cut))
          /\ told' = "garbled"
    /\ page' = "targets"
    /\ UNCHANGED <<deviceVars, targets, state, saw>>

(* No device id: nothing to show. *)
InfoFails ==
    /\ page = "info"
    /\ page' = "failed"
    /\ state' = "unknown"
    /\ UNCHANGED <<deviceVars, lines, targets, told, saw>>

(* The run with --director-targets. *)
ReadTargets(ecus) ==
    /\ page = "targets" /\ Finding(ecus)
    /\ targets' = parseDirectorTargets(ecus)
    /\ state' = Verdict(lines, targets')
    /\ told' = IF told = "all" /\ targets' # desired THEN "part" ELSE told
    /\ page' = "shown"
    /\ UNCHANGED <<deviceVars, lines, saw>>

(* It fails: nothing is compared, and everything counts as up to date.     *)
TargetsFail ==
    /\ page = "targets"
    /\ targets' = NoTargets
    /\ state' = Verdict(lines, targets')
    /\ told' = IF told = "all" THEN "part" ELSE told
    /\ page' = "shown"
    /\ UNCHANGED <<deviceVars, lines, saw>>

CloudNext ==
    \/ \E ecus \in SUBSET Hardware \ {{}} : Fetch(ecus)
    \/ \E h \in Hardware : Stage(h) \/ Install(h)
    \/ Restart \/ Announce
    \/ Get \/ (\E n \in 1..Len(Output) : ReadInfo(n)) \/ InfoFails
    \/ (\E ecus \in SUBSET Hardware : ReadTargets(ecus)) \/ TargetsFail

CloudSpec == CloudInit /\ [][CloudNext]_cloudVars

----------------------------------------------------------------------------
(* The state of the page was the state of the device at some instant while *)
(* the page was made, although it compares what two runs saw at different  *)
(* times: what is installed is read before what is wanted.  A page that    *)
(* was told only a part (no running version yet, a run that failed, a      *)
(* target for several ECUs) may say that all is up to date when it is not, *)
(* but says nothing else that was not so; one with a hash that was cut     *)
(* short may say anything.                                                 *)
VerdictWasTrue ==
    page = "shown" =>
        \/ state \in saw
        \/ told = "part" /\ state = "up-to-date"
        \/ told = "garbled"
=============================================================================
