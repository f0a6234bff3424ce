------------------------------ MODULE Updates -------------------------------
(***************************************************************************)
(* The polling interval of the update client (ReadConfig and SetPolling of *)
(* internal/updates/updates.go, handleUpdatesPolling).  SetPolling writes  *)
(* a configuration fragment and has systemd restart aktualizr, which reads *)
(* it when it starts; the file explorer can change the same fragment and   *)
(* restarts nothing.  aktualizr and systemd are not in the repository.     *)
(***************************************************************************)
EXTENDS Files

CONSTANTS
    ConfD,      \* the paths of /etc/sota/conf.d, in order
    Fragment,   \* that of 60-polling-interval.toml
    Key,        \* the chunk "polling_sec ="
    Seconds,    \* the intervals that are posted
    Decimal,    \* Decimal[n]: the digits of n
    Default     \* the interval of /usr/lib/sota/conf.d

VARIABLES
    job,        \* systemd has been asked to restart aktualizr
    ran,        \* the interval aktualizr runs with, None if it does not run
    unapplied   \* history, a fragment was changed by someone who does not
                \* restart aktualizr, or a restart was lost

updateVars == <<job, ran, unapplied>>
vars == <<fileVars, updateVars>>

----------------------------------------------------------------------------
(* What a file's chunks are to those who read its lines. *)
LineEnd == {CRLF, LF}
Digit == 0..9

LineStarts(c) == {i \in DOMAIN c : i = 1 \/ c[i - 1] \in LineEnd}

(* The line that starts at i. *)
LineAt(c, i) ==
    SubSeq(c, i, CHOOSE j \in (i - 1)..Len(c) :
                     /\ j = Len(c) \/ c[j + 1] \in LineEnd
                     /\ \A k \in i..j : c[k] \notin LineEnd)

SetsKey(l) == l # <<>> /\ l[1] = Key
Value(l) == SubSeq(l, 2, Len(l))
IsNumber(s) == s # <<>> /\ \A i \in DOMAIN s : s[i] \in Digit

(* atoi: 0 for what is no number. *)
atoi(s) ==
    LET upTo[n \in 0..Len(s)] == IF n = 0 THEN 0 ELSE 10 * upTo[n - 1] + s[n]
    IN  IF IsNumber(s) THEN upTo[Len(s)] ELSE 0

(* mergeToml: the last line of the key wins, whatever its value.           *)
mergeToml(sec, c) ==
    LET set == {i \in LineStarts(c) : SetsKey(LineAt(c, i))} IN
    IF c = None \/ set = {} THEN sec
    ELSE atoi(Value(LineAt(c, CHOOSE i \in set : \A j \in set : j <= i)))

(* ReadConfig, the interval the page shows: one fragment after the other.  *)
Fragments == [n \in DOMAIN ConfD |-> fs[ConfD[n]]]
Effective(contents) ==
    LET sec[n \in 0..Len(contents)] ==
            IF n = 0 THEN Default ELSE mergeToml(sec[n - 1], contents[n])
    IN  sec[Len(contents)]

(* aktualizr's parser is another, and stricter: what is only a comment, or *)
(* the key once with a number, it reads alike.                             *)
WellFormed(c) ==
    c = None \/
    LET lines == [i \in LineStarts(c) |-> LineAt(c, i)]
        set == {i \in LineStarts(c) : SetsKey(lines[i])}
    IN  /\ \A i \in LineStarts(c) : lines[i] # <<>> =>
               \/ i \in set /\ IsNumber(Value(lines[i]))
               \/ lines[i][1] \notin Digit \cup {Key, Nul}
        /\ \A i, j \in set : i = j

(* What aktualizr makes of the fragments when it starts; it may not run.   *)
Readings ==
    IF \A n \in DOMAIN ConfD : WellFormed(fs[ConfD[n]]) THEN {Effective(Fragments)}
    ELSE {Effective(Fragments), None}

(* SetPolling's body; its first line, the same in all, is left out.        *)
Body(n) == <<Key>> \o Decimal[n] \o <<LF>>

ASSUME FragmentAssumption ==
    /\ Fragment \in {ConfD[n] : n \in DOMAIN ConfD} /\ {ConfD[n] : n \in DOMAIN ConfD} \subseteq Path
ASSUME DecimalAssumption ==
    /\ Key \in Text /\ Digit \subseteq Text /\ Key \notin Digit
    /\ \A n \in Seconds : Decimal[n] \in Seq(Digit) /\ atoi(Decimal[n]) = n

(* The intervals SetPolling takes. *)
PollingRange == 5..86400

UpdatesTypeOK ==
    /\ TypeOK
    /\ job \in BOOLEAN /\ unapplied \in BOOLEAN
    /\ \A q \in Request : req[q].kind = "polling" /\ req[q].pc # "done" =>
          \E n \in Seconds \cap PollingRange : req[q].data = Body(n)

Init(contents) ==
    /\ InitFiles(contents)
    /\ job = FALSE
    /\ ran \in Readings
    /\ unapplied = FALSE

(* A request that has the fragment open, or owes aktualizr a restart. *)
Polling(q) == req[q].kind = "polling" /\ req[q].pc \in {"write", "orphan", "restart"}

----------------------------------------------------------------------------
(* Wrong variants of actions below: each is a bug a property must catch.   *)

(* The range forgets its lower bound. *)
SetPollingAny(q, n) ==
    /\ At(q, "idle")
    /\ IF n <= 86400
       THEN /\ req' = [req EXCEPT ![q] = [pc |-> "open", kind |-> "polling",
                              path |-> Fragment, data |-> Body(n), orig |-> None]]
            /\ UNCHANGED <<fs, audit, last, torn>>
       ELSE Refuse(q, "polling", Fragment)
    /\ UNCHANGED updateVars

(* The interval of the request is handed to aktualizr, not the fragment.   *)
PushInterval(q) ==
    /\ At(q, "restart")
    /\ ran' = Effective(<<req[q].data>>)
    /\ unapplied' = FALSE
    /\ Goto(q, "record")
    /\ UNCHANGED <<fs, audit, last, torn, job>>

----------------------------------------------------------------------------
(* SetPolling refuses what is out of range; a number that does not parse   *)
(* is 0, or the largest there is, and out of range too.                    *)
SetPolling(q, n) ==
    /\ At(q, "idle")
    /\ IF n \in PollingRange
       THEN /\ req' = [req EXCEPT ![q] = [pc |-> "open", kind |-> "polling",
                              path |-> Fragment, data |-> Body(n), orig |-> None]]
            /\ UNCHANGED <<fs, audit, last, torn>>
       ELSE Refuse(q, "polling", Fragment)
    /\ UNCHANGED updateVars

(* restartAktualizr: systemd queues the job and answers. *)
RestartUnit(q) ==
    /\ At(q, "restart")
    /\ job' = TRUE
    /\ Goto(q, "record")
    /\ UNCHANGED <<fs, audit, last, torn, ran, unapplied>>

(* No bus, or systemd refuses: the fragment is changed, aktualizr is not.  *)
RestartFails(q) ==
    /\ At(q, "restart")
    /\ Goto(q, "done")
    /\ AddAudit("failed", q)
    /\ unapplied' = TRUE
    /\ UNCHANGED <<fs, last, torn, job, ran>>

(* aktualizr starts and reads its configuration, whatever state it is in.  *)
Start ==
    /\ job
    /\ job' = FALSE
    /\ ran' \in Readings
    /\ unapplied' = FALSE
    /\ UNCHANGED fileVars

(* A step of the file explorer, or of a polling request's write. *)
FileStep(q) ==
    /\ FileOp(q)
    /\ unapplied' = (\/ unapplied
                     \/ Polling(q) /\ req'[q].pc = "done"
                     \/ req[q].kind # "polling" /\ Fragments' # Fragments)
    /\ UNCHANGED <<job, ran>>

GatewayCrash ==
    /\ Crash
    /\ unapplied' = (unapplied \/ \E q \in Request : Polling(q))
    /\ UNCHANGED <<job, ran>>

Next ==
    \/ \E q \in Request : FileStep(q) \/ RestartUnit(q) \/ RestartFails(q)
    \/ \E q \in Request, n \in Seconds : SetPolling(q, n)
    \/ Start
    \/ GatewayCrash

----------------------------------------------------------------------------
(* However requests for intervals interleave, once they are through,       *)
(* aktualizr runs with what the page reads from the fragments, unless a    *)
(* restart failed, a fragment was changed through the file explorer, or    *)
(* overlapping writes left one that aktualizr need not take.  That the     *)
(* fragment is what the last request meant is AtRestIsLast.                *)
PollingTakesEffect ==
    ~job /\ ~unapplied /\ (\A q \in Request : ~Polling(q))
    /\ (\A n \in DOMAIN ConfD : WellFormed(fs[ConfD[n]])) =>
        ran = Effective(Fragments)

(* SetPolling "writes the polling interval fragment and restarts aktualizr *)
(* so it takes effect" (updates.go:150-151): the same if only intervals    *)
(* were posted, none of these requests failed, and the other fragments are *)
(* well-formed.  Two requests that overlap can leave a mixture of their    *)
(* bodies, and this does not hold.                                         *)
PostedTakesEffect ==
    ~job /\ ~unapplied
    /\ (\A q \in Request : ~Polling(q) /\ req[q].kind \in {"polling", None}
                            /\ <<"failed", q>> \notin audit)
    /\ (\A n \in DOMAIN ConfD : ConfD[n] # Fragment => WellFormed(fs[ConfD[n]])) =>
        ran = Effective(Fragments)
=============================================================================
