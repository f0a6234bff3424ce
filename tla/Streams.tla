------------------------------ MODULE Streams -------------------------------
(***************************************************************************)
(* What two of the event streams carry: the lines of a container's log,    *)
(* cut out of the frames of the Docker engine (StreamLines,                *)
(* internal/containers/logs.go), and the ticks of the dashboard            *)
(* (handleMetricsSSE, internal/httpserver/server.go), which turn counters  *)
(* of the kernel into rates.                                               *)
(***************************************************************************)
EXTENDS Integers, Sequences

CONSTANTS
    Byte,       \* bytes of a log other than the line feed
    Feed,       \* the line feed
    Payload,    \* payloads of frames
    LogLength,  \* bound: bytes of a log
    W,          \* counters are unsigned and wrap at W
    Exact,      \* a float64 is a whole number's value up to here
    First,      \* rx_bytes when a stream is opened
    Growth,     \* by how much a counter grows at once
    Limit,      \* bound: what counters add up to
    Ticks       \* bound: ticks of one stream

ASSUME LogAssumption == Feed \notin Byte /\ Payload \subseteq Seq(Byte \cup {Feed})

(* A device does not count long enough to come near W, nor an interface    *)
(* from one tick to the next near Exact.                                   *)
ASSUME CounterAssumption ==
    /\ W \in Nat /\ Limit \in Nat /\ 2001 * Limit <= W
    /\ Exact \in Limit..(W - 1) /\ Exact > 0
    /\ First \in 0..(W - 1) /\ Growth \subseteq Nat

----------------------------------------------------------------------------
(* The log stream. *)
VARIABLES
    log,        \* "reading"; "ended" between frames, "cut" inside a payload
    line,       \* what came after the last line feed
    emitted,    \* the lines that were sent
    received,   \* history, the payloads of all whole frames
    dropped     \* history, the begun line that was not sent
logVars == <<log, line, emitted, received, dropped>>

LogInit ==
    /\ log = "reading" /\ line = <<>> /\ emitted = <<>> /\ received = <<>>
    /\ dropped = <<>>

(* One byte of the inner loop, which sends a line at every line feed. *)
TakeByte(s, b) ==
    IF b = Feed THEN [lines |-> Append(s.lines, s.rest), rest |-> <<>>]
    ELSE [s EXCEPT !.rest = Append(@, b)]

(* All of it: lines are cut off as long as there is a line feed.           *)
cut(text) ==
    LET s[n \in 0..Len(text)] ==
            IF n = 0 THEN [lines |-> emitted, rest |-> <<>>] ELSE TakeByte(s[n - 1], text[n])
    IN  s[Len(text)]

(* A whole frame arrives. *)
Received(payload) ==
    /\ log = "reading" /\ Len(received) + Len(payload) <= LogLength
    /\ received' = received \o payload
    /\ UNCHANGED <<log, dropped>>

(* A wrong variant: one line for every frame. *)
FrameIsLine(payload) ==
    LET text == line \o payload
        n == CHOOSE i \in 0..Len(text) :
                 /\ i > 0 => text[i] = Feed
                 /\ \A j \in 1..Len(text) : text[j] = Feed => i > 0 /\ i <= j
    IN
    /\ Received(payload)
    /\ emitted' = IF n = 0 THEN emitted ELSE Append(emitted, SubSeq(text, 1, n - 1))
    /\ line' = SubSeq(text, n + 1, Len(text))

(* Of a log without a terminal; the header's first byte, which names the   *)
(* source, is not looked at: one begun line for both.                      *)
Frame(payload) ==
    LET s == cut(line \o payload) IN
    /\ Received(payload)
    /\ emitted' = s.lines
    /\ line' = s.rest

(* The log ends between two frames or in a header: the rest is a line.     *)
HeaderEnds ==
    /\ log = "reading" /\ log' = "ended"
    /\ emitted' = IF line = <<>> THEN emitted ELSE Append(emitted, line)
    /\ line' = <<>>
    /\ UNCHANGED <<received, dropped>>

(* It ends inside a payload: neither that payload nor the rest is sent.    *)
PayloadEnds ==
    /\ log = "reading" /\ log' = "cut"
    /\ line' = <<>> /\ dropped' = line
    /\ UNCHANGED <<emitted, received>>

(* The browser follows the log again. *)
Follow ==
    /\ log # "reading" /\ log' = "reading"
    /\ line' = <<>> /\ emitted' = <<>> /\ received' = <<>>
    /\ dropped' = <<>>

LogNext ==
    \/ HeaderEnds \/ PayloadEnds \/ Follow
    \/ \E payload \in Payload : Frame(payload)

LogSpec == LogInit /\ [][LogNext]_logVars

----------------------------------------------------------------------------
(* The metrics stream. *)
VARIABLES
    stat,       \* /proc/stat: [user, idle, iowait]
    bytes,      \* rx_bytes of the interface
    prev,       \* prevIdle, prevTotal and prevRx
    tick,       \* the last tick: [cpu, rx], cpu in tenths of a percent, rx
                \* the rate times the time it is about; and of the time since
                \* the tick before, [back, grown, amiss]
    ticks,      \* how many ticks were sent
    grown,      \* history, what the interface counted since the last tick
    amiss,      \* history, it started again since, or that tick did not read it
    back        \* history, iowait went back since the last look at it
metricsVars == <<stat, bytes, prev, tick, ticks, grown, amiss, back>>

(* CPUSample: idle is idle + iowait; 0, 0 when it cannot be read. *)
Unread == [idle |-> 0, total |-> 0]
CPUSample == [idle |-> stat.idle + stat.iowait, total |-> stat.user + stat.idle + stat.iowait]

(* NetCounters: 0 when it cannot be read. *)
NetCounters == {bytes, 0}

NoTime == [user |-> 0, idle |-> 0, iowait |-> 0]
NoTick == [cpu |-> 0, rx |-> 0, back |-> FALSE, grown |-> 0, amiss |-> FALSE]

(* handleMetricsSSE takes the first samples before the first tick. *)
MetricsInit ==
    /\ stat = NoTime /\ bytes = First
    /\ \E rx \in NetCounters : prev = [cpu |-> CPUSample, rx |-> rx] /\ amiss = (rx # First)
    /\ tick = NoTick /\ ticks = 0
    /\ grown = 0 /\ back = FALSE

(* The kernel counts; iowait is the one counter of /proc/stat that may go  *)
(* back, and those of an interface that was removed start again.           *)
CountBytes ==
    \/ \E d \in Growth : /\ bytes' = (bytes + d) % W
                         /\ grown' = grown + d /\ grown' <= Limit
                         /\ UNCHANGED amiss
    \/ bytes' = 0 /\ amiss' = TRUE /\ UNCHANGED grown

Count ==
    /\ \E u, i \in Growth, w \in Growth \cup {-1} :
         /\ stat' = [user |-> stat.user + u, idle |-> stat.idle + i, iowait |-> stat.iowait + w]
         /\ stat'.iowait >= 0
         /\ stat'.user + stat'.idle + stat'.iowait <= Limit
         /\ back' = (back \/ w < 0)
    /\ CountBytes
    /\ UNCHANGED <<prev, tick, ticks>>

Minus64(a, b) == (a - b) % W

(* The float64 of a number: of a large one, a multiple of this. *)
Ulp == 1 + ((W - 1) \div Exact)
float64(d) == IF d <= Exact THEN d ELSE Ulp * (d \div Ulp)

(* round1(n / d * 100), in tenths; a conversion to int drops the fraction. *)
round1(n, d) ==
    LET m == 2000 * n + d IN IF m >= 0 THEN m \div (2 * d) ELSE -((-m) \div (2 * d))

cpuPct(cpu) ==
    LET dTot == Minus64(cpu.total, prev.cpu.total)
        dIdle == Minus64(cpu.idle, prev.cpu.idle)
    IN  IF dTot > 0 THEN round1(dTot - dIdle, dTot) ELSE 0

Ticked(cpu, rx) ==
    /\ ticks < Ticks /\ ticks' = ticks + 1
    /\ tick' = [cpu |-> cpuPct(cpu), rx |-> float64(Minus64(rx, prev.rx)), back |-> back,
                grown |-> grown, amiss |-> amiss \/ rx # bytes]
    /\ grown' = 0 /\ amiss' = (rx # bytes) /\ back' = FALSE
    /\ UNCHANGED <<stat, bytes>>

(* A wrong variant: the interface's last value is not kept. *)
EmitAgain(cpu, rx) == Ticked(cpu, rx) /\ prev' = [prev EXCEPT !.cpu = cpu]

(* emit, with what it reads. *)
Emit(cpu, rx) == Ticked(cpu, rx) /\ prev' = [cpu |-> cpu, rx |-> rx]

(* The device is started again, and the browser opens the stream again.    *)
Reopen ==
    /\ ticks = Ticks
    /\ stat' = NoTime /\ bytes' = First /\ prev' = [cpu |-> Unread, rx |-> First]
    /\ tick' = NoTick /\ ticks' = 0
    /\ grown' = 0 /\ amiss' = FALSE /\ back' = FALSE

MetricsNext ==
    \/ Count \/ Reopen
    \/ \E cpu \in {CPUSample, Unread}, rx \in NetCounters : Emit(cpu, rx)

MetricsSpec == MetricsInit /\ [][MetricsNext]_metricsVars

----------------------------------------------------------------------------
(* The text that lines were cut out of. *)
AddLine(text, l) == text \o Append(l, Feed)

Text(lines) ==
    LET upTo[n \in 0..Len(lines)] == IF n = 0 THEN <<>> ELSE AddLine(upTo[n - 1], lines[n])
    IN  upTo[Len(lines)]

Finished(text) == text = <<>> \/ text[Len(text)] = Feed

(* A log is the payloads of both sources in the order they came.  However  *)
(* frames cut it, its lines are sent as they are, and none twice: while it *)
(* is read, the lines sent and the begun one are what was received; a log  *)
(* that ends between frames is sent whole, a begun line as its last; of    *)
(* one that ends inside a frame every line before that frame is sent, and  *)
(* exactly the begun line and that frame are not.                          *)
LinesAreWhole ==
    /\ log = "reading" => Text(emitted) \o line = received
    /\ log = "ended" =>
           Text(emitted) = IF Finished(received) THEN received ELSE Append(received, Feed)
    /\ log = "cut" => Text(emitted) \o dropped = received
    /\ \A l \in {line, dropped} \cup {emitted[i] : i \in DOMAIN emitted} :
           \A j \in DOMAIN l : l[j] # Feed

(* A tick tells exactly what the interface counted since the tick before,  *)
(* also when its counter wraps, unless the counter started again or was    *)
(* not read at one of the two; and a utilisation between 0 and 100 percent *)
(* also when /proc/stat cannot be read, unless iowait went back.           *)
TicksAreTrue ==
    /\ ~tick.amiss => tick.rx = tick.grown
    /\ ~tick.back => tick.cpu \in 0..1000
=============================================================================
