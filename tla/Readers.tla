------------------------------ MODULE Readers -------------------------------
(***************************************************************************)
(* What pages make of the tables they read (internal/sysinfo,              *)
(* connectionInfo, OfflineSources): default routes, the connection of the  *)
(* dashboard, mounts of partitions, thermal limits, offline updates on     *)
(* removable media and netlink attributes.  Each is a function of what was *)
(* read, checked against what a reader of the page takes it to say.        *)
(***************************************************************************)
EXTENDS Integers, Sequences

CONSTANTS               \* what may be read
    RouteTables,        \* /proc/net/route: sequences of [iface, default, metric]
    InterfaceLists,     \* NetworkManager: sequences of [name, connected, ip]
    MountTables,        \* mountinfo: sequences of [dev, whole, point]
    Disks,              \* /sys/block: [name, pseudo, dev, parts], parts of [name, dev]
    TripLists,          \* a thermal zone: sequences of [type, milli]
    MediaTrees,         \* sequences of roots: sequences of [real, dir, md, img, subs]
    Attributes          \* netlink: sequences of [type, flag, data]

Route == [iface : STRING, default : BOOLEAN, metric : Int]
Iface == [name : STRING, connected : BOOLEAN, ip : BOOLEAN]
Mount == [dev : STRING, whole : BOOLEAN, point : STRING]
TripPoint == [type : STRING, milli : Int]
Folder == [real : STRING, dir : BOOLEAN, md : BOOLEAN, img : BOOLEAN, subs : {<<>>}]
Entry == [real : STRING, dir : BOOLEAN, md : BOOLEAN, img : BOOLEAN, subs : Seq(Folder)]
Below(n) == 0..(n - 1)
Attribute == [type : Below(16384), flag : {0, 64, 128, 192}, data : Seq(Below(256))]
Fits(a) == 4 + Len(a.data) \in Below(65536)

(* Tables have lines of the right form, interfaces have names of their own *)
(* and a netlink attribute fits into the two bytes of its length.          *)
ASSUME RoutesAssumption == RouteTables \subseteq Seq(Route)
ASSUME InterfacesAssumption ==
    /\ InterfaceLists \subseteq Seq(Iface)
    /\ \A f \in InterfaceLists : \A i, j \in DOMAIN f : f[i].name = f[j].name => i = j
ASSUME TablesAssumption == MountTables \subseteq Seq(Mount) /\ TripLists \subseteq Seq(TripPoint)
ASSUME MediaAssumption == MediaTrees \subseteq Seq(Seq(Entry))
ASSUME AttributesAssumption ==
    /\ Attributes \subseteq Seq(Attribute)
    /\ \A attrs \in Attributes : \A i \in DOMAIN attrs : Fits(attrs[i])

VARIABLE page           \* <<reader, what it read, what it made of it>>

ElementsOf(s) == {s[i] : i \in DOMAIN s}
Defaults(table) == {r \in ElementsOf(table) : r.default}

----------------------------------------------------------------------------
(* DefaultRoutes: sorted by metric, stably, then each interface once.      *)
(* A route goes behind all that are not worse.                             *)
Insert(s, r) ==
    LET n == CHOOSE n \in 0..Len(s) :
                 /\ \A i \in 1..n : s[i].metric <= r.metric
                 /\ \A i \in (n + 1)..Len(s) : s[i].metric > r.metric
    IN  SubSeq(s, 1, n) \o <<r>> \o SubSeq(s, n + 1, Len(s))

AddRoute(s, r) == IF r.default THEN Insert(s, r) ELSE s
Sorted(table) ==
    LET s[n \in 0..Len(table)] ==
            IF n = 0 THEN <<>> ELSE AddRoute(s[n - 1], table[n])
    IN  s[Len(table)]

AddName(out, r) == IF r.iface \in ElementsOf(out) THEN out ELSE Append(out, r.iface)
DefaultRoutes(table) ==
    LET routes == Sorted(table)
        out[n \in 0..Len(routes)] ==
            IF n = 0 THEN <<>> ELSE AddName(out[n - 1], routes[n])
    IN  out[Len(routes)]

(* The interfaces with a default route, each once, best metrics first.     *)
RoutesInOrder(table, out) ==
    /\ \A i, j \in DOMAIN out : out[i] = out[j] => i = j
    /\ ElementsOf(out) = {r.iface : r \in Defaults(table)}
    /\ \A i, j \in DOMAIN out : i < j =>
           \E r \in Defaults(table) :
               /\ r.iface = out[i]
               /\ \A q \in Defaults(table) : q.iface = out[j] => r.metric <= q.metric

(* connectionInfo: the uplink if NetworkManager gives it an address, else  *)
(* the first connected interface with one; the others below it.            *)
connectionInfo(ifaces, defaults) ==
    LET uplink == {i \in DOMAIN ifaces :
                      defaults # <<>> /\ ifaces[i].name = Head(defaults) /\ ifaces[i].ip}
        connected == {i \in DOMAIN ifaces : ifaces[i].connected /\ ifaces[i].ip}
        first == {i \in connected : \A j \in connected : i <= j}
        primary == IF uplink # {} THEN uplink ELSE first
    IN  [primary |-> {ifaces[i].name : i \in primary},
         wan |-> \E i \in primary : ifaces[i].name \in ElementsOf(defaults),
         others |-> {ifaces[i].name : i \in IF primary = {} THEN {} ELSE connected \ primary}]

(* Every connection is shown, once, and what is shown has an address; the  *)
(* uplink is not shown below an interface that is none.                    *)
ConnectionsOnce(ifaces, defaults, out) ==
    LET addressed == {f \in ElementsOf(ifaces) : f.ip} IN
    /\ out.primary \cap out.others = {}
    /\ {f.name : f \in {f \in addressed : f.connected}} \subseteq out.primary \cup out.others
    /\ out.primary \cup out.others \subseteq {f.name : f \in addressed}
    /\ out.others \cap {defaults[i] : i \in {1} \cap DOMAIN defaults} = {}

----------------------------------------------------------------------------
(* readMounts: one mount of each device, a mount of the whole device       *)
(* rather than one of a subtree.                                           *)
Mounted(m, l) == [d \in DOMAIN m \cup {l.dev} |-> IF d = l.dev THEN l.point ELSE m[d]]
TakeMount(m, l) == IF l.dev \in DOMAIN m /\ ~l.whole THEN m ELSE Mounted(m, l)

(* A wrong variant: the last mount wins. *)
readMountsLast(table) ==
    LET m[n \in 0..Len(table)] ==
            IF n = 0 THEN [d \in {} |-> ""] ELSE Mounted(m[n - 1], table[n])
    IN  m[Len(table)]

readMounts(table) ==
    LET m[n \in 0..Len(table)] ==
            IF n = 0 THEN [d \in {} |-> ""] ELSE TakeMount(m[n - 1], table[n])
    IN  m[Len(table)]

(* Block and partitionsOf: a disk without partitions is its own entry if   *)
(* it is mounted; "" is no mount point.                                    *)
Block(table) ==
    LET mounts == readMounts(table)
        PointOf(dev) == IF dev \in DOMAIN mounts THEN mounts[dev] ELSE ""
        Shown(p) == [name |-> p.name, dev |-> p.dev, point |-> PointOf(p.dev)]
        Entries(d) ==
            IF d.parts # {} THEN {Shown(p) : p \in d.parts}
            ELSE IF d.dev \in DOMAIN mounts THEN {Shown(d)} ELSE {}
    IN  UNION {Entries(d) : d \in {d \in Disks : ~d.pseudo}}

(* What a partition is shown to be mounted at is a mount of it, of all of  *)
(* it if there is one; and no mount of a partition, or of a disk without   *)
(* any, goes unseen.                                                       *)
MountsAreShown(table, out) ==
    /\ \A e \in out :
           LET mine == {l \in ElementsOf(table) : l.dev = e.dev}
               whole == {l \in mine : l.whole}
               best == IF whole # {} THEN whole ELSE mine
           IN  e.point \in IF mine = {} THEN {""} ELSE {l.point : l \in best}
    /\ \A d \in {d \in Disks : ~d.pseudo} :
           \A p \in IF d.parts # {} THEN d.parts ELSE {d} :
               (\E l \in ElementsOf(table) : l.dev = p.dev) =>
                   \E e \in out : e.name = p.name /\ e.dev = p.dev

(* ThermalLimits, in thousandths of a degree: int() cuts off the fraction. *)
TakeTrip(v, trip, type) == IF trip.type = type /\ trip.milli > 0 THEN trip.milli ELSE v
LastTrip(trips, type, default) ==
    LET v[n \in 0..Len(trips)] ==
            IF n = 0 THEN default ELSE TakeTrip(v[n - 1], trips[n], type)
    IN  v[Len(trips)]

ThermalLimits(trips) ==
    LET alarm == LastTrip(trips, "critical", 100000)
        passive == LastTrip(trips, "passive", 85000)
        full == ((((alarm + 20000) \div 1000) \div 5) + 1) * 5000
    IN  [warn |-> IF passive >= alarm THEN alarm - 15000 ELSE passive,
         alarm |-> alarm,
         scale |-> IF full < 125000 THEN 125000 ELSE full]

(* Amber, red and the end of the gauge come in this order, with headroom.  *)
LimitsInOrder(out) ==
    /\ out.warn < out.alarm
    /\ out.alarm + 20000 <= out.scale /\ out.scale >= 125000

----------------------------------------------------------------------------
(* OfflineSources: directories with a metadata directory, two levels deep, *)
(* each once however many roots lead to it.                                *)
AddFolder(out, d) ==
    IF ~d.dir \/ ~d.md \/ \E i \in DOMAIN out : out[i].real = d.real THEN out
    ELSE Append(out, [real |-> d.real, images |-> d.img])
AddSubs(out, subs) ==
    LET s[n \in 0..Len(subs)] == IF n = 0 THEN out ELSE AddFolder(s[n - 1], subs[n])
    IN  s[Len(subs)]

AddEntry(out, e) == IF e.dir THEN AddSubs(AddFolder(out, e), e.subs) ELSE out
AddRoot(out, root) ==
    LET s[n \in 0..Len(root)] == IF n = 0 THEN out ELSE AddEntry(s[n - 1], root[n])
    IN  s[Len(root)]

OfflineSources(roots) ==
    LET s[n \in 0..Len(roots)] == IF n = 0 THEN <<>> ELSE AddRoot(s[n - 1], roots[n])
    IN  s[Len(roots)]

(* What is shown are the metadata directories, each once. *)
LockboxesOnce(roots, out) ==
    LET tops == {e \in UNION {ElementsOf(roots[i]) : i \in DOMAIN roots} : e.dir}
        all == tops \cup {s \in UNION {ElementsOf(e.subs) : e \in tops} : s.dir}
    IN  /\ \A i, j \in DOMAIN out : out[i].real = out[j].real => i = j
        /\ {o.real : o \in ElementsOf(out)} = {d.real : d \in {d \in all : d.md}}

----------------------------------------------------------------------------
(* parseAttrs: a length and a type of two bytes each, low byte first, the  *)
(* data, and padding to a multiple of four.  A turn of the loop that does  *)
(* not end it takes an attribute, so Len(b) turns are enough.              *)
Align(n) == ((n + 3) \div 4) * 4
Word(low, high) == low + 256 * high
Masked(t) == t % 16384
TakeAttr(b, s) ==
    LET left == Len(b) - s.at
        alen == Word(b[s.at + 1], b[s.at + 2])
        atype == Masked(Word(b[s.at + 3], b[s.at + 4]))
    IN  IF left < 4 \/ alen < 4 \/ alen > left THEN s
        ELSE [at |-> s.at + Align(alen),
              found |-> [t \in DOMAIN s.found \cup {atype} |->
                  IF t = atype THEN SubSeq(b, s.at + 5, s.at + alen) ELSE s.found[t]]]

NoAttrs == [at |-> 0, found |-> [t \in {} |-> <<>>]]
parseAttrs(b) ==
    LET s[n \in 0..Len(b)] == IF n = 0 THEN NoAttrs ELSE TakeAttr(b, s[n - 1])
    IN  s[Len(b)].found

(* What the kernel writes, and where the data of attribute i ends in it;   *)
(* the flags are the highest bits of the type.                             *)
Encoded(a) ==
    LET alen == 4 + Len(a.data)
        atype == a.type + 256 * a.flag
    IN  <<alen % 256, alen \div 256, atype % 256, atype \div 256>> \o a.data
            \o [i \in 1..(Align(alen) - alen) |-> 0]
Written(attrs) ==
    LET w[n \in 0..Len(attrs)] == IF n = 0 THEN <<>> ELSE w[n - 1] \o Encoded(attrs[n])
    IN  w
Buffer(attrs) == Written(attrs)[Len(attrs)]
EndOf(attrs, i) == Len(Written(attrs)[i - 1]) + 4 + Len(attrs[i].data)

(* Of a buffer cut off after n bytes, every attribute that is whole is     *)
(* found, the last of each type, and nothing else.                         *)
AttributesFound(attrs, n, out) ==
    LET whole == {i \in DOMAIN attrs : EndOf(attrs, i) <= n} IN
    /\ DOMAIN out = {attrs[i].type : i \in whole}
    /\ \A i \in whole :
           (\A j \in whole : attrs[j].type = attrs[i].type => j <= i) =>
               out[attrs[i].type] = attrs[i].data

----------------------------------------------------------------------------
ReadersInit == page = <<"none", <<>>, <<>>>>

ReadRoutes == \E t \in RouteTables : page' = <<"routes", t, DefaultRoutes(t)>>
ReadConnection ==
    \E f \in InterfaceLists, d \in {DefaultRoutes(t) : t \in RouteTables} :
        page' = <<"connection", <<f, d>>, connectionInfo(f, d)>>
ReadBlock == \E t \in MountTables : page' = <<"block", t, Block(t)>>
ReadLimits == \E t \in TripLists : page' = <<"limits", t, ThermalLimits(t)>>
ReadMedia == \E m \in MediaTrees : page' = <<"media", m, OfflineSources(m)>>
ReadLinks ==
    \E attrs \in Attributes : \E n \in 0..Len(Buffer(attrs)) :
        page' = <<"links", <<attrs, n>>, parseAttrs(SubSeq(Buffer(attrs), 1, n))>>

Leave == page' = <<"none", <<>>, <<>>>>

ReadersNext ==
    IF page[1] # "none" THEN Leave
    ELSE ReadRoutes \/ ReadConnection \/ ReadBlock \/ ReadLimits \/ ReadMedia \/ ReadLinks

ReadersSpec == ReadersInit /\ [][ReadersNext]_page

(* What the pages show is what was read, whatever was read: routes, the    *)
(* connection, mounts, limits, offline updates and CAN attributes.         *)
PagesAreTrue ==
    CASE page[1] = "routes" -> RoutesInOrder(page[2], page[3])
      [] page[1] = "connection" -> ConnectionsOnce(page[2][1], page[2][2], page[3])
      [] page[1] = "block" -> MountsAreShown(page[2], page[3])
      [] page[1] = "limits" -> LimitsInOrder(page[3])
      [] page[1] = "media" -> LockboxesOnce(page[2], page[3])
      [] page[1] = "links" -> AttributesFound(page[2][1], page[2][2], page[3])
      [] OTHER -> TRUE
=============================================================================
