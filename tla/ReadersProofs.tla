--------------------------- MODULE ReadersProofs ---------------------------
(***************************************************************************)
(* Proofs about Readers for tables of any length and any contents: what a  *)
(* page shows is what a reader of the page takes it to say.                *)
(***************************************************************************)
EXTENDS Readers, SequenceTheorems, WellFoundedInduction, TLAPS

(* Induction over the numbers up to N. *)
LEMMA UpToN ==
    ASSUME NEW N \in Nat, NEW S, 0 \in S, \A n \in 1..N : n - 1 \in S => n \in S
    PROVE  0..N \subseteq S
<1> SUFFICES ASSUME NEW m \in 0..N, m \notin S PROVE FALSE
  OBVIOUS
<1> DEFINE T == {n \in 0..N : n \notin S}
<1>1. T \subseteq Nat /\ T # {}
  OBVIOUS
<1>2. PICK x \in T : \A y \in T : ~(<<y, x>> \in OpToRel(<, Nat))
  BY <1>1, WFMin, NatLessThanWellFounded
<1>3. x \in 0..N /\ x \notin S /\ x # 0
  OBVIOUS
<1>4. x - 1 \in T
  BY <1>3
<1>5. <<x - 1, x>> \in OpToRel(<, Nat)
  BY <1>3 DEF OpToRel
<1>6. QED
  BY <1>2, <1>4, <1>5

(* A function on 0..N given by its first value and by its steps, as the    *)
(* readers are; step n is a function on a set S that the reader stays in.  *)
Follows(N, S, base, step, f) ==
    /\ f \in [0..N -> S]
    /\ f[0] = base /\ \A n \in 1..N : f[n] = step[n][f[n - 1]]

(* There is such a function. *)
LEMMA Recursion ==
    ASSUME NEW N \in Nat, NEW S, NEW base \in S, NEW step \in [1..N -> [S -> S]]
    PROVE  \E f : Follows(N, S, base, step, f)
<1> DEFINE Run(n, f) == f[0] = base /\ \A k \in 1..n : f[k] = step[k][f[k - 1]]
           T == {n \in 0..N : \E f \in [0..n -> S] : Run(n, f)}
<1>1. 0 \in T
  <2> DEFINE g == [k \in 0..0 |-> base]
  <2>1. g \in [0..0 -> S] /\ Run(0, g)
    OBVIOUS
  <2> HIDE DEF g
  <2>2. QED
    BY <2>1
<1>2. ASSUME NEW n \in 1..N, n - 1 \in T
      PROVE  n \in T
  <2>1. PICK f \in [0..(n - 1) -> S] : Run(n - 1, f)
    BY <1>2
  <2> DEFINE g == [k \in 0..n |-> IF k = n THEN step[n][f[n - 1]] ELSE f[k]]
  <2>2. f[n - 1] \in S /\ step[n] \in [S -> S]
    OBVIOUS
  <2>3. g \in [0..n -> S]
    BY <2>2
  <2>4. \A k \in 0..(n - 1) : g[k] = f[k]
    OBVIOUS
  <2>5. g[n] = step[n][g[n - 1]]
    BY <2>4
  <2> HIDE DEF g
  <2>6. g[0] = base
    BY <2>1, <2>4
  <2>7. ASSUME NEW k \in 1..n PROVE g[k] = step[k][g[k - 1]]
    <3>1. CASE k = n
      BY <2>5, <3>1
    <3>2. CASE k \in 1..(n - 1)
      <4>1. k \in 0..(n - 1) /\ k - 1 \in 0..(n - 1)
        BY <3>2
      <4>2. QED
        BY <2>1, <2>4, <3>2, <4>1
    <3>3. QED
      BY <3>1, <3>2
  <2>8. Run(n, g)
    BY <2>6, <2>7
  <2>9. n \in 0..N
    OBVIOUS
  <2> HIDE DEF Run
  <2>10. QED
    BY <2>3, <2>8, <2>9
<1>3. N \in T
  <2> HIDE DEF T
  <2>1. 0..N \subseteq T
    BY <1>1, <1>2, UpToN
  <2>2. QED
    BY <2>1
<1>4. QED
  BY <1>3 DEF Follows

----------------------------------------------------------------------------
(* DefaultRoutes, for routing tables of any length.                        *)

InOrder(s) == \A i, j \in DOMAIN s : i <= j => s[i].metric <= s[j].metric

(* Fields of routes have their types. *)
LEMMA RouteTyped ==
    /\ \A r \in Route : r.iface \in STRING /\ r.default \in BOOLEAN /\ r.metric \in Int
    /\ \A s \in Seq(Route) : \A i \in 1..Len(s) : s[i] \in Route /\ s[i].metric \in Int
<1>1. \A r \in Route : r.iface \in STRING /\ r.default \in BOOLEAN /\ r.metric \in Int
  BY DEF Route
<1>2. \A s \in Seq(Route) : \A i \in 1..Len(s) : s[i] \in Route
  OBVIOUS
<1>3. QED
  BY <1>1, <1>2

(* There is a place for a route in a table that is in order. *)
LEMMA PlaceExists ==
    ASSUME NEW s \in Seq(Route), InOrder(s), NEW r \in Route
    PROVE  \E n \in 0..Len(s) :
               /\ \A i \in 1..n : s[i].metric <= r.metric
               /\ \A i \in (n + 1)..Len(s) : s[i].metric > r.metric
<1> SUFFICES ASSUME ~\E n \in 0..Len(s) :
                       /\ \A i \in 1..n : s[i].metric <= r.metric
                       /\ \A i \in (n + 1)..Len(s) : s[i].metric > r.metric
             PROVE  FALSE
  OBVIOUS
<1> DEFINE T == {n \in 0..Len(s) : \A i \in 1..n : s[i].metric <= r.metric}
<1>1. r.metric \in Int /\ \A i \in 1..Len(s) : s[i] \in Route /\ s[i].metric \in Int
  BY RouteTyped
<1>2. 0 \in T
  OBVIOUS
<1>3. ASSUME NEW n \in 1..Len(s), n - 1 \in T
      PROVE  n \in T
  <2>1. CASE s[n].metric <= r.metric
    BY <1>3, <2>1
  <2>2. CASE s[n].metric > r.metric
    <3>1. \A i \in n..Len(s) : s[i].metric > r.metric
      BY <1>1, <2>2 DEF InOrder
    <3>2. n - 1 \in 0..Len(s) /\ (n - 1) + 1 = n
      OBVIOUS
    <3>3. QED
      BY <1>3, <3>1, <3>2
  <2>3. QED
    BY <1>1, <2>1, <2>2
<1>4. Len(s) \in T
  <2> HIDE DEF T
  <2>1. 0..Len(s) \subseteq T
    BY <1>2, <1>3, Len(s) \in Nat, UpToN
  <2>2. QED
    BY <2>1
<1>5. QED
  BY <1>4

(* A route gets in at its place, and nothing else changes. *)
LEMMA InsertPlaces ==
    ASSUME NEW s \in Seq(Route), InOrder(s), NEW r \in Route
    PROVE  \E n \in 0..Len(s) :
               /\ \A i \in 1..n : s[i].metric <= r.metric
               /\ \A i \in (n + 1)..Len(s) : s[i].metric > r.metric
               /\ Insert(s, r) \in Seq(Route)
               /\ Len(Insert(s, r)) = Len(s) + 1
               /\ \A i \in 1..n : Insert(s, r)[i] = s[i]
               /\ Insert(s, r)[n + 1] = r
               /\ \A i \in (n + 1)..Len(s) : Insert(s, r)[i + 1] = s[i]
<1> DEFINE Place(n) == /\ \A i \in 1..n : s[i].metric <= r.metric
                       /\ \A i \in (n + 1)..Len(s) : s[i].metric > r.metric
           n == CHOOSE n \in 0..Len(s) : Place(n)
           t == SubSeq(s, 1, n) \o <<r>> \o SubSeq(s, n + 1, Len(s))
<1>1. n \in 0..Len(s) /\ Place(n)
  <2>1. \E m \in 0..Len(s) : Place(m)
    BY PlaceExists
  <2> HIDE DEF Place
  <2>2. QED
    BY <2>1
<1>2. Insert(s, r) = t
  BY DEF Insert
<1> HIDE DEF n
<1>3. /\ SubSeq(s, 1, n) \in Seq(Route) /\ Len(SubSeq(s, 1, n)) = n
      /\ \A i \in 1..n : SubSeq(s, 1, n)[i] = s[i]
  BY <1>1
<1>4. /\ SubSeq(s, n + 1, Len(s)) \in Seq(Route)
      /\ Len(SubSeq(s, n + 1, Len(s))) = Len(s) - n
      /\ \A i \in 1..(Len(s) - n) : SubSeq(s, n + 1, Len(s))[i] = s[n + i]
  BY <1>1
<1>5. <<r>> \in Seq(Route) /\ Len(<<r>>) = 1 /\ <<r>>[1] = r
  OBVIOUS
<1> DEFINE a == SubSeq(s, 1, n)
           b == SubSeq(s, n + 1, Len(s))
           c == a \o <<r>>
<1> HIDE DEF a, b
<1>6. c \in Seq(Route) /\ Len(c) = n + 1 /\ c[n + 1] = r /\ \A i \in 1..n : c[i] = s[i]
  BY <1>1, <1>3, <1>5 DEF a
<1>7. /\ c \o b \in Seq(Route) /\ Len(c \o b) = Len(s) + 1
      /\ \A i \in 1..(n + 1) : (c \o b)[i] = c[i]
      /\ \A i \in (n + 2)..(Len(s) + 1) : (c \o b)[i] = b[i - (n + 1)]
  <2> HIDE DEF c
  <2>1. QED
    BY <1>1, <1>4, <1>6 DEF b
<1>8. t = c \o b
  BY DEF a, b
<1>9. \A i \in (n + 1)..Len(s) : t[i + 1] = s[i]
  <2> SUFFICES ASSUME NEW i \in (n + 1)..Len(s) PROVE t[i + 1] = s[i]
    OBVIOUS
  <2>1. i + 1 \in (n + 2)..(Len(s) + 1) /\ i - n \in 1..(Len(s) - n)
    BY <1>1
  <2>2. t[i + 1] = b[i - n]
    <3> HIDE DEF t, c
    <3>1. (i + 1) - (n + 1) = i - n
      BY <1>1
    <3>2. QED
      BY <1>7, <1>8, <2>1, <3>1
  <2>3. b[i - n] = s[n + (i - n)]
    BY <1>4, <2>1 DEF b
  <2>4. n + (i - n) = i
    BY <1>1
  <2>5. QED
    BY <2>2, <2>3, <2>4
<1>10. QED
  <2> HIDE DEF t, c
  <2>1. \A i \in 1..n : t[i] = s[i]
    BY <1>1, <1>6, <1>7, <1>8
  <2>2. t[n + 1] = r
    BY <1>1, <1>6, <1>7, <1>8
  <2>3. t \in Seq(Route) /\ Len(t) = Len(s) + 1
    BY <1>7, <1>8
  <2>4. QED
    BY <1>1, <1>2, <1>9, <2>1, <2>2, <2>3

(* The table stays in order, and gains the route. *)
LEMMA InsertKeepsOrder ==
    ASSUME NEW s \in Seq(Route), InOrder(s), NEW r \in Route
    PROVE  /\ Insert(s, r) \in Seq(Route) /\ InOrder(Insert(s, r))
           /\ ElementsOf(Insert(s, r)) = ElementsOf(s) \cup {r}
<1> DEFINE t == Insert(s, r)
<1>1. PICK n \in 0..Len(s) :
          /\ \A i \in 1..n : s[i].metric <= r.metric
          /\ \A i \in (n + 1)..Len(s) : s[i].metric > r.metric
          /\ t \in Seq(Route) /\ Len(t) = Len(s) + 1
          /\ \A i \in 1..n : t[i] = s[i]
          /\ t[n + 1] = r
          /\ \A i \in (n + 1)..Len(s) : t[i + 1] = s[i]
  BY InsertPlaces
<1> HIDE DEF t
<1>2. DOMAIN s = 1..Len(s) /\ DOMAIN t = 1..(Len(s) + 1)
  BY <1>1
<1>3. r.metric \in Int /\ \A i \in 1..Len(s) : s[i].metric \in Int
  BY RouteTyped
<1>4. \A i \in (n + 2)..(Len(s) + 1) : i - 1 \in (n + 1)..Len(s) /\ t[i] = s[i - 1]
  BY <1>1
<1>5. \A i \in 1..(Len(s) + 1) : i \in 1..n \/ i = n + 1 \/ i \in (n + 2)..(Len(s) + 1)
  OBVIOUS
<1>6. InOrder(t)
  <2> SUFFICES ASSUME NEW i \in 1..(Len(s) + 1), NEW j \in 1..(Len(s) + 1), i < j
               PROVE  t[i].metric <= t[j].metric
    <3>1. \A i \in 1..(Len(s) + 1) : t[i].metric \in Int
      BY <1>1, RouteTyped
    <3>2. QED
      BY <1>2, <3>1 DEF InOrder
  <2>1. CASE j \in 1..n
    <3>1. t[i] = s[i] /\ t[j] = s[j] /\ i \in DOMAIN s /\ j \in DOMAIN s /\ i <= j
      BY <1>1, <1>2, <2>1
    <3>2. QED
      BY <3>1 DEF InOrder
  <2>2. CASE j = n + 1
    BY <1>1, <2>2
  <2>3. CASE j \in (n + 2)..(Len(s) + 1)
    <3>1. t[j] = s[j - 1] /\ j - 1 \in (n + 1)..Len(s)
      BY <1>4, <2>3
    <3>2. CASE i \in 1..n
      <4>1. t[i] = s[i] /\ i \in DOMAIN s /\ j - 1 \in DOMAIN s /\ i <= j - 1
        BY <1>1, <1>2, <3>1, <3>2
      <4>2. QED
        BY <3>1, <4>1 DEF InOrder
    <3>3. CASE i = n + 1
      BY <1>1, <1>3, <3>1, <3>3
    <3>4. CASE i \in (n + 2)..(Len(s) + 1)
      <4>1. t[i] = s[i - 1] /\ i - 1 \in (n + 1)..Len(s)
        BY <1>4, <3>4
      <4>2. QED
        BY <1>2, <3>1, <4>1 DEF InOrder
    <3>5. QED
      BY <1>5, <3>2, <3>3, <3>4
  <2>4. QED
    BY <1>5, <2>1, <2>2, <2>3
<1>7. ElementsOf(t) = ElementsOf(s) \cup {r}
  <2>1. ASSUME NEW i \in 1..(Len(s) + 1) PROVE t[i] \in ElementsOf(s) \cup {r}
    <3>1. CASE i \in 1..n
      BY <1>1, <1>2, <3>1 DEF ElementsOf
    <3>2. CASE i = n + 1
      BY <1>1, <3>2
    <3>3. CASE i \in (n + 2)..(Len(s) + 1)
      <4>1. t[i] = s[i - 1] /\ i - 1 \in DOMAIN s
        BY <1>2, <1>4, <3>3
      <4>2. QED
        BY <4>1 DEF ElementsOf
    <3>4. QED
      BY <1>5, <3>1, <3>2, <3>3
  <2>2. ASSUME NEW i \in 1..Len(s) PROVE \E j \in 1..(Len(s) + 1) : t[j] = s[i]
    <3>1. CASE i \in 1..n
      BY <1>1, <3>1
    <3>2. CASE i \in (n + 1)..Len(s)
      <4>1. i + 1 \in 1..(Len(s) + 1) /\ t[i + 1] = s[i]
        BY <1>1, <3>2
      <4>2. QED
        BY <4>1
    <3>3. QED
      BY <3>1, <3>2
  <2>3. n + 1 \in 1..(Len(s) + 1) /\ t[n + 1] = r
    BY <1>1
  <2>4. QED
    BY <1>2, <2>1, <2>2, <2>3 DEF ElementsOf
<1>8. QED
  BY <1>1, <1>6, <1>7 DEF t

(* Sorted, one route after the other. *)
LEMMA SortedRuns ==
    ASSUME NEW table \in Seq(Route)
    PROVE  \E f : /\ Sorted(table) = f[Len(table)]
                  /\ f[0] = <<>>
                  /\ \A n \in 1..Len(table) : f[n] = AddRoute(f[n - 1], table[n])
<1> DEFINE N == Len(table)
           S == {s \in Seq(Route) : InOrder(s)}
           Loop(f) == f = [n \in 0..N |-> IF n = 0 THEN <<>> ELSE AddRoute(f[n - 1], table[n])]
           step == [n \in 1..N |-> [s \in S |-> AddRoute(s, table[n])]]
           run == CHOOSE f : Loop(f)
<1>1. N \in Nat
  OBVIOUS
<1>2. <<>> \in S
  BY DEF InOrder
<1>3. \A n \in 1..N : \A s \in S : AddRoute(s, table[n]) \in S
  <2>1. \A n \in 1..N : table[n] \in Route
    OBVIOUS
  <2>2. QED
    BY <2>1, InsertKeepsOrder DEF AddRoute
<1>4. PICK f : Follows(N, S, <<>>, step, f)
  <2>1. step \in [1..N -> [S -> S]]
    <3> HIDE DEF N, S
    <3>1. QED
      BY <1>3
  <2> HIDE DEF N, S, step
  <2>2. QED
    BY <1>1, <1>2, <2>1, Recursion
<1>5. \A n \in 1..N : f[n] = AddRoute(f[n - 1], table[n])
  <2> HIDE DEF step, N, S
  <2>1. \A n \in 1..N : f[n - 1] \in S /\ f[n] = step[n][f[n - 1]]
    BY <1>1, <1>4 DEF Follows
  <2>2. QED
    BY <2>1 DEF step
<1>6. Loop(f)
  <2> HIDE DEF S
  <2>1. QED
    BY <1>4, <1>5 DEF Follows
<1>7. Loop(run)
  <2> HIDE DEF Loop
  <2>1. QED
    BY <1>6, Zenon
<1>8. /\ run[0] = <<>>
      /\ \A n \in 1..N : run[n] = AddRoute(run[n - 1], table[n])
  <2>1. \A n \in 0..N : run[n] = IF n = 0 THEN <<>> ELSE AddRoute(run[n - 1], table[n])
    BY <1>7
  <2> HIDE DEF run, N
  <2>2. QED
    BY <1>1, <2>1
<1>9. Sorted(table) = run[N]
  BY DEF Sorted
<1> HIDE DEF run
<1>10. QED
  BY <1>8, <1>9

(* DefaultRoutes' first loop: a table of the default routes, in order. *)
LEMMA SortedIsInOrder ==
    ASSUME NEW table \in Seq(Route)
    PROVE  /\ Sorted(table) \in Seq(Route) /\ InOrder(Sorted(table))
           /\ ElementsOf(Sorted(table)) = Defaults(table)
<1> DEFINE N == Len(table)
           Seen(n) == {r \in {table[i] : i \in 1..n} : r.default}
<1>1. PICK f : /\ Sorted(table) = f[N]
               /\ f[0] = <<>>
               /\ \A n \in 1..N : f[n] = AddRoute(f[n - 1], table[n])
  BY SortedRuns
<1> DEFINE T == {n \in 0..N : /\ f[n] \in Seq(Route) /\ InOrder(f[n])
                              /\ ElementsOf(f[n]) = Seen(n)}
<1>2. N \in Nat /\ DOMAIN table = 1..N
  OBVIOUS
<1>3. 0 \in T
  <2>1. DOMAIN f[0] = {}
    BY <1>1
  <2>2. InOrder(f[0]) /\ ElementsOf(f[0]) = {} /\ Seen(0) = {}
    BY <2>1 DEF InOrder, ElementsOf
  <2>3. f[0] \in Seq(Route)
    BY <1>1
  <2>4. QED
    BY <1>2, <2>2, <2>3
<1>4. ASSUME NEW n \in 1..N, n - 1 \in T
      PROVE  n \in T
  <2>1. f[n - 1] \in Seq(Route) /\ InOrder(f[n - 1]) /\ ElementsOf(f[n - 1]) = Seen(n - 1)
    BY <1>4
  <2>2. table[n] \in Route /\ table[n].default \in BOOLEAN
    BY RouteTyped
  <2>3. 1..n = 1..(n - 1) \cup {n}
    BY <1>2
  <2>4. Seen(n) = IF table[n].default THEN Seen(n - 1) \cup {table[n]} ELSE Seen(n - 1)
    BY <2>2, <2>3
  <2>5. f[n] = IF table[n].default THEN Insert(f[n - 1], table[n]) ELSE f[n - 1]
    BY <1>1 DEF AddRoute
  <2> HIDE DEF Seen
  <2>6. CASE table[n].default
    <3>1. /\ Insert(f[n - 1], table[n]) \in Seq(Route)
          /\ InOrder(Insert(f[n - 1], table[n]))
          /\ ElementsOf(Insert(f[n - 1], table[n])) = ElementsOf(f[n - 1]) \cup {table[n]}
      BY <2>1, <2>2, InsertKeepsOrder
    <3>2. ElementsOf(f[n]) = Seen(n) /\ f[n] = Insert(f[n - 1], table[n])
      BY <2>1, <2>4, <2>5, <2>6, <3>1
    <3>3. QED
      BY <3>1, <3>2
  <2>7. CASE ~table[n].default
    BY <2>1, <2>4, <2>5, <2>7
  <2>8. QED
    BY <2>6, <2>7
<1>5. N \in T
  <2> HIDE DEF T
  <2>1. 0..N \subseteq T
    BY <1>2, <1>3, <1>4, UpToN
  <2>2. QED
    BY <1>2, <2>1
<1>6. Seen(N) = Defaults(table)
  BY <1>2 DEF Defaults, ElementsOf
<1>7. QED
  BY <1>1, <1>5, <1>6

(* Its second loop, one name after the other. *)
LEMMA NamesRun ==
    ASSUME NEW table \in Seq(Route)
    PROVE  \E f : /\ DefaultRoutes(table) = f[Len(Sorted(table))]
                  /\ f[0] = <<>>
                  /\ \A n \in 1..Len(Sorted(table)) :
                         f[n] = AddName(f[n - 1], Sorted(table)[n])
<1> DEFINE routes == Sorted(table)
           N == Len(routes)
           S == Seq(STRING)
           Loop(f) == f = [n \in 0..N |-> IF n = 0 THEN <<>> ELSE AddName(f[n - 1], routes[n])]
           step == [n \in 1..N |-> [s \in S |-> AddName(s, routes[n])]]
           run == CHOOSE f : Loop(f)
<1>0. routes \in Seq(Route)
  BY SortedIsInOrder
<1> HIDE DEF routes
<1>1. N \in Nat
  BY <1>0
<1>2. <<>> \in S
  OBVIOUS
<1>3. \A n \in 1..N : \A s \in S : AddName(s, routes[n]) \in S
  <2>1. \A n \in 1..N : routes[n].iface \in STRING
    BY <1>0, RouteTyped
  <2>2. \A n \in 1..N : \A s \in S : Append(s, routes[n].iface) \in S
    <3> HIDE DEF N
    <3>1. QED
      BY <2>1
  <2> HIDE DEF S, N
  <2>3. QED
    BY <2>2 DEF AddName
<1>4. PICK f : Follows(N, S, <<>>, step, f)
  <2>1. step \in [1..N -> [S -> S]]
    <3> HIDE DEF N, S
    <3>1. QED
      BY <1>3
  <2> HIDE DEF N, S, step
  <2>2. QED
    BY <1>1, <1>2, <2>1, Recursion
<1>5. \A n \in 1..N : f[n] = AddName(f[n - 1], routes[n])
  <2> HIDE DEF step, N, S
  <2>1. \A n \in 1..N : f[n - 1] \in S /\ f[n] = step[n][f[n - 1]]
    BY <1>1, <1>4 DEF Follows
  <2>2. QED
    BY <2>1 DEF step
<1>6. Loop(f)
  <2> HIDE DEF S
  <2>1. QED
    BY <1>4, <1>5 DEF Follows
<1>7. Loop(run)
  <2> HIDE DEF Loop
  <2>1. QED
    BY <1>6, Zenon
<1>8. /\ run[0] = <<>>
      /\ \A n \in 1..N : run[n] = AddName(run[n - 1], routes[n])
  <2>1. \A n \in 0..N : run[n] = IF n = 0 THEN <<>> ELSE AddName(run[n - 1], routes[n])
    BY <1>7
  <2> HIDE DEF run, N
  <2>2. QED
    BY <1>1, <2>1
<1>9. DefaultRoutes(table) = run[N]
  BY DEF DefaultRoutes, routes
<1> HIDE DEF run
<1>10. QED
  BY <1>8, <1>9 DEF routes

(* Each interface is named once, before all whose best route comes later.  *)
NamesOnce(s, n, out) ==
    /\ out \in Seq(STRING)
    /\ \A i, j \in DOMAIN out : out[i] = out[j] => i = j
    /\ ElementsOf(out) = {s[i].iface : i \in 1..n}
    /\ \A k \in DOMAIN out : \E p \in 1..n :
           /\ s[p].iface = out[k]
           /\ \A m \in DOMAIN out : k < m =>
                  \A q \in 1..n : s[q].iface = out[m] => p < q

(* A name more keeps them so. *)
LEMMA AddNameOnce ==
    ASSUME NEW s \in Seq(Route), NEW n \in 1..Len(s), NEW out, NamesOnce(s, n - 1, out)
    PROVE  NamesOnce(s, n, AddName(out, s[n]))
<1> DEFINE r == s[n]
           new == Append(out, r.iface)
<1>1. /\ out \in Seq(STRING)
      /\ \A i, j \in DOMAIN out : out[i] = out[j] => i = j
      /\ ElementsOf(out) = {s[i].iface : i \in 1..(n - 1)}
      /\ \A k \in DOMAIN out : \E p \in 1..(n - 1) :
             /\ s[p].iface = out[k]
             /\ \A m \in DOMAIN out : k < m =>
                    \A q \in 1..(n - 1) : s[q].iface = out[m] => p < q
  BY DEF NamesOnce
<1>2. n \in Nat /\ n - 1 \in Nat /\ 1..n = 1..(n - 1) \cup {n} /\ n \notin 1..(n - 1)
  OBVIOUS
<1>3. r.iface \in STRING
  BY RouteTyped
<1>4. {s[i].iface : i \in 1..n} = {s[i].iface : i \in 1..(n - 1)} \cup {r.iface}
  BY <1>2
<1>5. CASE r.iface \in ElementsOf(out)
  <2>1. AddName(out, r) = out
    BY <1>5 DEF AddName
  <2>2. ElementsOf(out) = {s[i].iface : i \in 1..n}
    BY <1>1, <1>4, <1>5
  <2>3. ASSUME NEW k \in DOMAIN out
        PROVE  \E p \in 1..n :
                   /\ s[p].iface = out[k]
                   /\ \A m \in DOMAIN out : k < m =>
                          \A q \in 1..n : s[q].iface = out[m] => p < q
    <3>1. PICK p \in 1..(n - 1) :
              /\ s[p].iface = out[k]
              /\ \A m \in DOMAIN out : k < m =>
                     \A q \in 1..(n - 1) : s[q].iface = out[m] => p < q
      BY <1>1
    <3>2. p \in 1..n /\ p < n
      BY <1>2
    <3>3. \A m \in DOMAIN out : k < m => \A q \in 1..n : s[q].iface = out[m] => p < q
      BY <1>2, <3>1, <3>2
    <3>4. QED
      BY <3>1, <3>2, <3>3
  <2>4. QED
    BY <1>1, <2>1, <2>2, <2>3 DEF NamesOnce
<1>6. CASE r.iface \notin ElementsOf(out)
  <2>1. AddName(out, r) = new
    BY <1>6 DEF AddName
  <2>2. /\ new \in Seq(STRING) /\ Len(new) = Len(out) + 1
        /\ new[Len(out) + 1] = r.iface /\ \A i \in 1..Len(out) : new[i] = out[i]
        /\ DOMAIN new = 1..(Len(out) + 1) /\ DOMAIN out = 1..Len(out)
        /\ Len(out) \in Nat
    BY <1>1, <1>3
  <2> HIDE DEF new
  <2>3. DOMAIN new = DOMAIN out \cup {Len(out) + 1} /\ Len(out) + 1 \notin DOMAIN out
    BY <2>2
  <2>4. \A i \in DOMAIN out : out[i] # r.iface
    BY <1>6 DEF ElementsOf
  <2>5. \A i, j \in DOMAIN new : new[i] = new[j] => i = j
    BY <1>1, <2>2, <2>3, <2>4
  <2>6. ElementsOf(new) = ElementsOf(out) \cup {r.iface}
    BY <2>2, <2>3 DEF ElementsOf
  <2>7. ASSUME NEW k \in DOMAIN new
        PROVE  \E p \in 1..n :
                   /\ s[p].iface = new[k]
                   /\ \A m \in DOMAIN new : k < m =>
                          \A q \in 1..n : s[q].iface = new[m] => p < q
    <3>1. CASE k = Len(out) + 1
      <4>1. n \in 1..n /\ s[n].iface = new[k]
        BY <1>2, <2>2, <3>1
      <4>2. \A m \in DOMAIN new : ~(k < m)
        BY <2>2, <3>1
      <4>3. QED
        BY <4>1, <4>2
    <3>2. CASE k \in DOMAIN out
      <4>1. PICK p \in 1..(n - 1) :
                /\ s[p].iface = out[k]
                /\ \A m \in DOMAIN out : k < m =>
                       \A q \in 1..(n - 1) : s[q].iface = out[m] => p < q
        BY <1>1, <3>2
      <4>2. p \in 1..n /\ p < n /\ s[p].iface = new[k]
        BY <1>2, <2>2, <3>2, <4>1
      <4>3. ASSUME NEW m \in DOMAIN new, k < m, NEW q \in 1..n, s[q].iface = new[m]
            PROVE  p < q
        <5>1. CASE q = n
          BY <4>2, <5>1
        <5>2. CASE q \in 1..(n - 1)
          <6>1. s[q].iface \in ElementsOf(out)
            BY <1>1, <5>2
          <6>2. m \in DOMAIN out /\ new[m] = out[m]
            BY <1>6, <2>2, <2>3, <4>3, <6>1
          <6>3. QED
            BY <4>1, <4>3, <5>2, <6>2
        <5>3. QED
          BY <1>2, <5>1, <5>2
      <4>4. QED
        BY <4>2, <4>3
    <3>3. QED
      BY <2>3, <3>1, <3>2
  <2>8. QED
    BY <1>1, <1>4, <2>1, <2>2, <2>5, <2>6, <2>7 DEF NamesOnce
<1>7. QED
  BY <1>5, <1>6

(* DefaultRoutes: whatever the table, the interfaces with a default route, *)
(* each once, best metrics first.                                          *)
LEMMA RoutesCorrect ==
    ASSUME NEW table \in Seq(Route)
    PROVE  /\ DefaultRoutes(table) \in Seq(STRING)
           /\ RoutesInOrder(table, DefaultRoutes(table))
<1> DEFINE s == Sorted(table)
           N == Len(s)
           out == DefaultRoutes(table)
<1>1. s \in Seq(Route) /\ InOrder(s) /\ ElementsOf(s) = Defaults(table)
  BY SortedIsInOrder
<1>2. PICK f : out = f[N] /\ f[0] = <<>> /\ \A n \in 1..N : f[n] = AddName(f[n - 1], s[n])
  BY NamesRun
<1> HIDE DEF s, out
<1> DEFINE T == {n \in 0..N : NamesOnce(s, n, f[n])}
<1>3. N \in Nat /\ DOMAIN s = 1..N
  BY <1>1
<1>4. 0 \in T
  <2>1. f[0] \in Seq(STRING) /\ DOMAIN f[0] = {}
    BY <1>2
  <2>2. ElementsOf(f[0]) = {} /\ {s[i].iface : i \in 1..0} = {}
    BY <2>1 DEF ElementsOf
  <2>3. NamesOnce(s, 0, f[0])
    BY <2>1, <2>2 DEF NamesOnce
  <2>4. QED
    BY <1>3, <2>3
<1>5. ASSUME NEW n \in 1..N, n - 1 \in T
      PROVE  n \in T
  <2>1. NamesOnce(s, n - 1, f[n - 1])
    BY <1>5
  <2>2. NamesOnce(s, n, AddName(f[n - 1], s[n]))
    BY <1>1, <2>1, AddNameOnce
  <2>3. f[n] = AddName(f[n - 1], s[n])
    BY <1>2
  <2>4. QED
    BY <2>2, <2>3
<1>6. NamesOnce(s, N, out)
  <2>1. 0..N \subseteq T
    <3> HIDE DEF T
    <3>1. QED
      BY <1>3, <1>4, <1>5, UpToN
  <2>2. QED
    BY <1>2, <1>3, <2>1
<1> HIDE DEF N
<1>7. /\ out \in Seq(STRING)
      /\ \A i, j \in DOMAIN out : out[i] = out[j] => i = j
      /\ ElementsOf(out) = {s[i].iface : i \in 1..N}
      /\ \A k \in DOMAIN out : \E p \in 1..N :
             /\ s[p].iface = out[k]
             /\ \A m \in DOMAIN out : k < m =>
                    \A q \in 1..N : s[q].iface = out[m] => p < q
  BY <1>6 DEF NamesOnce
<1>8. ElementsOf(out) = {r.iface : r \in Defaults(table)}
  <2>1. Defaults(table) = {s[i] : i \in 1..N}
    BY <1>1, <1>3 DEF ElementsOf
  <2>2. QED
    BY <1>7, <2>1
<1>9. ASSUME NEW i \in DOMAIN out, NEW j \in DOMAIN out, i < j
      PROVE  \E r \in Defaults(table) :
                 /\ r.iface = out[i]
                 /\ \A q \in Defaults(table) : q.iface = out[j] => r.metric <= q.metric
  <2>1. PICK p \in 1..N : /\ s[p].iface = out[i]
                          /\ \A q \in 1..N : s[q].iface = out[j] => p < q
    BY <1>7, <1>9
  <2>2. s[p] \in Defaults(table)
    BY <1>1, <1>3 DEF ElementsOf
  <2>3. ASSUME NEW q \in Defaults(table), q.iface = out[j]
        PROVE  s[p].metric <= q.metric
    <3>1. PICK m \in 1..N : q = s[m]
      BY <1>1, <1>3 DEF ElementsOf
    <3>2. p < m
      BY <2>1, <2>3, <3>1
    <3>3. QED
      BY <1>1, <1>3, <3>1, <3>2 DEF InOrder
  <2>4. QED
    BY <2>1, <2>2, <2>3
<1>10. RoutesInOrder(table, out)
  BY <1>7, <1>8, <1>9 DEF RoutesInOrder
<1>11. QED
  BY <1>7, <1>10 DEF out

----------------------------------------------------------------------------
(* connectionInfo, for any interfaces and default routes.                  *)

(* A set of numbers that is not empty has a least one. *)
LEMMA LeastExists ==
    ASSUME NEW S, S \subseteq Nat, S # {}
    PROVE  \E i \in S : \A j \in S : i <= j
<1>1. PICK i \in S : \A j \in S : ~(<<j, i>> \in OpToRel(<, Nat))
  BY WFMin, NatLessThanWellFounded
<1>2. ASSUME NEW j \in S PROVE i <= j
  <2>1. i \in Nat /\ j \in Nat
    OBVIOUS
  <2>2. ~(j < i)
    BY <1>1, <2>1 DEF OpToRel
  <2>3. QED
    BY <2>1, <2>2
<1>3. QED
  BY <1>2

(* Names tell interfaces apart, so sets of names are as sets of indices.   *)
LEMMA ConnectionCorrect ==
    ASSUME NEW ifaces \in Seq(Iface), NEW defaults \in Seq(STRING),
           \A i, j \in DOMAIN ifaces : ifaces[i].name = ifaces[j].name => i = j
    PROVE  ConnectionsOnce(ifaces, defaults, connectionInfo(ifaces, defaults))
<1> DEFINE D == DOMAIN ifaces
           uplink == {i \in D : defaults # <<>> /\ ifaces[i].name = Head(defaults) /\ ifaces[i].ip}
           connected == {i \in D : ifaces[i].connected /\ ifaces[i].ip}
           first == {i \in connected : \A j \in connected : i <= j}
           primary == IF uplink # {} THEN uplink ELSE first
           others == IF primary = {} THEN {} ELSE connected \ primary
           out == connectionInfo(ifaces, defaults)
<1>1. out.primary = {ifaces[i].name : i \in primary} /\ out.others = {ifaces[i].name : i \in others}
  BY DEF connectionInfo
<1>2. connected # {} => primary # {}
  <2>1. connected \subseteq Nat
    OBVIOUS
  <2> HIDE DEF connected, uplink
  <2>2. connected # {} => first # {}
    BY <2>1, LeastExists
  <2>3. QED
    BY <2>2
<1>3. /\ primary \subseteq {i \in D : ifaces[i].ip}
      /\ others \subseteq connected /\ primary \cap others = {}
  OBVIOUS
<1>4. connected \subseteq primary \cup others
  <2> HIDE DEF connected, primary
  <2>1. QED
    BY <1>2
<1>5. ASSUME NEW i \in others, defaults # <<>> PROVE ifaces[i].name # Head(defaults)
  <2> SUFFICES ASSUME ifaces[i].name = Head(defaults) PROVE FALSE
    OBVIOUS
  <2>1. i \in uplink
    BY <1>3, <1>5
  <2>2. i \in primary
    BY <2>1
  <2>3. QED
    BY <1>3, <2>2
<1> HIDE DEF out, primary, others, uplink, first
<1>6. out.primary \cap out.others = {}
  <2> SUFFICES ASSUME NEW i \in primary, NEW j \in others, ifaces[i].name = ifaces[j].name
               PROVE  FALSE
    BY <1>1
  <2>1. i \in D /\ j \in D
    BY <1>3
  <2>2. QED
    BY <1>3, <2>1
<1> DEFINE addressed == {f \in ElementsOf(ifaces) : f.ip}
<1>7. {f.name : f \in {f \in addressed : f.connected}} \subseteq out.primary \cup out.others
  <2> SUFFICES ASSUME NEW f \in ElementsOf(ifaces), f.ip, f.connected
               PROVE  f.name \in out.primary \cup out.others
    OBVIOUS
  <2>1. PICK i \in D : f = ifaces[i]
    BY DEF ElementsOf
  <2>2. i \in connected
    BY <2>1
  <2>3. i \in primary \cup others
    BY <1>4, <2>2
  <2>4. QED
    BY <1>1, <2>1, <2>3
<1>8. out.primary \cup out.others \subseteq {f.name : f \in addressed}
  <2>1. ASSUME NEW i \in primary \cup others
        PROVE  ifaces[i].name \in {f.name : f \in addressed}
    <3>1. i \in D /\ ifaces[i].ip
      BY <1>3
    <3>2. ifaces[i] \in addressed
      BY <3>1 DEF ElementsOf
    <3>3. QED
      BY <3>2
  <2> HIDE DEF addressed
  <2>2. QED
    BY <1>1, <2>1
<1>9. out.others \cap {defaults[i] : i \in {1} \cap DOMAIN defaults} = {}
  <2> SUFFICES ASSUME NEW i \in others, 1 \in DOMAIN defaults, ifaces[i].name = defaults[1]
               PROVE  FALSE
    BY <1>1
  <2>1. defaults # <<>> /\ Head(defaults) = defaults[1]
    OBVIOUS
  <2>2. QED
    BY <1>5, <2>1
<1>10. QED
  BY <1>6, <1>7, <1>8, <1>9 DEF ConnectionsOnce, out

----------------------------------------------------------------------------
(* ThermalLimits, for any trip points of a zone.                           *)

(* LastTrip, one trip point after the other. *)
LEMMA TripsRun ==
    ASSUME NEW trips \in Seq(TripPoint), NEW type, NEW default \in Int
    PROVE  \E f : /\ LastTrip(trips, type, default) = f[Len(trips)]
                  /\ f[0] = default
                  /\ \A n \in 1..Len(trips) : f[n] = TakeTrip(f[n - 1], trips[n], type)
<1> DEFINE N == Len(trips)
           Loop(f) == f = [n \in 0..N |->
               IF n = 0 THEN default ELSE TakeTrip(f[n - 1], trips[n], type)]
           step == [n \in 1..N |-> [v \in Int |-> TakeTrip(v, trips[n], type)]]
           run == CHOOSE f : Loop(f)
<1>1. N \in Nat
  OBVIOUS
<1>2. \A n \in 1..N : \A v \in Int : TakeTrip(v, trips[n], type) \in Int
  <2>1. \A n \in 1..N : trips[n] \in TripPoint
    OBVIOUS
  <2>2. \A p \in TripPoint : p.milli \in Int
    BY DEF TripPoint
  <2>3. QED
    BY <2>1, <2>2 DEF TakeTrip
<1>3. PICK f : Follows(N, Int, default, step, f)
  <2>1. step \in [1..N -> [Int -> Int]]
    <3> HIDE DEF N
    <3>1. QED
      BY <1>2
  <2> HIDE DEF N, step
  <2>2. QED
    BY <1>1, <2>1, Recursion
<1>4. \A n \in 1..N : f[n] = TakeTrip(f[n - 1], trips[n], type)
  <2> HIDE DEF step, N
  <2>1. \A n \in 1..N : f[n - 1] \in Int /\ f[n] = step[n][f[n - 1]]
    BY <1>1, <1>3 DEF Follows
  <2>2. QED
    BY <2>1 DEF step
<1>5. Loop(f)
  BY <1>3, <1>4 DEF Follows
<1>6. Loop(run)
  <2> HIDE DEF Loop
  <2>1. QED
    BY <1>5, Zenon
<1>7. run[0] = default /\ \A n \in 1..N : run[n] = TakeTrip(run[n - 1], trips[n], type)
  <2>1. \A n \in 0..N : run[n] = IF n = 0 THEN default ELSE TakeTrip(run[n - 1], trips[n], type)
    BY <1>6
  <2> HIDE DEF run, N
  <2>2. QED
    BY <1>1, <2>1
<1>8. LastTrip(trips, type, default) = run[N]
  BY DEF LastTrip
<1> HIDE DEF run
<1>9. QED
  BY <1>7, <1>8

(* Temperatures that are not positive do not count. *)
LEMMA LastTripPositive ==
    ASSUME NEW trips \in Seq(TripPoint), NEW type, NEW default \in Int, default > 0
    PROVE  LastTrip(trips, type, default) \in Int /\ LastTrip(trips, type, default) > 0
<1> DEFINE N == Len(trips)
<1>1. PICK f : /\ LastTrip(trips, type, default) = f[N]
               /\ f[0] = default
               /\ \A n \in 1..N : f[n] = TakeTrip(f[n - 1], trips[n], type)
  BY TripsRun
<1> DEFINE T == {n \in 0..N : f[n] \in Int /\ f[n] > 0}
<1>2. \A n \in 1..N : trips[n].milli \in Int
  <2>1. \A n \in 1..N : trips[n] \in TripPoint
    OBVIOUS
  <2>2. \A p \in TripPoint : p.milli \in Int
    BY DEF TripPoint
  <2>3. QED
    BY <2>1, <2>2
<1>3. N \in Nat
  OBVIOUS
<1> HIDE DEF N
<1>4. 0 \in T
  BY <1>1, <1>3
<1>5. ASSUME NEW n \in 1..N, n - 1 \in T
      PROVE  n \in T
  BY <1>1, <1>2, <1>3, <1>5 DEF TakeTrip
<1>6. N \in T
  <2> HIDE DEF T
  <2>1. 0..N \subseteq T
    BY <1>3, <1>4, <1>5, UpToN
  <2>2. QED
    BY <1>3, <2>1
<1>7. QED
  BY <1>1, <1>6

(* ThermalLimits: the gauge leaves twenty degrees above the alarm.         *)
LEMMA LimitsCorrect ==
    ASSUME NEW trips \in Seq(TripPoint)
    PROVE  LimitsInOrder(ThermalLimits(trips))
<1> DEFINE alarm == LastTrip(trips, "critical", 100000)
           passive == LastTrip(trips, "passive", 85000)
           y == (alarm + 20000) \div 1000
           z == y \div 5
           full == (z + 1) * 5000
<1>1. alarm \in Int /\ alarm > 0 /\ passive \in Int /\ passive > 0
  BY LastTripPositive
<1>2. ThermalLimits(trips) =
          [warn |-> IF passive >= alarm THEN alarm - 15000 ELSE passive,
           alarm |-> alarm, scale |-> IF full < 125000 THEN 125000 ELSE full]
  BY DEF ThermalLimits
<1> HIDE DEF alarm, passive
<1>3. y \in Int /\ alarm + 20000 < 1000 * (y + 1)
  BY <1>1
<1> HIDE DEF y
<1>4. z \in Int /\ y < 5 * (z + 1)
  BY <1>3
<1> HIDE DEF z
<1>5. full \in Int /\ alarm + 20000 <= full
  BY <1>1, <1>3, <1>4
<1> HIDE DEF full
<1>6. QED
  BY <1>1, <1>2, <1>5 DEF LimitsInOrder

----------------------------------------------------------------------------
(* readMounts, for any table of mounts.                                    *)

MountMap == UNION {[D -> STRING] : D \in SUBSET STRING}
NoMounts == [d \in {} |-> ""]

(* Mounts have their types, and a line more leaves a map of them. *)
LEMMA MountTyped ==
    /\ \A l \in Mount : l.dev \in STRING /\ l.whole \in BOOLEAN /\ l.point \in STRING
    /\ \A table \in Seq(Mount) : \A i \in 1..Len(table) : table[i] \in Mount
    /\ NoMounts \in MountMap
    /\ \A m \in MountMap, l \in Mount : TakeMount(m, l) \in MountMap
<1>1. \A l \in Mount : l.dev \in STRING /\ l.whole \in BOOLEAN /\ l.point \in STRING
  BY DEF Mount
<1>2. \A table \in Seq(Mount) : \A i \in 1..Len(table) : table[i] \in Mount
  OBVIOUS
<1>3. NoMounts \in MountMap
  <2>1. NoMounts \in [{} -> STRING] /\ {} \in SUBSET STRING
    BY DEF NoMounts
  <2>2. QED
    BY <2>1 DEF MountMap
<1>4. ASSUME NEW m \in MountMap, NEW l \in Mount
      PROVE  TakeMount(m, l) \in MountMap
  <2>1. PICK D \in SUBSET STRING : m \in [D -> STRING]
    BY DEF MountMap
  <2>2. DOMAIN m = D
    BY <2>1
  <2>3. Mounted(m, l) \in [D \cup {l.dev} -> STRING] /\ D \cup {l.dev} \in SUBSET STRING
    BY <1>1, <2>1, <2>2 DEF Mounted
  <2>4. Mounted(m, l) \in MountMap
    BY <2>3 DEF MountMap
  <2>5. QED
    BY <2>4 DEF TakeMount
<1>5. QED
  BY <1>1, <1>2, <1>3, <1>4

(* readMounts, one line after the other. *)
LEMMA MountsRun ==
    ASSUME NEW table \in Seq(Mount)
    PROVE  \E f : /\ readMounts(table) = f[Len(table)]
                  /\ f[0] = NoMounts
                  /\ \A n \in 1..Len(table) : f[n] = TakeMount(f[n - 1], table[n])
<1> DEFINE N == Len(table)
           S == MountMap
           Loop(f) == f = [n \in 0..N |->
               IF n = 0 THEN [d \in {} |-> ""] ELSE TakeMount(f[n - 1], table[n])]
           step == [n \in 1..N |-> [m \in S |-> TakeMount(m, table[n])]]
           run == CHOOSE f : Loop(f)
<1>1. N \in Nat
  OBVIOUS
<1>2. \A n \in 1..N : \A m \in S : TakeMount(m, table[n]) \in S
  BY MountTyped
<1>3. PICK f : Follows(N, S, NoMounts, step, f)
  <2>1. step \in [1..N -> [S -> S]]
    <3> HIDE DEF N, S
    <3>1. QED
      BY <1>2
  <2>2. NoMounts \in S
    BY MountTyped
  <2> HIDE DEF N, S, step
  <2>3. QED
    BY <1>1, <2>1, <2>2, Recursion
<1>4. \A n \in 1..N : f[n] = TakeMount(f[n - 1], table[n])
  <2> HIDE DEF step, N, S
  <2>1. \A n \in 1..N : f[n - 1] \in S /\ f[n] = step[n][f[n - 1]]
    BY <1>1, <1>3 DEF Follows
  <2>2. QED
    BY <2>1 DEF step
<1>5. Loop(f)
  <2> HIDE DEF S
  <2>1. QED
    BY <1>3, <1>4 DEF Follows, NoMounts
<1>6. Loop(run)
  <2> HIDE DEF Loop
  <2>1. QED
    BY <1>5, Zenon
<1>7. /\ run[0] = NoMounts
      /\ \A n \in 1..N : run[n] = TakeMount(run[n - 1], table[n])
  <2>1. \A n \in 0..N : run[n] = IF n = 0 THEN NoMounts ELSE TakeMount(run[n - 1], table[n])
    BY <1>6 DEF NoMounts
  <2> HIDE DEF run, N
  <2>2. QED
    BY <1>1, <2>1
<1>8. readMounts(table) = run[N]
  BY DEF readMounts
<1> HIDE DEF run
<1>9. QED
  BY <1>7, <1>8

(* After n lines: the devices seen, each with a mount of it, of the whole  *)
(* device if such a mount was seen.                                        *)
BestMounts(table, n, m) ==
    /\ DOMAIN m = {table[i].dev : i \in 1..n}
    /\ \A d \in DOMAIN m : \E i \in 1..n :
           /\ table[i].dev = d /\ table[i].point = m[d]
           /\ ~table[i].whole => \A j \in 1..n : table[j].dev = d => ~table[j].whole

(* A line more keeps the best mount of each device. *)
LEMMA TakeMountBest ==
    ASSUME NEW table \in Seq(Mount), NEW n \in 1..Len(table), NEW m,
           BestMounts(table, n - 1, m)
    PROVE  BestMounts(table, n, TakeMount(m, table[n]))
<1> DEFINE l == table[n]
           new == TakeMount(m, l)
<1>1. /\ DOMAIN m = {table[i].dev : i \in 1..(n - 1)}
      /\ \A d \in DOMAIN m : \E i \in 1..(n - 1) :
             /\ table[i].dev = d /\ table[i].point = m[d]
             /\ ~table[i].whole => \A j \in 1..(n - 1) : table[j].dev = d => ~table[j].whole
  BY DEF BestMounts
<1>2. n \in Nat /\ 1..n = 1..(n - 1) \cup {n} /\ n \in 1..n
  OBVIOUS
<1>3. {table[i].dev : i \in 1..n} = {table[i].dev : i \in 1..(n - 1)} \cup {l.dev}
  BY <1>2
<1>4. CASE l.dev \in DOMAIN m /\ ~l.whole
  <2>1. new = m
    BY <1>4 DEF TakeMount
  <2>2. DOMAIN m = {table[i].dev : i \in 1..n}
    BY <1>1, <1>3, <1>4
  <2>3. ASSUME NEW d \in DOMAIN m
        PROVE  \E i \in 1..n :
                   /\ table[i].dev = d /\ table[i].point = m[d]
                   /\ ~table[i].whole => \A j \in 1..n : table[j].dev = d => ~table[j].whole
    <3>1. PICK i \in 1..(n - 1) :
              /\ table[i].dev = d /\ table[i].point = m[d]
              /\ ~table[i].whole => \A j \in 1..(n - 1) : table[j].dev = d => ~table[j].whole
      BY <1>1
    <3>2. i \in 1..n
      BY <1>2
    <3>3. QED
      BY <1>2, <1>4, <3>1, <3>2
  <2>4. BestMounts(table, n, m)
    BY <2>2, <2>3 DEF BestMounts
  <2>5. QED
    BY <2>1, <2>4
<1>5. CASE ~(l.dev \in DOMAIN m /\ ~l.whole)
  <2>1. new = Mounted(m, l)
    BY <1>5 DEF TakeMount
  <2>2. /\ DOMAIN new = DOMAIN m \cup {l.dev} /\ new[l.dev] = l.point
        /\ \A d \in DOMAIN m : d # l.dev => new[d] = m[d]
    BY <2>1 DEF Mounted
  <2> HIDE DEF new
  <2>3. ASSUME NEW d \in DOMAIN new
        PROVE  \E i \in 1..n :
                   /\ table[i].dev = d /\ table[i].point = new[d]
                   /\ ~table[i].whole => \A j \in 1..n : table[j].dev = d => ~table[j].whole
    <3>1. CASE d = l.dev
      <4>1. ~l.whole => \A j \in 1..n : table[j].dev = d => ~table[j].whole
        <5> SUFFICES ASSUME ~l.whole, NEW j \in 1..n, table[j].dev = d
                     PROVE  ~table[j].whole
          OBVIOUS
        <5>1. l.dev \notin DOMAIN m
          BY <1>5
        <5>2. j \notin 1..(n - 1)
          BY <1>1, <3>1, <5>1
        <5>3. QED
          BY <1>2, <5>2
      <4>2. QED
        BY <1>2, <2>2, <3>1, <4>1
    <3>2. CASE d # l.dev
      <4>1. d \in DOMAIN m /\ new[d] = m[d]
        BY <2>2, <3>2
      <4>2. PICK i \in 1..(n - 1) :
                /\ table[i].dev = d /\ table[i].point = m[d]
                /\ ~table[i].whole => \A j \in 1..(n - 1) : table[j].dev = d => ~table[j].whole
        BY <1>1, <4>1
      <4>3. i \in 1..n
        BY <1>2
      <4>4. QED
        BY <1>2, <3>2, <4>1, <4>2, <4>3
    <3>3. QED
      BY <3>1, <3>2
  <2>4. QED
    BY <1>1, <1>3, <2>2, <2>3 DEF BestMounts, new
<1>6. QED
  BY <1>4, <1>5

(* readMounts: the best mount of each device of the table. *)
LEMMA MountsCorrect ==
    ASSUME NEW table \in Seq(Mount)
    PROVE  BestMounts(table, Len(table), readMounts(table))
<1> DEFINE N == Len(table)
<1>1. PICK f : /\ readMounts(table) = f[N] /\ f[0] = NoMounts
               /\ \A n \in 1..N : f[n] = TakeMount(f[n - 1], table[n])
  BY MountsRun
<1> DEFINE T == {n \in 0..N : BestMounts(table, n, f[n])}
<1>2. N \in Nat
  OBVIOUS
<1>3. 0 \in T
  <2>1. DOMAIN f[0] = {} /\ {table[i].dev : i \in 1..0} = {}
    BY <1>1 DEF NoMounts
  <2>2. BestMounts(table, 0, f[0])
    BY <2>1 DEF BestMounts
  <2>3. QED
    BY <1>2, <2>2
<1>4. ASSUME NEW n \in 1..N, n - 1 \in T
      PROVE  n \in T
  <2>1. BestMounts(table, n - 1, f[n - 1])
    BY <1>4
  <2>2. BestMounts(table, n, TakeMount(f[n - 1], table[n]))
    BY <2>1, TakeMountBest
  <2>3. QED
    BY <1>1, <2>2
<1>5. 0..N \subseteq T
  <2> HIDE DEF T
  <2>1. QED
    BY <1>2, <1>3, <1>4, UpToN
<1>6. QED
  BY <1>1, <1>2, <1>5

(* Block and partitionsOf, for any disks. *)
LEMMA BlockCorrect ==
    ASSUME NEW table \in Seq(Mount)
    PROVE  MountsAreShown(table, Block(table))
<1> DEFINE mounts == readMounts(table)
           PointOf(dev) == IF dev \in DOMAIN mounts THEN mounts[dev] ELSE ""
           N == Len(table)
<1>1. BestMounts(table, N, mounts)
  BY MountsCorrect
<1>2. N \in Nat /\ ElementsOf(table) = {table[i] : i \in 1..N}
  BY DEF ElementsOf
<1>3. ASSUME NEW e \in Block(table) PROVE e.point = PointOf(e.dev)
  <2> DEFINE Shown(p) == [name |-> p.name, dev |-> p.dev, point |-> PointOf(p.dev)]
  <2>1. PICK d \in Disks : e \in IF d.parts # {} THEN {Shown(p) : p \in d.parts}
                                 ELSE IF d.dev \in DOMAIN mounts THEN {Shown(d)} ELSE {}
    BY DEF Block
  <2> HIDE DEF Shown
  <2>2. PICK p : e = Shown(p)
    BY <2>1
  <2> HIDE DEF PointOf
  <2>3. QED
    BY <2>2 DEF Shown
<1> HIDE DEF mounts
<1>4. ASSUME NEW e \in Block(table)
      PROVE  LET mine == {l \in ElementsOf(table) : l.dev = e.dev}
                 whole == {l \in mine : l.whole}
                 best == IF whole # {} THEN whole ELSE mine
             IN  e.point \in IF mine = {} THEN {""} ELSE {l.point : l \in best}
  <2> DEFINE mine == {l \in ElementsOf(table) : l.dev = e.dev}
             whole == {l \in mine : l.whole}
             best == IF whole # {} THEN whole ELSE mine
  <2>1. CASE e.dev \notin DOMAIN mounts
    <3>1. mine = {}
      BY <1>1, <1>2, <2>1 DEF BestMounts
    <3>2. QED
      BY <1>3, <2>1, <3>1
  <2>2. CASE e.dev \in DOMAIN mounts
    <3>1. PICK i \in 1..N :
              /\ table[i].dev = e.dev /\ table[i].point = mounts[e.dev]
              /\ ~table[i].whole => \A j \in 1..N : table[j].dev = e.dev => ~table[j].whole
      BY <1>1, <2>2 DEF BestMounts
    <3>2. table[i] \in mine
      BY <1>2, <3>1
    <3>3. table[i] \in best
      <4>1. CASE table[i].whole
        BY <3>2, <4>1
      <4>2. CASE ~table[i].whole
        <5>1. whole = {}
          BY <1>2, <3>1, <4>2
        <5>2. QED
          BY <3>2, <5>1
      <4>3. QED
        BY <4>1, <4>2
    <3>4. e.point = table[i].point
      BY <1>3, <2>2, <3>1
    <3> HIDE DEF mine, best
    <3>5. mine # {} /\ e.point \in {l.point : l \in best}
      BY <3>2, <3>3, <3>4
    <3>6. QED
      BY <3>5 DEF mine, best
  <2>3. QED
    BY <2>1, <2>2
<1>5. ASSUME NEW d \in Disks, ~d.pseudo, NEW p \in IF d.parts # {} THEN d.parts ELSE {d},
             NEW l \in ElementsOf(table), l.dev = p.dev
      PROVE  \E e \in Block(table) : e.name = p.name /\ e.dev = p.dev
  <2> DEFINE Shown(q) == [name |-> q.name, dev |-> q.dev, point |-> PointOf(q.dev)]
             Listed(c) == IF c.parts # {} THEN {Shown(q) : q \in c.parts}
                          ELSE IF c.dev \in DOMAIN mounts THEN {Shown(c)} ELSE {}
  <2>1. p.dev \in DOMAIN mounts
    BY <1>1, <1>2, <1>5 DEF BestMounts
  <2>2. Block(table) = UNION {Listed(c) : c \in {c \in Disks : ~c.pseudo}}
    BY DEF Block, mounts
  <2> HIDE DEF PointOf
  <2>3. Shown(p) \in Listed(d)
    <3>1. CASE d.parts # {}
      BY <1>5, <3>1
    <3>2. CASE d.parts = {}
      BY <1>5, <2>1, <3>2
    <3>3. QED
      BY <3>1, <3>2
  <2>4. Shown(p).name = p.name /\ Shown(p).dev = p.dev
    OBVIOUS
  <2> HIDE DEF Shown, Listed
  <2>5. QED
    BY <1>5, <2>2, <2>3, <2>4
<1>6. QED
  BY <1>4, <1>5 DEF MountsAreShown

----------------------------------------------------------------------------
(* OfflineSources, for any trees of directories.                           *)

Box == [real : STRING, images : BOOLEAN]

(* Directories have their types, and one more leaves a list of boxes. *)
LEMMA FolderTyped ==
    /\ \A d \in Folder \cup Entry : d.real \in STRING /\ d.img \in BOOLEAN
    /\ \A e \in Entry : e.subs \in Seq(Folder)
    /\ \A out \in Seq(Box) : \A d \in Folder \cup Entry : AddFolder(out, d) \in Seq(Box)
<1>1. \A d \in Folder \cup Entry : d.real \in STRING /\ d.img \in BOOLEAN
  BY DEF Folder, Entry
<1>2. \A e \in Entry : e.subs \in Seq(Folder)
  BY DEF Entry
<1>3. ASSUME NEW out \in Seq(Box), NEW d \in Folder \cup Entry
      PROVE  AddFolder(out, d) \in Seq(Box)
  <2>1. [real |-> d.real, images |-> d.img] \in Box
    BY <1>1 DEF Box
  <2>2. Append(out, [real |-> d.real, images |-> d.img]) \in Seq(Box)
    BY <2>1
  <2>3. QED
    BY <2>2 DEF AddFolder
<1>4. QED
  BY <1>1, <1>2, <1>3

(* AddSubs, one directory after the other. *)
LEMMA SubsRun ==
    ASSUME NEW out \in Seq(Box), NEW subs \in Seq(Folder)
    PROVE  \E f : /\ AddSubs(out, subs) = f[Len(subs)]
                  /\ f[0] = out
                  /\ \A n \in 1..Len(subs) : f[n] = AddFolder(f[n - 1], subs[n])
<1> DEFINE N == Len(subs)
           S == Seq(Box)
           Loop(f) == f = [n \in 0..N |-> IF n = 0 THEN out ELSE AddFolder(f[n - 1], subs[n])]
           step == [n \in 1..N |-> [s \in S |-> AddFolder(s, subs[n])]]
           run == CHOOSE f : Loop(f)
<1>1. N \in Nat
  OBVIOUS
<1>2. \A n \in 1..N : \A s \in S : AddFolder(s, subs[n]) \in S
  <2>1. \A n \in 1..N : subs[n] \in Folder
    OBVIOUS
  <2>2. QED
    BY <2>1, FolderTyped
<1>3. PICK f : Follows(N, S, out, step, f)
  <2>1. step \in [1..N -> [S -> S]]
    <3> HIDE DEF N, S
    <3>1. QED
      BY <1>2
  <2>2. out \in S
    OBVIOUS
  <2> HIDE DEF N, S, step
  <2>3. QED
    BY <1>1, <2>1, <2>2, Recursion
<1>4. \A n \in 1..N : f[n] = AddFolder(f[n - 1], subs[n])
  <2> HIDE DEF step, N, S
  <2>1. \A n \in 1..N : f[n - 1] \in S /\ f[n] = step[n][f[n - 1]]
    BY <1>1, <1>3 DEF Follows
  <2>2. QED
    BY <2>1 DEF step
<1>5. Loop(f)
  <2> HIDE DEF S
  <2>1. QED
    BY <1>3, <1>4 DEF Follows
<1>6. Loop(run)
  <2> HIDE DEF Loop
  <2>1. QED
    BY <1>5, Zenon
<1>7. /\ run[0] = out
      /\ \A n \in 1..N : run[n] = AddFolder(run[n - 1], subs[n])
  <2>1. \A n \in 0..N : run[n] = IF n = 0 THEN out ELSE AddFolder(run[n - 1], subs[n])
    BY <1>6
  <2> HIDE DEF run, N
  <2>2. QED
    BY <1>1, <2>1
<1>8. AddSubs(out, subs) = run[N]
  BY DEF AddSubs
<1> HIDE DEF run
<1>9. QED
  BY <1>7, <1>8

(* What is in the list are the directories of R, each once. *)
Once(out, R) ==
    /\ out \in Seq(Box)
    /\ \A i, j \in DOMAIN out : out[i].real = out[j].real => i = j
    /\ {o.real : o \in ElementsOf(out)} = R

(* Those of the directories ds that hold metadata. *)
Real(ds) == {d.real : d \in {d \in ds : d.dir /\ d.md}}

(* A directory more is listed if it holds metadata, once. *)
LEMMA AddFolderOnce ==
    ASSUME NEW out, NEW R, Once(out, R), NEW d \in Folder \cup Entry
    PROVE  Once(AddFolder(out, d), R \cup Real({d}))
<1> DEFINE box == [real |-> d.real, images |-> d.img]
           new == Append(out, box)
           taken == \E i \in DOMAIN out : out[i].real = d.real
<1>1. /\ out \in Seq(Box)
      /\ \A i, j \in DOMAIN out : out[i].real = out[j].real => i = j
      /\ {o.real : o \in ElementsOf(out)} = R
  BY DEF Once
<1>2. Real({d}) = IF d.dir /\ d.md THEN {d.real} ELSE {}
  BY DEF Real
<1>3. CASE ~(d.dir /\ d.md)
  <2>1. AddFolder(out, d) = out /\ R \cup Real({d}) = R
    BY <1>2, <1>3 DEF AddFolder
  <2>2. QED
    BY <2>1
<1>4. CASE d.dir /\ d.md /\ taken
  <2>1. d.real \in R
    BY <1>1, <1>4 DEF ElementsOf
  <2>2. AddFolder(out, d) = out
    BY <1>4 DEF AddFolder
  <2>3. R \cup Real({d}) = R
    BY <1>2, <2>1
  <2>4. QED
    BY <2>2, <2>3
<1>5. CASE d.dir /\ d.md /\ ~taken
  <2>1. AddFolder(out, d) = new
    BY <1>5 DEF AddFolder
  <2>2. box \in Box /\ box.real = d.real
    BY FolderTyped DEF Box
  <2> HIDE DEF box
  <2>3. /\ new \in Seq(Box) /\ DOMAIN new = 1..(Len(out) + 1) /\ DOMAIN out = 1..Len(out)
        /\ new[Len(out) + 1] = box /\ \A i \in 1..Len(out) : new[i] = out[i]
        /\ Len(out) \in Nat
    BY <1>1, <2>2
  <2> HIDE DEF new
  <2>4. DOMAIN new = DOMAIN out \cup {Len(out) + 1} /\ Len(out) + 1 \notin DOMAIN out
    BY <2>3
  <2>5. ASSUME NEW i \in DOMAIN new, NEW j \in DOMAIN new, new[i].real = new[j].real
        PROVE  i = j
    <3>1. CASE i \in DOMAIN out /\ j \in DOMAIN out
      BY <1>1, <2>3, <2>5, <3>1
    <3>2. CASE i = Len(out) + 1 /\ j \in DOMAIN out
      BY <1>5, <2>2, <2>3, <2>5, <3>2
    <3>3. CASE i \in DOMAIN out /\ j = Len(out) + 1
      BY <1>5, <2>2, <2>3, <2>5, <3>3
    <3>4. QED
      BY <2>4, <3>1, <3>2, <3>3
  <2>6. ElementsOf(new) = ElementsOf(out) \cup {box}
    BY <2>3, <2>4 DEF ElementsOf
  <2>7. {o.real : o \in ElementsOf(new)} = R \cup Real({d})
    BY <1>1, <1>2, <1>5, <2>2, <2>6
  <2>8. Once(new, R \cup Real({d}))
    BY <2>3, <2>5, <2>7 DEF Once
  <2>9. QED
    BY <2>1, <2>8
<1>6. QED
  BY <1>3, <1>4, <1>5

(* So are the directories in a directory. *)
LEMMA AddSubsOnce ==
    ASSUME NEW out, NEW R, Once(out, R), NEW subs \in Seq(Folder)
    PROVE  Once(AddSubs(out, subs), R \cup Real(ElementsOf(subs)))
<1> DEFINE N == Len(subs)
           Seen(n) == Real({subs[i] : i \in 1..n})
<1>0. out \in Seq(Box)
  BY DEF Once
<1>1. PICK f : /\ AddSubs(out, subs) = f[N] /\ f[0] = out
               /\ \A n \in 1..N : f[n] = AddFolder(f[n - 1], subs[n])
  BY <1>0, SubsRun
<1> DEFINE T == {n \in 0..N : Once(f[n], R \cup Seen(n))}
<1>2. N \in Nat /\ DOMAIN subs = 1..N
  OBVIOUS
<1>3. 0 \in T
  <2>1. R \cup Seen(0) = R
    BY DEF Real
  <2> HIDE DEF Seen
  <2>2. Once(f[0], R \cup Seen(0))
    BY <1>1, <2>1
  <2>3. QED
    BY <1>2, <2>2
<1>4. ASSUME NEW n \in 1..N, n - 1 \in T
      PROVE  n \in T
  <2>1. subs[n] \in Folder /\ Once(f[n - 1], R \cup Seen(n - 1))
    BY <1>4
  <2>2. 1..n = 1..(n - 1) \cup {n}
    BY <1>2
  <2>3. Seen(n) = Seen(n - 1) \cup Real({subs[n]})
    BY <2>2 DEF Real
  <2> HIDE DEF Seen
  <2>4. Once(AddFolder(f[n - 1], subs[n]), (R \cup Seen(n - 1)) \cup Real({subs[n]}))
    BY <2>1, AddFolderOnce
  <2>5. (R \cup Seen(n - 1)) \cup Real({subs[n]}) = R \cup Seen(n)
    BY <2>3
  <2>6. Once(f[n], R \cup Seen(n))
    BY <1>1, <2>4, <2>5
  <2>7. QED
    BY <2>6
<1>5. N \in T
  <2> HIDE DEF T
  <2>1. 0..N \subseteq T
    BY <1>2, <1>3, <1>4, UpToN
  <2>2. QED
    BY <1>2, <2>1
<1>6. Seen(N) = Real(ElementsOf(subs))
  BY <1>2 DEF ElementsOf
<1> HIDE DEF Seen
<1>7. Once(f[N], R \cup Seen(N))
  BY <1>5
<1>8. QED
  BY <1>1, <1>6, <1>7

(* A directory of a root and the directories in it. *)
Found(e) == IF e.dir THEN {e} \cup ElementsOf(e.subs) ELSE {}

(* So are a directory of a root and those in it. *)
LEMMA AddEntryOnce ==
    ASSUME NEW out, NEW R, Once(out, R), NEW e \in Entry
    PROVE  Once(AddEntry(out, e), R \cup Real(Found(e)))
<1>1. CASE ~e.dir
  <2>1. R \cup Real(Found(e)) = R
    BY <1>1 DEF Found, Real
  <2>2. QED
    BY <1>1, <2>1 DEF AddEntry
<1>2. CASE e.dir
  <2>1. Once(AddFolder(out, e), R \cup Real({e}))
    BY AddFolderOnce
  <2>2. e.subs \in Seq(Folder)
    BY FolderTyped
  <2>3. Once(AddSubs(AddFolder(out, e), e.subs),
             (R \cup Real({e})) \cup Real(ElementsOf(e.subs)))
    BY <2>1, <2>2, AddSubsOnce
  <2>4. (R \cup Real({e})) \cup Real(ElementsOf(e.subs)) = R \cup Real(Found(e))
    BY <1>2 DEF Found, Real
  <2>5. QED
    BY <1>2, <2>3, <2>4 DEF AddEntry
<1>3. QED
  BY <1>1, <1>2

(* Lists the readers make, whatever directories they hold. *)
Lists == {s \in Seq(Box) : \E R : Once(s, R)}

(* AddRoot, one directory of the root after the other. *)
LEMMA RootRun ==
    ASSUME NEW out \in Lists, NEW root \in Seq(Entry)
    PROVE  \E f : /\ AddRoot(out, root) = f[Len(root)]
                  /\ f[0] = out
                  /\ \A n \in 1..Len(root) : f[n] = AddEntry(f[n - 1], root[n])
<1> DEFINE N == Len(root)
           S == Lists
           Loop(f) == f = [n \in 0..N |-> IF n = 0 THEN out ELSE AddEntry(f[n - 1], root[n])]
           step == [n \in 1..N |-> [s \in S |-> AddEntry(s, root[n])]]
           run == CHOOSE f : Loop(f)
<1>1. N \in Nat
  OBVIOUS
<1>2. \A n \in 1..N : \A s \in S : AddEntry(s, root[n]) \in S
  <2>1. \A n \in 1..N : root[n] \in Entry
    OBVIOUS
  <2>2. \A s \in S : \A e \in Entry : AddEntry(s, e) \in S
    BY AddEntryOnce DEF Lists, Once
  <2>3. QED
    BY <2>1, <2>2
<1>3. PICK f : Follows(N, S, out, step, f)
  <2>1. step \in [1..N -> [S -> S]]
    <3> HIDE DEF N, S
    <3>1. QED
      BY <1>2
  <2>2. out \in S
    OBVIOUS
  <2> HIDE DEF N, S, step
  <2>3. QED
    BY <1>1, <2>1, <2>2, Recursion
<1>4. \A n \in 1..N : f[n] = AddEntry(f[n - 1], root[n])
  <2> HIDE DEF step, N, S
  <2>1. \A n \in 1..N : f[n - 1] \in S /\ f[n] = step[n][f[n - 1]]
    BY <1>1, <1>3 DEF Follows
  <2>2. QED
    BY <2>1 DEF step
<1>5. Loop(f)
  <2> HIDE DEF S
  <2>1. QED
    BY <1>3, <1>4 DEF Follows
<1>6. Loop(run)
  <2> HIDE DEF Loop
  <2>1. QED
    BY <1>5, Zenon
<1>7. /\ run[0] = out
      /\ \A n \in 1..N : run[n] = AddEntry(run[n - 1], root[n])
  <2>1. \A n \in 0..N : run[n] = IF n = 0 THEN out ELSE AddEntry(run[n - 1], root[n])
    BY <1>6
  <2> HIDE DEF run, N
  <2>2. QED
    BY <1>1, <2>1
<1>8. AddRoot(out, root) = run[N]
  BY DEF AddRoot
<1> HIDE DEF run
<1>9. QED
  BY <1>7, <1>8

(* The directories of a root that hold metadata. *)
RealIn(root) == UNION {Real(Found(e)) : e \in ElementsOf(root)}

(* So are all directories of a root. *)
LEMMA AddRootOnce ==
    ASSUME NEW out, NEW R, Once(out, R), NEW root \in Seq(Entry)
    PROVE  Once(AddRoot(out, root), R \cup RealIn(root))
<1> DEFINE N == Len(root)
           Seen(n) == UNION {Real(Found(root[i])) : i \in 1..n}
<1>0. out \in Lists
  BY DEF Once, Lists
<1>1. PICK f : /\ AddRoot(out, root) = f[N] /\ f[0] = out
               /\ \A n \in 1..N : f[n] = AddEntry(f[n - 1], root[n])
  BY <1>0, RootRun
<1> DEFINE T == {n \in 0..N : Once(f[n], R \cup Seen(n))}
<1>2. N \in Nat /\ DOMAIN root = 1..N
  OBVIOUS
<1>3. 0 \in T
  <2>1. R \cup Seen(0) = R
    OBVIOUS
  <2> HIDE DEF Seen
  <2>2. Once(f[0], R \cup Seen(0))
    BY <1>1, <2>1
  <2>3. QED
    BY <1>2, <2>2
<1>4. ASSUME NEW n \in 1..N, n - 1 \in T
      PROVE  n \in T
  <2>1. root[n] \in Entry /\ Once(f[n - 1], R \cup Seen(n - 1))
    BY <1>4
  <2>2. 1..n = 1..(n - 1) \cup {n}
    BY <1>2
  <2>3. Seen(n) = Seen(n - 1) \cup Real(Found(root[n]))
    BY <2>2
  <2> HIDE DEF Seen
  <2>4. Once(AddEntry(f[n - 1], root[n]), (R \cup Seen(n - 1)) \cup Real(Found(root[n])))
    BY <2>1, AddEntryOnce
  <2>5. (R \cup Seen(n - 1)) \cup Real(Found(root[n])) = R \cup Seen(n)
    BY <2>3
  <2>6. Once(f[n], R \cup Seen(n))
    BY <1>1, <2>4, <2>5
  <2>7. QED
    BY <2>6
<1>5. N \in T
  <2> HIDE DEF T
  <2>1. 0..N \subseteq T
    BY <1>2, <1>3, <1>4, UpToN
  <2>2. QED
    BY <1>2, <2>1
<1>6. Seen(N) = RealIn(root)
  BY <1>2 DEF RealIn, ElementsOf
<1> HIDE DEF Seen
<1>7. Once(f[N], R \cup Seen(N))
  BY <1>5
<1>8. QED
  BY <1>1, <1>6, <1>7

(* The list begins empty. *)
LEMMA NoneOnce == Once(<<>>, {})
<1>1. DOMAIN <<>> = {} /\ <<>> \in Seq(Box)
  OBVIOUS
<1>2. ElementsOf(<<>>) = {}
  BY <1>1 DEF ElementsOf
<1>3. QED
  BY <1>1, <1>2 DEF Once

(* OfflineSources, one root after the other. *)
LEMMA RootsRun ==
    ASSUME NEW roots \in Seq(Seq(Entry))
    PROVE  \E f : /\ OfflineSources(roots) = f[Len(roots)]
                  /\ f[0] = <<>>
                  /\ \A n \in 1..Len(roots) : f[n] = AddRoot(f[n - 1], roots[n])
<1> DEFINE N == Len(roots)
           S == Lists
           Loop(f) == f = [n \in 0..N |-> IF n = 0 THEN <<>> ELSE AddRoot(f[n - 1], roots[n])]
           step == [n \in 1..N |-> [s \in S |-> AddRoot(s, roots[n])]]
           run == CHOOSE f : Loop(f)
<1>1. N \in Nat
  OBVIOUS
<1>2. \A n \in 1..N : \A s \in S : AddRoot(s, roots[n]) \in S
  <2>1. \A n \in 1..N : roots[n] \in Seq(Entry)
    OBVIOUS
  <2>2. \A s \in S : \A root \in Seq(Entry) : AddRoot(s, root) \in S
    BY AddRootOnce DEF Lists, Once
  <2>3. QED
    BY <2>1, <2>2
<1>3. PICK f : Follows(N, S, <<>>, step, f)
  <2>1. step \in [1..N -> [S -> S]]
    <3> HIDE DEF N, S
    <3>1. QED
      BY <1>2
  <2>2. <<>> \in S
    BY NoneOnce DEF Lists, Once
  <2> HIDE DEF N, S, step
  <2>3. QED
    BY <1>1, <2>1, <2>2, Recursion
<1>4. \A n \in 1..N : f[n] = AddRoot(f[n - 1], roots[n])
  <2> HIDE DEF step, N, S
  <2>1. \A n \in 1..N : f[n - 1] \in S /\ f[n] = step[n][f[n - 1]]
    BY <1>1, <1>3 DEF Follows
  <2>2. QED
    BY <2>1 DEF step
<1>5. Loop(f)
  <2> HIDE DEF S
  <2>1. QED
    BY <1>3, <1>4 DEF Follows
<1>6. Loop(run)
  <2> HIDE DEF Loop
  <2>1. QED
    BY <1>5, Zenon
<1>7. /\ run[0] = <<>>
      /\ \A n \in 1..N : run[n] = AddRoot(run[n - 1], roots[n])
  <2>1. \A n \in 0..N : run[n] = IF n = 0 THEN <<>> ELSE AddRoot(run[n - 1], roots[n])
    BY <1>6
  <2> HIDE DEF run, N
  <2>2. QED
    BY <1>1, <2>1
<1>8. OfflineSources(roots) = run[N]
  BY DEF OfflineSources
<1> HIDE DEF run
<1>9. QED
  BY <1>7, <1>8

(* OfflineSources: the directories with metadata, each once.               *)
LEMMA MediaCorrect ==
    ASSUME NEW roots \in Seq(Seq(Entry))
    PROVE  LockboxesOnce(roots, OfflineSources(roots))
<1> DEFINE N == Len(roots)
           Seen(n) == UNION {RealIn(roots[i]) : i \in 1..n}
           out == OfflineSources(roots)
<1>1. PICK f : /\ out = f[N] /\ f[0] = <<>>
               /\ \A n \in 1..N : f[n] = AddRoot(f[n - 1], roots[n])
  BY RootsRun
<1> DEFINE T == {n \in 0..N : Once(f[n], Seen(n))}
<1>2. N \in Nat /\ DOMAIN roots = 1..N
  OBVIOUS
<1>3. 0 \in T
  <2>1. Seen(0) = {}
    OBVIOUS
  <2> HIDE DEF Seen
  <2>2. Once(f[0], Seen(0))
    BY <1>1, <2>1, NoneOnce
  <2>3. QED
    BY <1>2, <2>2
<1>4. ASSUME NEW n \in 1..N, n - 1 \in T
      PROVE  n \in T
  <2>1. roots[n] \in Seq(Entry) /\ Once(f[n - 1], Seen(n - 1))
    BY <1>4
  <2>2. 1..n = 1..(n - 1) \cup {n}
    BY <1>2
  <2>3. Seen(n) = Seen(n - 1) \cup RealIn(roots[n])
    BY <2>2
  <2> HIDE DEF Seen
  <2>4. Once(AddRoot(f[n - 1], roots[n]), Seen(n - 1) \cup RealIn(roots[n]))
    BY <2>1, AddRootOnce
  <2>5. Once(f[n], Seen(n))
    BY <1>1, <2>3, <2>4
  <2>6. QED
    BY <2>5
<1>5. N \in T
  <2> HIDE DEF T
  <2>1. 0..N \subseteq T
    BY <1>2, <1>3, <1>4, UpToN
  <2>2. QED
    BY <1>2, <2>1
<1>6. Once(out, Seen(N))
  <2> HIDE DEF Seen, out
  <2>1. QED
    BY <1>1, <1>5
<1> DEFINE tops == {e \in UNION {ElementsOf(roots[i]) : i \in DOMAIN roots} : e.dir}
           all == tops \cup {s \in UNION {ElementsOf(e.subs) : e \in tops} : s.dir}
<1>7. Seen(N) = {d.real : d \in {d \in all : d.md}}
  <2>1. ASSUME NEW x \in Seen(N)
        PROVE  x \in {d.real : d \in {d \in all : d.md}}
    <3>1. PICK i \in 1..N : x \in RealIn(roots[i])
      OBVIOUS
    <3>2. PICK e \in ElementsOf(roots[i]) : x \in Real(Found(e))
      BY <3>1 DEF RealIn
    <3>3. PICK d \in Found(e) : d.dir /\ d.md /\ x = d.real
      BY <3>2 DEF Real
    <3>4. e \in tops
      BY <1>2, <3>3 DEF Found
    <3>5. d \in all
      BY <3>3, <3>4 DEF Found
    <3> HIDE DEF all
    <3>6. QED
      BY <3>3, <3>5
  <2>2. ASSUME NEW d \in all, d.md
        PROVE  d.real \in Seen(N)
    <3>1. PICK e \in tops : d \in Found(e)
      BY DEF Found
    <3>2. d.dir
      OBVIOUS
    <3>3. PICK i \in 1..N : e \in ElementsOf(roots[i])
      BY <1>2
    <3>4. d.real \in Real(Found(e))
      BY <2>2, <3>1, <3>2 DEF Real
    <3>5. d.real \in RealIn(roots[i])
      BY <3>3, <3>4 DEF RealIn
    <3>6. QED
      BY <3>5
  <2> HIDE DEF all, Seen
  <2>3. QED
    BY <2>1, <2>2
<1>8. QED
  <2> HIDE DEF Seen, out
  <2>1. /\ \A i, j \in DOMAIN out : out[i].real = out[j].real => i = j
        /\ {o.real : o \in ElementsOf(out)} = {d.real : d \in {d \in all : d.md}}
    BY <1>6, <1>7 DEF Once
  <2>2. LockboxesOnce(roots, out)
    BY <2>1 DEF LockboxesOnce
  <2>3. QED
    BY <2>2 DEF out

----------------------------------------------------------------------------
(* parseAttrs, for any attributes and however the buffer is cut off.       *)

Octet == Below(256)

(* Below, without a range of numbers for the provers to write out. *)
LEMMA BelowIs == \A n \in Nat : \A x : x \in Below(n) <=> x \in Nat /\ x < n
  BY DEF Below

(* An octet is a number below 256. *)
LEMMA OctetIs == \A x : x \in Octet <=> x \in Nat /\ x < 256
  BY BelowIs DEF Octet

(* Two sequences, one after the other. *)
LEMMA Joined ==
    ASSUME NEW S, NEW s \in Seq(S), NEW t \in Seq(S)
    PROVE  /\ s \o t \in Seq(S) /\ Len(s \o t) = Len(s) + Len(t)
           /\ Len(s) \in Nat /\ Len(t) \in Nat
           /\ \A i \in 1..Len(s) : (s \o t)[i] = s[i]
           /\ \A i \in 1..Len(t) : (s \o t)[Len(s) + i] = t[i]
<1>1. s \o t \in Seq(S) /\ Len(s \o t) = Len(s) + Len(t) /\ Len(s) \in Nat /\ Len(t) \in Nat
  OBVIOUS
<1>2. \A i \in 1..Len(s) : (s \o t)[i] = s[i]
  OBVIOUS
<1>3. ASSUME NEW i \in 1..Len(t) PROVE (s \o t)[Len(s) + i] = t[i]
  <2>1. (s \o t)[Len(s) + i] = t[(Len(s) + i) - Len(s)]
    OBVIOUS
  <2>2. (Len(s) + i) - Len(s) = i
    BY <1>1
  <2>3. QED
    BY <2>1, <2>2
<1>4. QED
  BY <1>1, <1>2, <1>3

(* k elements of a sequence behind the first m. *)
LEMMA Slice ==
    ASSUME NEW S, NEW s \in Seq(S), NEW m \in Nat, NEW k \in Nat, m + k <= Len(s)
    PROVE  /\ SubSeq(s, m + 1, m + k) \in Seq(S) /\ Len(SubSeq(s, m + 1, m + k)) = k
           /\ \A i \in 1..k : SubSeq(s, m + 1, m + k)[i] = s[m + i]
<1> DEFINE t == SubSeq(s, m + 1, m + k)
<1>1. \A i \in (m + 1)..(m + k) : s[i] \in S
  OBVIOUS
<1>2. /\ t \in Seq(S)
      /\ Len(t) = IF m + 1 <= m + k THEN (m + k) - (m + 1) + 1 ELSE 0
      /\ \A i \in 1..((m + k) - (m + 1) + 1) : t[i] = s[(m + 1) + i - 1]
  BY <1>1, m + 1 \in Int, m + k \in Int, SubSeqProperties
<1>3. (m + k) - (m + 1) + 1 = k /\ \A i \in Nat : (m + 1) + i - 1 = m + i
  OBVIOUS
<1> HIDE DEF t
<1>4. Len(t) = k
  BY <1>2, <1>3
<1>5. \A i \in 1..k : t[i] = s[m + i]
  BY <1>2, <1>3
<1>6. QED
  BY <1>2, <1>4, <1>5 DEF t

(* Padding takes nothing away. *)
LEMMA AlignBounds ==
    ASSUME NEW n \in Nat
    PROVE  Align(n) \in Nat /\ Align(n) >= n
  BY DEF Align

(* Fields of attributes have their types. *)
LEMMA AttributeTyped ==
    ASSUME NEW a \in Attribute
    PROVE  /\ a.type \in Nat /\ a.type < 16384 /\ a.flag \in {0, 64, 128, 192}
           /\ a.data \in Seq(Octet) /\ Len(a.data) \in Nat
<1>1. /\ a.type \in Below(16384) /\ a.flag \in {0, 64, 128, 192} /\ a.data \in Seq(Octet)
  BY DEF Attribute, Octet
<1>2. QED
  BY <1>1, BelowIs

(* The layout of an attribute: its length, its type in the low bits of the *)
(* next two bytes, its data, and zeros up to a multiple of four.           *)
LEMMA EncodedLayout ==
    ASSUME NEW a \in Attribute, Fits(a)
    PROVE  /\ Encoded(a) \in Seq(Octet)
           /\ Len(Encoded(a)) = Align(4 + Len(a.data))
           /\ Word(Encoded(a)[1], Encoded(a)[2]) = 4 + Len(a.data)
           /\ Masked(Word(Encoded(a)[3], Encoded(a)[4])) = a.type
           /\ \A k \in 1..Len(a.data) : Encoded(a)[4 + k] = a.data[k]
<1> DEFINE alen == 4 + Len(a.data)
           atype == a.type + 256 * a.flag
           head == <<alen % 256, alen \div 256, atype % 256, atype \div 256>>
           zeros == [i \in 1..(Align(alen) - alen) |-> 0]
<1>1. /\ a.type \in Nat /\ a.type < 16384 /\ a.flag \in {0, 64, 128, 192}
      /\ a.data \in Seq(Octet) /\ Len(a.data) \in Nat
  BY AttributeTyped
<1>2. alen \in Nat /\ alen >= 4 /\ alen < 65536 /\ Align(alen) - alen \in Nat /\ Align(alen) \in Nat
  <2>1. alen \in Nat /\ alen >= 4
    BY <1>1
  <2>2. alen \in Below(65536)
    BY DEF Fits
  <2> HIDE DEF alen
  <2>3. Align(alen) \in Nat /\ Align(alen) >= alen
    BY <2>1, AlignBounds
  <2>4. Align(alen) - alen \in Nat
    BY <2>1, <2>3
  <2>5. alen < 65536
    BY <2>2, BelowIs
  <2>6. QED
    BY <2>1, <2>3, <2>4, <2>5
<1>3. atype \in Nat /\ atype < 65536 /\ atype % 16384 = a.type
  <2>1. CASE a.flag = 0
    BY <1>1, <2>1
  <2>2. CASE a.flag = 64
    BY <1>1, <2>2
  <2>3. CASE a.flag = 128
    BY <1>1, <2>3
  <2>4. CASE a.flag = 192
    BY <1>1, <2>4
  <2>5. QED
    BY <1>1, <2>1, <2>2, <2>3, <2>4
<1> HIDE DEF alen, atype
<1>4. /\ alen % 256 \in Octet /\ alen \div 256 \in Octet
      /\ (alen % 256) + 256 * (alen \div 256) = alen
  BY <1>2, OctetIs
<1>5. /\ atype % 256 \in Octet /\ atype \div 256 \in Octet
      /\ (atype % 256) + 256 * (atype \div 256) = atype
  BY <1>3, OctetIs
<1>6. /\ head \in Seq(Octet) /\ Len(head) = 4
      /\ head[1] = alen % 256 /\ head[2] = alen \div 256
      /\ head[3] = atype % 256 /\ head[4] = atype \div 256
  BY <1>4, <1>5
<1> HIDE DEF head
<1>7. zeros \in Seq(Octet) /\ Len(zeros) = Align(alen) - alen
  BY <1>2, OctetIs
<1> HIDE DEF zeros
<1> DEFINE front == head \o a.data
<1>8. /\ front \in Seq(Octet) /\ Len(front) = alen
      /\ \A k \in 1..4 : front[k] = head[k]
      /\ \A k \in 1..Len(a.data) : front[4 + k] = a.data[k]
  <2>1. /\ front \in Seq(Octet) /\ Len(front) = Len(head) + Len(a.data)
        /\ \A k \in 1..Len(head) : front[k] = head[k]
        /\ \A k \in 1..Len(a.data) : front[Len(head) + k] = a.data[k]
    <3>1. head \in Seq(Octet) /\ a.data \in Seq(Octet)
      BY <1>1, <1>6
    <3>2. QED
      BY <3>1, Joined
  <2>2. QED
    BY <1>6, <2>1 DEF alen
<1>9. Encoded(a) = front \o zeros
  BY DEF Encoded, head, zeros, alen, atype
<1> HIDE DEF front
<1>10. /\ Encoded(a) \in Seq(Octet) /\ Len(Encoded(a)) = alen + (Align(alen) - alen)
       /\ \A k \in 1..alen : Encoded(a)[k] = front[k]
  <2>1. /\ front \o zeros \in Seq(Octet) /\ Len(front \o zeros) = Len(front) + Len(zeros)
        /\ \A k \in 1..Len(front) : (front \o zeros)[k] = front[k]
    <3>1. front \in Seq(Octet) /\ zeros \in Seq(Octet)
      BY <1>7, <1>8
    <3>2. QED
      BY <3>1, Joined
  <2>2. QED
    BY <1>7, <1>8, <1>9, <2>1
<1>11. \A k \in 1..4 : Encoded(a)[k] = head[k]
  BY <1>2, <1>8, <1>10
<1>12. Word(Encoded(a)[1], Encoded(a)[2]) = alen
  BY <1>4, <1>6, <1>11 DEF Word
<1>13. Masked(Word(Encoded(a)[3], Encoded(a)[4])) = a.type
  <2>1. Word(Encoded(a)[3], Encoded(a)[4]) = atype
    BY <1>5, <1>6, <1>11 DEF Word
  <2>2. QED
    BY <1>3, <2>1 DEF Masked
<1>14. ASSUME NEW k \in 1..Len(a.data) PROVE Encoded(a)[4 + k] = a.data[k]
  <2>1. 4 + k \in 1..alen
    BY <1>1 DEF alen
  <2>2. QED
    BY <1>8, <1>10, <2>1
<1>15. Len(Encoded(a)) = Align(alen)
  BY <1>2, <1>10
<1>16. QED
  BY <1>10, <1>12, <1>13, <1>14, <1>15 DEF alen

(* Attributes as the kernel may write them. *)
Sendable(attrs) == attrs \in Seq(Attribute) /\ \A i \in DOMAIN attrs : Fits(attrs[i])

(* One of them. *)
LEMMA FitsEach ==
    ASSUME NEW attrs, Sendable(attrs), NEW i \in 1..Len(attrs)
    PROVE  attrs[i] \in Attribute /\ Fits(attrs[i])
  BY DEF Sendable

(* The buffer, one attribute after the other. *)
LEMMA WrittenRuns ==
    ASSUME NEW attrs, Sendable(attrs)
    PROVE  /\ Written(attrs)[0] = <<>>
           /\ \A n \in 1..Len(attrs) :
                  Written(attrs)[n] = Written(attrs)[n - 1] \o Encoded(attrs[n])
<1> DEFINE N == Len(attrs)
           S == Seq(Octet)
           Loop(f) == f = [n \in 0..N |-> IF n = 0 THEN <<>> ELSE f[n - 1] \o Encoded(attrs[n])]
           step == [n \in 1..N |-> [s \in S |-> s \o Encoded(attrs[n])]]
           run == CHOOSE f : Loop(f)
<1>1. N \in Nat
  BY DEF Sendable
<1>2. \A n \in 1..N : \A s \in S : s \o Encoded(attrs[n]) \in S
  <2>1. \A n \in 1..N : Encoded(attrs[n]) \in S
    BY FitsEach, EncodedLayout
  <2> HIDE DEF N
  <2>2. QED
    BY <2>1
<1>3. PICK f : Follows(N, S, <<>>, step, f)
  <2>1. step \in [1..N -> [S -> S]]
    <3> HIDE DEF N, S
    <3>1. QED
      BY <1>2
  <2>2. <<>> \in S
    OBVIOUS
  <2> HIDE DEF N, S, step
  <2>3. QED
    BY <1>1, <2>1, <2>2, Recursion
<1>4. \A n \in 1..N : f[n] = f[n - 1] \o Encoded(attrs[n])
  <2> HIDE DEF step, N, S
  <2>1. \A n \in 1..N : f[n - 1] \in S /\ f[n] = step[n][f[n - 1]]
    BY <1>1, <1>3 DEF Follows
  <2>2. QED
    BY <2>1 DEF step
<1>5. Loop(f)
  <2> HIDE DEF S, N, step
  <2>1. f = [n \in 0..N |-> f[n]] /\ f[0] = <<>>
    BY <1>3 DEF Follows
  <2>2. ASSUME NEW n \in 0..N
        PROVE  f[n] = IF n = 0 THEN <<>> ELSE f[n - 1] \o Encoded(attrs[n])
    <3>1. n # 0 => n \in 1..N
      BY <1>1
    <3>2. QED
      BY <1>4, <2>1, <3>1
  <2>3. QED
    BY <2>1, <2>2
<1>6. Loop(run)
  <2> HIDE DEF Loop
  <2>1. QED
    BY <1>5, Zenon
<1>7. /\ run[0] = <<>>
      /\ \A n \in 1..N : run[n] = run[n - 1] \o Encoded(attrs[n])
  <2>1. \A n \in 0..N : run[n] = IF n = 0 THEN <<>> ELSE run[n - 1] \o Encoded(attrs[n])
    BY <1>6
  <2> HIDE DEF run, N
  <2>2. run[0] = <<>>
    BY <1>1, <2>1
  <2>3. ASSUME NEW n \in 1..N PROVE run[n] = run[n - 1] \o Encoded(attrs[n])
    <3>1. n \in 0..N /\ n # 0
      BY <1>1
    <3>2. QED
      BY <2>1, <3>1
  <2>4. QED
    BY <2>2, <2>3
<1>8. Written(attrs) = run
  BY DEF Written
<1> HIDE DEF run
<1>9. QED
  BY <1>7, <1>8

(* The buffer holds octets, at least four for each attribute. *)
LEMMA WrittenTyped ==
    ASSUME NEW attrs, Sendable(attrs)
    PROVE  \A n \in 0..Len(attrs) :
               Written(attrs)[n] \in Seq(Octet) /\ Len(Written(attrs)[n]) \in Nat
               /\ Len(Written(attrs)[n]) >= 4 * n
<1> DEFINE N == Len(attrs)
           w == Written(attrs)
           T == {n \in 0..N : w[n] \in Seq(Octet) /\ Len(w[n]) >= 4 * n}
<1>1. N \in Nat
  BY DEF Sendable
<1>2. w[0] = <<>> /\ \A n \in 1..N : w[n] = w[n - 1] \o Encoded(attrs[n])
  BY WrittenRuns
<1> HIDE DEF w
<1>3. 0 \in T
  <2>1. w[0] \in Seq(Octet) /\ Len(w[0]) = 0
    BY <1>2
  <2>2. QED
    BY <1>1, <2>1
<1>4. ASSUME NEW n \in 1..N, n - 1 \in T
      PROVE  n \in T
  <2>1. w[n - 1] \in Seq(Octet) /\ Len(w[n - 1]) \in Nat /\ Len(w[n - 1]) >= 4 * (n - 1)
    BY <1>4
  <2>2. attrs[n] \in Attribute /\ Fits(attrs[n])
    BY FitsEach
  <2>3. Encoded(attrs[n]) \in Seq(Octet) /\ Len(Encoded(attrs[n])) = Align(4 + Len(attrs[n].data))
    BY <2>2, EncodedLayout
  <2>4. Len(attrs[n].data) \in Nat /\ 4 + Len(attrs[n].data) \in Nat
    BY <2>2, AttributeTyped
  <2>5. Len(Encoded(attrs[n])) \in Nat /\ Len(Encoded(attrs[n])) >= 4
    <3> DEFINE alen == 4 + Len(attrs[n].data)
    <3>1. alen \in Nat /\ alen >= 4
      BY <2>4
    <3> HIDE DEF alen
    <3>2. Align(alen) \in Nat /\ Align(alen) >= alen
      BY <3>1, AlignBounds
    <3>3. QED
      BY <2>3, <3>1, <3>2 DEF alen
  <2>6. w[n] \in Seq(Octet) /\ Len(w[n]) = Len(w[n - 1]) + Len(Encoded(attrs[n]))
    <3>1. w[n] = w[n - 1] \o Encoded(attrs[n])
      BY <1>2
    <3>2. w[n - 1] \in Seq(Octet) /\ Encoded(attrs[n]) \in Seq(Octet)
      BY <2>1, <2>3
    <3>3. /\ w[n - 1] \o Encoded(attrs[n]) \in Seq(Octet)
          /\ Len(w[n - 1] \o Encoded(attrs[n])) = Len(w[n - 1]) + Len(Encoded(attrs[n]))
      BY <3>2, Joined
    <3>4. QED
      BY <3>1, <3>3
  <2>7. Len(w[n]) >= 4 * n
    BY <1>1, <2>1, <2>3, <2>5, <2>6
  <2> HIDE DEF N
  <2>8. n \in 0..N
    BY <1>1
  <2>9. QED
    BY <2>6, <2>7, <2>8
<1>5. 0..N \subseteq T
  <2> HIDE DEF T
  <2>1. QED
    BY <1>1, <1>3, <1>4, UpToN
<1>6. QED
  BY <1>5 DEF w

(* Attribute i begins where the one before it and its padding end.         *)
LEMMA WrittenGrows ==
    ASSUME NEW attrs, Sendable(attrs), NEW i \in 1..Len(attrs)
    PROVE  /\ Len(Written(attrs)[i - 1]) \in Nat /\ Len(Written(attrs)[i]) \in Nat
           /\ Len(Written(attrs)[i])
                  = Len(Written(attrs)[i - 1]) + Len(Encoded(attrs[i]))
           /\ \A k \in 1..Len(Written(attrs)[i - 1]) :
                  Written(attrs)[i][k] = Written(attrs)[i - 1][k]
           /\ \A k \in 1..Len(Encoded(attrs[i])) :
                  Written(attrs)[i][Len(Written(attrs)[i - 1]) + k] = Encoded(attrs[i])[k]
           /\ EndOf(attrs, i) \in Nat
           /\ EndOf(attrs, i) <= Len(Written(attrs)[i])
           /\ EndOf(attrs, i) >= Len(Written(attrs)[i - 1]) + 4
<1> DEFINE w == Written(attrs)
           e == Encoded(attrs[i])
           alen == 4 + Len(attrs[i].data)
<1>1. i - 1 \in 0..Len(attrs) /\ i \in 0..Len(attrs)
  BY DEF Sendable
<1>2. w[i - 1] \in Seq(Octet) /\ Len(w[i - 1]) \in Nat /\ Len(w[i]) \in Nat
  BY <1>1, WrittenTyped
<1>3. attrs[i] \in Attribute /\ Fits(attrs[i])
  BY FitsEach
<1>4. e \in Seq(Octet) /\ Len(e) = Align(alen)
  BY <1>3, EncodedLayout
<1>5. w[i] = w[i - 1] \o e
  BY WrittenRuns
<1>6. alen \in Nat /\ alen >= 4
  BY <1>3, AttributeTyped
<1>7. EndOf(attrs, i) = Len(w[i - 1]) + alen
  <2> HIDE DEF w
  <2>1. EndOf(attrs, i) = Len(w[i - 1]) + 4 + Len(attrs[i].data)
    BY DEF EndOf, w
  <2>2. Len(attrs[i].data) \in Nat
    BY <1>3, AttributeTyped
  <2>3. \A x, y \in Nat : x + 4 + y = x + (4 + y)
    OBVIOUS
  <2>4. QED
    BY <1>2, <2>1, <2>2, <2>3
<1> HIDE DEF w, e, alen
<1>8. Align(alen) \in Nat /\ Align(alen) >= alen
  BY <1>6, AlignBounds
<1>9. /\ Len(w[i - 1] \o e) = Len(w[i - 1]) + Len(e)
      /\ \A k \in 1..Len(w[i - 1]) : (w[i - 1] \o e)[k] = w[i - 1][k]
      /\ \A k \in 1..Len(e) : (w[i - 1] \o e)[Len(w[i - 1]) + k] = e[k]
  <2>1. w[i - 1] \in Seq(Octet) /\ e \in Seq(Octet)
    BY <1>2, <1>4
  <2>2. QED
    BY <2>1, Joined
<1>10. /\ Len(w[i]) = Len(w[i - 1]) + Len(e)
       /\ \A k \in 1..Len(w[i - 1]) : w[i][k] = w[i - 1][k]
       /\ \A k \in 1..Len(e) : w[i][Len(w[i - 1]) + k] = e[k]
  BY <1>5, <1>9
<1>11. /\ EndOf(attrs, i) \in Nat /\ EndOf(attrs, i) <= Len(w[i])
       /\ EndOf(attrs, i) >= Len(w[i - 1]) + 4
  BY <1>2, <1>4, <1>6, <1>7, <1>8, <1>10
<1>12. QED
  BY <1>2, <1>10, <1>11 DEF w, e

(* What was written stays at the front of the buffer. *)
LEMMA WrittenPrefixes ==
    ASSUME NEW attrs, Sendable(attrs), NEW m \in 0..Len(attrs)
    PROVE  \A n \in m..Len(attrs) :
               /\ Len(Written(attrs)[m]) <= Len(Written(attrs)[n])
               /\ \A k \in 1..Len(Written(attrs)[m]) : Written(attrs)[n][k] = Written(attrs)[m][k]
<1> DEFINE N == Len(attrs)
           w == Written(attrs)
           Extends(n) == /\ Len(w[m]) <= Len(w[n])
                         /\ \A k \in 1..Len(w[m]) : w[n][k] = w[m][k]
           T == {n \in 0..N : n >= m => Extends(n)}
<1>1. N \in Nat
  BY DEF Sendable
<1>2. \A n \in 0..N : Len(w[n]) \in Nat
  BY WrittenTyped
<1>3. \A n \in 1..N : /\ Len(w[n - 1]) <= Len(w[n])
                      /\ \A k \in 1..Len(w[n - 1]) : w[n][k] = w[n - 1][k]
  <2> SUFFICES ASSUME NEW n \in 1..N
               PROVE  /\ Len(w[n - 1]) <= Len(w[n])
                      /\ \A k \in 1..Len(w[n - 1]) : w[n][k] = w[n - 1][k]
    OBVIOUS
  <2>1. attrs[n] \in Attribute /\ Fits(attrs[n])
    BY FitsEach
  <2>2. Encoded(attrs[n]) \in Seq(Octet)
    BY <2>1, EncodedLayout
  <2>3. Len(Encoded(attrs[n])) \in Nat
    BY <2>2
  <2>4. /\ Len(w[n - 1]) \in Nat /\ Len(w[n]) = Len(w[n - 1]) + Len(Encoded(attrs[n]))
        /\ \A k \in 1..Len(w[n - 1]) : w[n][k] = w[n - 1][k]
    BY ZenonT(40), WrittenGrows
  <2> HIDE DEF w
  <2>5. \A x, y \in Nat : x <= x + y
    OBVIOUS
  <2>6. Len(w[n - 1]) <= Len(w[n])
    BY <2>3, <2>4, <2>5
  <2>7. QED
    BY <2>4, <2>6
<1> HIDE DEF N, w
<1>4. Extends(m)
  BY <1>2
<1>5. 0 \in T
  <2>1. 0 >= m => 0 = m
    BY <1>1
  <2>2. 0 \in 0..N
    BY <1>1
  <2>3. QED
    BY <1>4, <2>1, <2>2
<1>6. ASSUME NEW n \in 1..N, n - 1 \in T
      PROVE  n \in T
  <2>1. n \in 0..N /\ n - 1 \in 0..N
    BY <1>1
  <2>2. CASE n < m
    BY <2>1, <2>2
  <2>3. CASE n = m
    BY <1>4, <2>1, <2>3
  <2>4. CASE n > m
    <3>1. n - 1 >= m
      BY <1>1, <2>4 DEF N
    <3>2. Extends(n - 1)
      BY <1>6, <3>1
    <3>3. Len(w[m]) \in Nat /\ Len(w[n - 1]) \in Nat /\ Len(w[n]) \in Nat
      BY <1>2, <2>1 DEF N
    <3>4. Len(w[n - 1]) <= Len(w[n]) /\ \A k \in 1..Len(w[n - 1]) : w[n][k] = w[n - 1][k]
      BY <1>3
    <3>5. Len(w[m]) <= Len(w[n])
      BY <3>2, <3>3, <3>4
    <3>6. ASSUME NEW k \in 1..Len(w[m]) PROVE w[n][k] = w[m][k]
      <4>1. k \in 1..Len(w[n - 1])
        BY <3>2, <3>3
      <4>2. QED
        BY <3>2, <3>4, <4>1
    <3>7. Extends(n)
      BY <3>5, <3>6
    <3> HIDE DEF Extends
    <3>8. QED
      BY <2>1, <3>7
  <2>5. QED
    BY <1>1, <2>1, <2>2, <2>3, <2>4 DEF N
<1>7. 0..N \subseteq T
  <2> HIDE DEF T
  <2>1. QED
    BY <1>1, <1>5, <1>6, UpToN
<1>8. \A n \in m..N : n \in 0..N /\ n >= m
  BY <1>1 DEF N
<1> HIDE DEF Extends
<1>9. \A n \in m..N : Extends(n)
  BY <1>7, <1>8
<1>10. QED
  BY <1>9 DEF Extends, N, w

(* An attribute stands in the buffer at its place. *)
LEMMA BufferHolds ==
    ASSUME NEW attrs, Sendable(attrs), NEW i \in 1..Len(attrs)
    PROVE  /\ Buffer(attrs) \in Seq(Octet) /\ Len(Buffer(attrs)) \in Nat
           /\ Len(Written(attrs)[i - 1]) + Len(Encoded(attrs[i])) <= Len(Buffer(attrs))
           /\ \A k \in 1..Len(Encoded(attrs[i])) :
                  Buffer(attrs)[Len(Written(attrs)[i - 1]) + k] = Encoded(attrs[i])[k]
<1> DEFINE N == Len(attrs)
           w == Written(attrs)
           e == Encoded(attrs[i])
<1>1. N \in Nat /\ N \in i..N /\ i \in 0..N /\ N \in 0..N
  BY DEF Sendable
<1>2. w[N] \in Seq(Octet) /\ Len(w[N]) \in Nat
  BY <1>1, WrittenTyped
<1>3. Buffer(attrs) = w[N]
  BY DEF Buffer
<1>4. Len(w[i]) <= Len(w[N]) /\ \A k \in 1..Len(w[i]) : w[N][k] = w[i][k]
  BY <1>1, WrittenPrefixes
<1>5. /\ Len(w[i - 1]) \in Nat /\ Len(w[i]) \in Nat /\ Len(w[i]) = Len(w[i - 1]) + Len(e)
      /\ \A k \in 1..Len(e) : w[i][Len(w[i - 1]) + k] = e[k]
  BY WrittenGrows
<1>6. Len(e) \in Nat
  <2>1. e \in Seq(Octet)
    BY FitsEach, EncodedLayout
  <2>2. QED
    BY <2>1
<1> HIDE DEF w, e, N
<1>7. ASSUME NEW k \in 1..Len(e) PROVE w[N][Len(w[i - 1]) + k] = e[k]
  <2>1. Len(w[i - 1]) + k \in 1..Len(w[i])
    BY <1>5, <1>6
  <2>2. QED
    BY <1>4, <1>5, <2>1
<1>8. QED
  BY <1>2, <1>3, <1>4, <1>5, <1>7 DEF w, e

(* What follows an attribute that is not whole is not whole either. *)
LEMMA EndsGrow ==
    ASSUME NEW attrs, Sendable(attrs),
           NEW i \in 1..Len(attrs), NEW j \in 1..Len(attrs), i < j
    PROVE  EndOf(attrs, i) < EndOf(attrs, j)
<1> DEFINE w == Written(attrs)
<1>1. EndOf(attrs, i) \in Nat /\ EndOf(attrs, i) <= Len(w[i]) /\ Len(w[i]) \in Nat
  BY WrittenGrows
<1>2. /\ EndOf(attrs, j) \in Nat /\ EndOf(attrs, j) >= Len(w[j - 1]) + 4
      /\ Len(w[j - 1]) \in Nat
  BY WrittenGrows
<1>3. i \in 0..Len(attrs) /\ j - 1 \in i..Len(attrs)
  BY DEF Sendable
<1>4. Len(w[i]) <= Len(w[j - 1])
  BY <1>3, WrittenPrefixes
<1> HIDE DEF w
<1>5. QED
  BY <1>1, <1>2, <1>4

(* Of the first j attributes: the types there are, and the last of each.   *)
FoundUpTo(attrs, j, out) ==
    /\ DOMAIN out = {attrs[i].type : i \in 1..j}
    /\ \A i \in 1..j :
           (\A m \in 1..j : attrs[m].type = attrs[i].type => m <= i) =>
               out[attrs[i].type] = attrs[i].data

(* An attribute more, in the place of one of its type. *)
With(found, a) ==
    [t \in DOMAIN found \cup {a.type} |-> IF t = a.type THEN a.data ELSE found[t]]

(* The next attribute comes last of its type. *)
LEMMA FoundMore ==
    ASSUME NEW attrs, NEW j \in Nat, NEW out, FoundUpTo(attrs, j, out)
    PROVE  FoundUpTo(attrs, j + 1, With(out, attrs[j + 1]))
<1> DEFINE a == attrs[j + 1]
           new == With(out, a)
<1>1. 1..(j + 1) = 1..j \cup {j + 1}
  OBVIOUS
<1>2. /\ DOMAIN new = DOMAIN out \cup {a.type} /\ new[a.type] = a.data
      /\ \A t \in DOMAIN out : t # a.type => new[t] = out[t]
  BY DEF With
<1> HIDE DEF new
<1>3. DOMAIN new = {attrs[i].type : i \in 1..(j + 1)}
  <2>1. {attrs[i].type : i \in 1..(j + 1)} = {attrs[i].type : i \in 1..j} \cup {a.type}
    BY <1>1
  <2>2. QED
    BY <1>2, <2>1 DEF FoundUpTo
<1>4. ASSUME NEW i \in 1..(j + 1),
             \A m \in 1..(j + 1) : attrs[m].type = attrs[i].type => m <= i
      PROVE  new[attrs[i].type] = attrs[i].data
  <2>1. CASE i = j + 1
    BY <1>2, <2>1
  <2>2. CASE i \in 1..j
    <3>1. attrs[i].type # a.type
      <4>1. j + 1 \in 1..(j + 1) /\ ~(j + 1 <= i)
        BY <2>2
      <4>2. QED
        BY <1>4, <4>1
    <3>2. \A m \in 1..j : attrs[m].type = attrs[i].type => m <= i
      BY <1>1, <1>4
    <3>3. attrs[i].type \in DOMAIN out /\ out[attrs[i].type] = attrs[i].data
      BY <2>2, <3>2 DEF FoundUpTo
    <3>4. QED
      BY <1>2, <3>1, <3>3
  <2>3. QED
    BY <1>1, <2>1, <2>2
<1>5. QED
  BY <1>3, <1>4 DEF FoundUpTo, new

(* The first n bytes of what was written. *)
CutAt(attrs, n, b) ==
    /\ n \in Nat /\ n <= Len(Buffer(attrs)) /\ b \in Seq(Octet) /\ Len(b) = n
    /\ \A k \in 1..n : b[k] = Buffer(attrs)[k]

(* The front of the buffer is a cut of it. *)
LEMMA SubSeqIsCut ==
    ASSUME NEW attrs, Sendable(attrs), NEW n \in 0..Len(Buffer(attrs))
    PROVE  CutAt(attrs, n, SubSeq(Buffer(attrs), 1, n))
<1> DEFINE B == Buffer(attrs)
<1>1. Len(attrs) \in Nat /\ Len(attrs) \in 0..Len(attrs)
  BY DEF Sendable
<1>2. B \in Seq(Octet) /\ Len(B) \in Nat
  BY <1>1, WrittenTyped DEF Buffer
<1>3. n \in Nat /\ n <= Len(B)
  BY <1>2
<1> HIDE DEF B
<1>4. /\ SubSeq(B, 1, n) \in Seq(Octet) /\ Len(SubSeq(B, 1, n)) = n
      /\ \A k \in 1..n : SubSeq(B, 1, n)[k] = B[k]
  BY <1>2, <1>3
<1>5. QED
  BY <1>3, <1>4 DEF CutAt, B

(* A turn of the loop takes the next attribute, if it is whole. *)
LEMMA TakeNext ==
    ASSUME NEW attrs, Sendable(attrs), NEW n, NEW b, CutAt(attrs, n, b),
           NEW i \in 1..Len(attrs), NEW s, s.at = Len(Written(attrs)[i - 1])
    PROVE  /\ EndOf(attrs, i) > n => TakeAttr(b, s) = s
           /\ EndOf(attrs, i) <= n =>
                  /\ TakeAttr(b, s).at = Len(Written(attrs)[i])
                  /\ TakeAttr(b, s).found = With(s.found, attrs[i])
<1> DEFINE B == Buffer(attrs)
           p == Len(Written(attrs)[i - 1])
           e == Encoded(attrs[i])
           a == attrs[i]
           size == Len(a.data)
           alen == 4 + size
<1>1. a \in Attribute /\ Fits(a)
  BY FitsEach
<1>2. a.data \in Seq(Octet) /\ size \in Nat
  BY <1>1, AttributeTyped
<1>3. /\ e \in Seq(Octet) /\ Len(e) = Align(alen) /\ Word(e[1], e[2]) = alen
      /\ Masked(Word(e[3], e[4])) = a.type /\ \A k \in 1..size : e[4 + k] = a.data[k]
  BY <1>1, EncodedLayout
<1>4. /\ B \in Seq(Octet) /\ Len(B) \in Nat /\ p + Len(e) <= Len(B)
      /\ \A k \in 1..Len(e) : B[p + k] = e[k]
  BY BufferHolds
<1>5. p \in Nat /\ Len(Written(attrs)[i]) = p + Len(e)
  BY WrittenGrows
<1>6. EndOf(attrs, i) = p + alen
  <2>1. EndOf(attrs, i) = p + 4 + size
    BY DEF EndOf
  <2>2. \A x, y \in Nat : x + 4 + y = x + (4 + y)
    OBVIOUS
  <2> HIDE DEF p, size
  <2>3. QED
    BY <1>2, <1>5, <2>1, <2>2
<1> HIDE DEF p, e, B, size
<1>7. alen \in Nat /\ alen >= 4 /\ alen = 4 + size
  BY <1>2
<1> HIDE DEF alen
<1>8. Align(alen) \in Nat /\ Align(alen) >= alen
  BY <1>7, AlignBounds
<1>9. /\ n \in Nat /\ n <= Len(B) /\ b \in Seq(Octet) /\ Len(b) = n
      /\ \A k \in 1..n : b[k] = B[k]
  BY DEF CutAt, B
<1>10. \A k \in 1..alen : p + k <= n => b[p + k] = e[k]
  <2> SUFFICES ASSUME NEW k \in 1..alen, p + k <= n PROVE b[p + k] = e[k]
    OBVIOUS
  <2>1. p + k \in 1..n /\ k \in 1..Len(e)
    BY <1>3, <1>5, <1>7, <1>8, <1>9
  <2>2. QED
    BY <1>4, <1>9, <2>1
<1>11. CASE n - p < 4
  <2>1. EndOf(attrs, i) > n
    BY <1>5, <1>6, <1>7, <1>9, <1>11
  <2>2. Len(b) - s.at < 4
    BY <1>9, <1>11 DEF p
  <2>3. TakeAttr(b, s) = s
    BY <2>2 DEF TakeAttr
  <2>4. QED
    BY <2>1, <2>3, <1>5, <1>6, <1>7, <1>9
<1>12. CASE n - p >= 4
  <2>1. b[p + 1] = e[1] /\ b[p + 2] = e[2] /\ b[p + 3] = e[3] /\ b[p + 4] = e[4]
    <3>1. \A k \in 1..4 : k \in 1..alen /\ p + k <= n
      BY <1>5, <1>7, <1>9, <1>12
    <3>2. \A k \in 1..4 : b[p + k] = e[k]
      BY <1>10, <3>1
    <3>3. 1 \in 1..4 /\ 2 \in 1..4 /\ 3 \in 1..4 /\ 4 \in 1..4
      OBVIOUS
    <3> HIDE DEF p, e
    <3>4. QED
      BY <3>2, <3>3, Zenon
  <2>2. Word(b[p + 1], b[p + 2]) = alen /\ Masked(Word(b[p + 3], b[p + 4])) = a.type
    BY <1>3, <2>1
  <2> DEFINE data == SubSeq(b, p + 5, p + alen)
             new == [at |-> p + Align(alen),
                     found |-> [t \in DOMAIN s.found \cup {a.type} |->
                         IF t = a.type THEN data ELSE s.found[t]]]
  <2>3. TakeAttr(b, s) = IF alen > n - p THEN s ELSE new
    <3>1. s.at = p
      BY DEF p
    <3>2. TakeAttr(b, s) = IF n - p < 4 \/ alen < 4 \/ alen > n - p THEN s ELSE new
      <4>1. Len(b) - s.at = n - p
        BY <1>9, <3>1
      <4>2. QED
        BY <2>2, <3>1, <4>1, Zenon DEF TakeAttr
    <3>3. ~(n - p < 4) /\ ~(alen < 4)
      BY <1>5, <1>7, <1>9, <1>12
    <3> HIDE DEF new
    <3>4. QED
      BY <3>2, <3>3
  <2>4. CASE EndOf(attrs, i) > n
    <3>1. alen > n - p
      BY <1>5, <1>6, <1>7, <1>9, <2>4
    <3> HIDE DEF new
    <3>2. QED
      BY <1>5, <1>6, <1>7, <1>9, <2>3, <2>4, <3>1
  <2>5. CASE EndOf(attrs, i) <= n
    <3>1. ~(alen > n - p) /\ p + alen <= n
      BY <1>5, <1>6, <1>7, <1>9, <2>5
    <3>2. data = a.data
      <4>1. /\ p + 4 \in Nat /\ (p + 4) + size <= Len(b)
            /\ p + 5 = (p + 4) + 1 /\ p + alen = (p + 4) + size
        BY <1>2, <1>5, <1>7, <1>9, <3>1
      <4>2. data = SubSeq(b, (p + 4) + 1, (p + 4) + size)
        BY <4>1
      <4>3. /\ data \in Seq(Octet) /\ Len(data) = size
            /\ \A k \in 1..size : data[k] = b[(p + 4) + k]
        <5> DEFINE q == p + 4
        <5>1. q \in Nat /\ size \in Nat /\ q + size <= Len(b) /\ b \in Seq(Octet)
          BY <1>2, <1>9, <4>1
        <5>2. data = SubSeq(b, q + 1, q + size)
          BY <4>2
        <5> HIDE DEF q, data
        <5>3. /\ SubSeq(b, q + 1, q + size) \in Seq(Octet)
              /\ Len(SubSeq(b, q + 1, q + size)) = size
              /\ \A k \in 1..size : SubSeq(b, q + 1, q + size)[k] = b[q + k]
          BY SMTT(30), <5>1, Slice
        <5>4. QED
          BY <5>2, <5>3, Zenon DEF q
      <4> HIDE DEF data
      <4>4. ASSUME NEW k \in 1..size PROVE data[k] = a.data[k]
        <5>1. (p + 4) + k = p + (4 + k) /\ 4 + k \in 1..alen /\ p + (4 + k) <= n
          BY <1>2, <1>5, <1>7, <1>9, <3>1
        <5>2. b[p + (4 + k)] = e[4 + k]
          BY <1>10, <5>1
        <5>3. e[4 + k] = a.data[k]
          BY <1>3
        <5>4. QED
          BY <4>3, <5>1, <5>2, <5>3
      <4>5. Len(data) = Len(a.data)
        BY <4>3 DEF size
      <4>6. QED
        BY <1>2, <4>3, <4>4, <4>5, SeqEqual DEF size
    <3>3. TakeAttr(b, s) = new
      BY <2>3, <3>1
    <3>4. new.at = Len(Written(attrs)[i])
      BY <1>3, <1>5
    <3>5. new.found = With(s.found, a)
      <4> HIDE DEF data
      <4>1. QED
        BY <3>2 DEF With
    <3>6. ~(EndOf(attrs, i) > n)
      BY <1>5, <1>6, <1>7, <1>9, <2>5
    <3> HIDE DEF new
    <3>7. QED
      BY <3>3, <3>4, <3>5, <3>6
  <2>6. EndOf(attrs, i) > n \/ EndOf(attrs, i) <= n
    BY <1>5, <1>6, <1>7, <1>9
  <2>7. QED
    BY <2>4, <2>5, <2>6
<1>13. QED
  BY <1>5, <1>9, <1>11, <1>12

(* States of the loop of parseAttrs. *)
LoopState == [at : Nat, found : UNION {[D -> Seq(Octet)] : D \in SUBSET Int}]

(* A turn of the loop keeps its state one. *)
LEMMA TakeAttrTyped ==
    ASSUME NEW b \in Seq(Octet), NEW s \in LoopState
    PROVE  TakeAttr(b, s) \in LoopState
<1> DEFINE p == s.at
           alen == Word(b[p + 1], b[p + 2])
           atype == Masked(Word(b[p + 3], b[p + 4]))
           data == SubSeq(b, p + 5, p + alen)
           left == Len(b) - p
           next == [at |-> p + Align(alen),
                    found |-> [t \in DOMAIN s.found \cup {atype} |->
                        IF t = atype THEN data ELSE s.found[t]]]
<1>1. p \in Nat /\ s.found \in UNION {[D -> Seq(Octet)] : D \in SUBSET Int}
  BY DEF LoopState
<1>2. CASE left < 4 \/ alen < 4 \/ alen > left
  <2>1. TakeAttr(b, s) = s
    BY <1>2 DEF TakeAttr
  <2>2. QED
    BY <2>1
<1>3. CASE ~(left < 4 \/ alen < 4 \/ alen > left)
  <2>1. TakeAttr(b, s) = next
    BY <1>3 DEF TakeAttr
  <2>2. Len(b) \in Nat /\ p + 4 <= Len(b)
    BY <1>1, <1>3
  <2>3. b[p + 1] \in Octet /\ b[p + 2] \in Octet /\ b[p + 3] \in Octet /\ b[p + 4] \in Octet
    BY <1>1, <2>2
  <2>4. alen \in Nat /\ atype \in Int
    <3>1. \A x, y \in Nat : Word(x, y) \in Nat /\ Masked(Word(x, y)) \in Int
      BY DEF Word, Masked
    <3>2. \A x \in Octet : x \in Nat
      BY OctetIs
    <3>3. QED
      BY <2>3, <3>1, <3>2
  <2>5. \E k \in Nat : alen = 4 + k /\ (p + 4) + k <= Len(b)
    <3>1. alen >= 4 /\ alen <= Len(b) - p
      BY <1>1, <1>3, <2>2, <2>4
    <3> HIDE DEF alen, p
    <3>2. alen - 4 \in Nat /\ alen = 4 + (alen - 4) /\ (p + 4) + (alen - 4) <= Len(b)
      BY <1>1, <2>2, <2>4, <3>1
    <3>3. QED
      BY <3>2
  <2>6. data \in Seq(Octet)
    <3>1. PICK k \in Nat : alen = 4 + k /\ (p + 4) + k <= Len(b)
      BY <2>5
    <3> HIDE DEF p, alen
    <3> DEFINE q == p + 4
    <3>2. q \in Nat /\ q + k <= Len(b) /\ p + 5 = q + 1 /\ p + alen = q + k
      BY <1>1, <3>1
    <3> HIDE DEF q
    <3>3. SubSeq(b, q + 1, q + k) \in Seq(Octet)
      BY <3>2, Slice
    <3>4. QED
      BY <3>2, <3>3
  <2> HIDE DEF p, alen, atype, data
  <2>7. p + Align(alen) \in Nat
    <3>1. Align(alen) \in Nat
      BY <2>4, AlignBounds
    <3>2. QED
      BY <1>1, <3>1
  <2>8. next.found \in UNION {[D -> Seq(Octet)] : D \in SUBSET Int}
    <3>1. PICK D \in SUBSET Int : s.found \in [D -> Seq(Octet)]
      BY <1>1
    <3>2. D \cup {atype} \in SUBSET Int /\ DOMAIN s.found = D
      BY <2>4, <3>1
    <3>3. [t \in DOMAIN s.found \cup {atype} |-> IF t = atype THEN data ELSE s.found[t]]
              \in [D \cup {atype} -> Seq(Octet)]
      BY <2>6, <3>1, <3>2
    <3>4. QED
      BY <3>2, <3>3
  <2>9. next \in LoopState
    <3> DEFINE found == next.found
    <3>1. next = [at |-> p + Align(alen), found |-> found]
      OBVIOUS
    <3> HIDE DEF found, next
    <3>2. QED
      BY <2>7, <2>8, <3>1 DEF LoopState, found
  <2>10. QED
    BY <2>1, <2>9
<1>4. QED
  BY <1>2, <1>3

(* parseAttrs, one turn of the loop after the other. *)
LEMMA AttrsRun ==
    ASSUME NEW b \in Seq(Octet)
    PROVE  \E f : /\ parseAttrs(b) = f[Len(b)].found
                  /\ f[0] = NoAttrs
                  /\ \A n \in 1..Len(b) : f[n] = TakeAttr(b, f[n - 1])
<1> DEFINE N == Len(b)
           S == LoopState
           Loop(f) == f = [n \in 0..N |-> IF n = 0 THEN NoAttrs ELSE TakeAttr(b, f[n - 1])]
           step == [n \in 1..N |-> [s \in S |-> TakeAttr(b, s)]]
           run == CHOOSE f : Loop(f)
<1>1. N \in Nat
  OBVIOUS
<1>2. \A n \in 1..N : \A s \in S : TakeAttr(b, s) \in S
  BY TakeAttrTyped
<1>3. PICK f : Follows(N, S, NoAttrs, step, f)
  <2>1. step \in [1..N -> [S -> S]]
    <3> HIDE DEF N, S
    <3>1. QED
      BY <1>2
  <2>2. NoAttrs \in S
    <3>1. [t \in {} |-> <<>>] \in [{} -> Seq(Octet)] /\ {} \in SUBSET Int
      OBVIOUS
    <3>2. QED
      BY <3>1 DEF NoAttrs, LoopState
  <2> HIDE DEF N, S, step
  <2>3. QED
    BY <1>1, <2>1, <2>2, Recursion
<1>4. \A n \in 1..N : f[n] = TakeAttr(b, f[n - 1])
  <2> HIDE DEF step, N, S
  <2>1. \A n \in 1..N : f[n - 1] \in S /\ f[n] = step[n][f[n - 1]]
    BY <1>1, <1>3 DEF Follows
  <2>2. QED
    BY <2>1 DEF step
<1>5. Loop(f)
  <2> HIDE DEF S, N, step
  <2>1. f = [n \in 0..N |-> f[n]] /\ f[0] = NoAttrs
    BY <1>3 DEF Follows
  <2>2. ASSUME NEW n \in 0..N
        PROVE  f[n] = IF n = 0 THEN NoAttrs ELSE TakeAttr(b, f[n - 1])
    <3>1. n # 0 => n \in 1..N
      BY <1>1
    <3>2. QED
      BY <1>4, <2>1, <3>1
  <2>3. QED
    BY <2>1, <2>2
<1>6. Loop(run)
  <2> HIDE DEF Loop
  <2>1. QED
    BY <1>5, Zenon
<1>7. /\ run[0] = NoAttrs
      /\ \A n \in 1..N : run[n] = TakeAttr(b, run[n - 1])
  <2>1. \A n \in 0..N : run[n] = IF n = 0 THEN NoAttrs ELSE TakeAttr(b, run[n - 1])
    BY <1>6
  <2> HIDE DEF run, N
  <2>2. QED
    BY <1>1, <2>1
<1>8. parseAttrs(b) = run[N].found
  BY DEF parseAttrs
<1> HIDE DEF run
<1>9. QED
  BY <1>7, <1>8

(* After some turns the loop stands behind the first j attributes, all of  *)
(* them whole, and has found what they say; it has taken one in each turn  *)
(* or has met one that is not whole, or the end.                           *)
Reached(attrs, n, turns, s) ==
    \E j \in 0..Len(attrs) :
        /\ s.at = Len(Written(attrs)[j]) /\ FoundUpTo(attrs, j, s.found)
        /\ \A i \in 1..j : EndOf(attrs, i) <= n
        /\ j = turns \/ \A i \in (j + 1)..Len(attrs) : EndOf(attrs, i) > n

(* A turn more: an attribute more, or nothing any more. *)
LEMMA TurnReaches ==
    ASSUME NEW attrs, Sendable(attrs), NEW n, NEW b, CutAt(attrs, n, b),
           NEW turns \in Nat, NEW s, Reached(attrs, n, turns, s)
    PROVE  Reached(attrs, n, turns + 1, TakeAttr(b, s))
<1> DEFINE N == Len(attrs)
<1>1. N \in Nat /\ n \in Nat
  BY DEF Sendable, CutAt
<1>2. PICK j \in 0..N :
          /\ s.at = Len(Written(attrs)[j]) /\ FoundUpTo(attrs, j, s.found)
          /\ \A i \in 1..j : EndOf(attrs, i) <= n
          /\ j = turns \/ \A i \in (j + 1)..N : EndOf(attrs, i) > n
  BY DEF Reached
<1>3. CASE j = N
  <2>1. Len(Written(attrs)[N]) \in Nat /\ n <= Len(Written(attrs)[N]) /\ Len(b) = n
    BY <1>1, WrittenTyped DEF CutAt, Buffer
  <2>2. Len(b) - s.at < 4
    BY <1>1, <1>2, <1>3, <2>1
  <2>3. TakeAttr(b, s) = s
    BY <2>2 DEF TakeAttr
  <2>4. \A i \in (j + 1)..N : EndOf(attrs, i) > n
    BY <1>1, <1>3
  <2>5. QED
    BY <1>2, <2>3, <2>4 DEF Reached
<1>4. CASE j < N
  <2> DEFINE i == j + 1
             a == attrs[i]
  <2>1. i \in 1..N /\ i - 1 = j
    BY <1>1, <1>4
  <2>2. s.at = Len(Written(attrs)[i - 1])
    BY <1>2, <2>1
  <2>3. EndOf(attrs, i) \in Nat
    BY <2>1, WrittenGrows
  <2> DEFINE next == TakeAttr(b, s)
  <2>7. /\ EndOf(attrs, i) > n => next = s
        /\ EndOf(attrs, i) <= n =>
               next.at = Len(Written(attrs)[i]) /\ next.found = With(s.found, a)
    <3> HIDE DEF i
    <3>1. QED
      BY <2>1, <2>2, TakeNext
  <2>4. CASE EndOf(attrs, i) > n
    <3>1. TakeAttr(b, s) = s
      BY <2>4, <2>7
    <3>2. ASSUME NEW k \in (j + 1)..N PROVE EndOf(attrs, k) > n
      <4>1. CASE k = i
        BY <2>4, <4>1
      <4>2. CASE k > i
        <5>1. k \in 1..N
          BY <1>1
        <5>2. EndOf(attrs, i) < EndOf(attrs, k)
          BY <2>1, <4>2, <5>1, EndsGrow
        <5>3. EndOf(attrs, k) \in Nat
          BY <5>1, WrittenGrows
        <5>4. QED
          BY <1>1, <2>3, <2>4, <5>2, <5>3
      <4>3. QED
        BY <1>1, <4>1, <4>2
    <3>3. QED
      BY <1>2, <3>1, <3>2 DEF Reached
  <2>5. CASE EndOf(attrs, i) <= n
    <3>1. next.at = Len(Written(attrs)[i]) /\ next.found = With(s.found, a)
      BY <2>5, <2>7
    <3>2. FoundUpTo(attrs, j + 1, With(s.found, a))
      BY <1>1, <1>2, FoundMore
    <3>3. j = turns
      <4>1. i \in (j + 1)..N /\ ~(EndOf(attrs, i) > n)
        BY <1>1, <2>1, <2>3, <2>5
      <4>2. QED
        BY <1>2, <4>1
    <3>4. \A k \in 1..i : EndOf(attrs, k) <= n
      BY <1>1, <1>2, <2>5
    <3>5. i \in 0..N /\ i = turns + 1
      BY <1>1, <2>1, <3>3
    <3> HIDE DEF next, a
    <3>6. FoundUpTo(attrs, i, next.found)
      BY <3>1, <3>2
    <3>7. Reached(attrs, n, turns + 1, next)
      BY <3>1, <3>4, <3>5, <3>6 DEF Reached
    <3>8. QED
      BY <3>7 DEF next
  <2>6. QED
    BY <1>1, <2>3, <2>4, <2>5
<1>5. QED
  BY <1>1, <1>3, <1>4

(* parseAttrs: wherever the buffer is cut off, what is whole is found.     *)
LEMMA AttributesCorrect ==
    ASSUME NEW attrs, Sendable(attrs), NEW n, NEW b, CutAt(attrs, n, b)
    PROVE  AttributesFound(attrs, n, parseAttrs(b))
<1> DEFINE N == Len(attrs)
<1>1. N \in Nat /\ n \in Nat /\ Len(b) = n /\ b \in Seq(Octet)
  BY DEF Sendable, CutAt
<1>2. PICK f : /\ parseAttrs(b) = f[n].found /\ f[0] = NoAttrs
               /\ \A k \in 1..n : f[k] = TakeAttr(b, f[k - 1])
  BY <1>1, AttrsRun
<1> DEFINE T == {k \in 0..n : Reached(attrs, n, k, f[k])}
<1>3. 0 \in T
  <2>1. NoAttrs.at = Len(Written(attrs)[0])
    <3>1. Written(attrs)[0] = <<>> /\ Len(<<>>) = 0
      BY WrittenRuns
    <3>2. NoAttrs.at = 0
      BY DEF NoAttrs
    <3>3. QED
      BY <3>1, <3>2
  <2>2. FoundUpTo(attrs, 0, NoAttrs.found)
    BY DEF NoAttrs, FoundUpTo
  <2>3. 0 \in 0..N /\ \A i \in 1..0 : EndOf(attrs, i) <= n
    BY <1>1
  <2>4. Reached(attrs, n, 0, NoAttrs)
    BY <2>1, <2>2, <2>3 DEF Reached
  <2>5. QED
    BY <1>1, <1>2, <2>4
<1>4. ASSUME NEW k \in 1..n, k - 1 \in T
      PROVE  k \in T
  <2>1. Reached(attrs, n, k - 1, f[k - 1]) /\ k - 1 \in Nat /\ (k - 1) + 1 = k
    BY <1>1, <1>4
  <2>2. Reached(attrs, n, (k - 1) + 1, TakeAttr(b, f[k - 1]))
    BY <2>1, TurnReaches
  <2>3. f[k] = TakeAttr(b, f[k - 1])
    BY <1>2
  <2>4. QED
    BY <1>1, <2>1, <2>2, <2>3
<1>5. Reached(attrs, n, n, f[n])
  <2>1. n \in T
    <3> HIDE DEF T
    <3>1. 0..n \subseteq T
      BY <1>1, <1>3, <1>4, UpToN
    <3>2. QED
      BY <1>1, <3>1
  <2>2. QED
    BY <2>1
<1> DEFINE out == parseAttrs(b)
<1>6. PICK j \in 0..N :
          /\ FoundUpTo(attrs, j, out)
          /\ \A i \in 1..j : EndOf(attrs, i) <= n
          /\ j = n \/ \A i \in (j + 1)..N : EndOf(attrs, i) > n
  BY <1>2, <1>5 DEF Reached
<1> HIDE DEF out
<1>7. \A i \in (j + 1)..N : EndOf(attrs, i) > n
  <2> SUFFICES ASSUME j = n, NEW i \in (j + 1)..N PROVE EndOf(attrs, i) > n
    BY <1>6
  <2>1. i \in 1..N /\ i - 1 \in 0..N
    BY <1>1
  <2>2. /\ EndOf(attrs, i) \in Nat /\ EndOf(attrs, i) >= Len(Written(attrs)[i - 1]) + 4
        /\ Len(Written(attrs)[i - 1]) \in Nat
    BY <2>1, WrittenGrows
  <2>3. Len(Written(attrs)[i - 1]) >= 4 * (i - 1)
    BY <2>1, WrittenTyped
  <2>4. 4 * (i - 1) >= n
    BY <1>1
  <2>5. QED
    BY <1>1, <2>1, <2>2, <2>3, <2>4
<1> DEFINE whole == {i \in DOMAIN attrs : EndOf(attrs, i) <= n}
<1>8. whole = 1..j
  <2>1. DOMAIN attrs = 1..N
    BY DEF Sendable
  <2>2. \A i \in 1..N : EndOf(attrs, i) \in Nat
    BY WrittenGrows
  <2>3. \A i \in 1..N : i \in 1..j \/ i \in (j + 1)..N
    BY <1>1
  <2>4. \A i \in 1..j : i \in 1..N
    BY <1>1
  <2>5. \A i \in (j + 1)..N : ~(EndOf(attrs, i) <= n)
    <3>1. \A i \in (j + 1)..N : i \in 1..N
      BY <1>1
    <3>2. \A x \in Nat : x > n => ~(x <= n)
      BY <1>1
    <3>3. QED
      BY <1>7, <2>2, <3>1, <3>2
  <2>6. QED
    BY <1>6, <2>1, <2>3, <2>4, <2>5
<1> HIDE DEF whole
<1>9. /\ DOMAIN out = {attrs[i].type : i \in whole}
      /\ \A i \in whole :
             (\A m \in whole : attrs[m].type = attrs[i].type => m <= i) =>
                 out[attrs[i].type] = attrs[i].data
  BY <1>6, <1>8 DEF FoundUpTo
<1>10. QED
  BY <1>9 DEF AttributesFound, whole, out

----------------------------------------------------------------------------
(* Each page, as it is read. *)

(* Default routes. *)
LEMMA RoutesPage == ReadRoutes => PagesAreTrue'
<1> SUFFICES ASSUME NEW t \in RouteTables, page' = <<"routes", t, DefaultRoutes(t)>>
             PROVE  PagesAreTrue'
  BY DEF ReadRoutes
<1>1. RoutesInOrder(t, DefaultRoutes(t))
  BY RoutesAssumption, RoutesCorrect
<1>2. page'[1] = "routes" /\ page'[2] = t /\ page'[3] = DefaultRoutes(t)
  OBVIOUS
<1>3. QED
  BY <1>1, <1>2 DEF PagesAreTrue

(* The connection. *)
LEMMA ConnectionPage == ReadConnection => PagesAreTrue'
<1> SUFFICES ASSUME NEW f \in InterfaceLists, NEW t \in RouteTables,
                    page' = <<"connection", <<f, DefaultRoutes(t)>>,
                              connectionInfo(f, DefaultRoutes(t))>>
             PROVE  PagesAreTrue'
  BY DEF ReadConnection
<1>1. DefaultRoutes(t) \in Seq(STRING)
  BY RoutesAssumption, RoutesCorrect
<1>2. f \in Seq(Iface) /\ \A i, j \in DOMAIN f : f[i].name = f[j].name => i = j
  BY InterfacesAssumption
<1>3. ConnectionsOnce(f, DefaultRoutes(t), connectionInfo(f, DefaultRoutes(t)))
  BY <1>1, <1>2, ConnectionCorrect
<1>4. /\ page'[1] = "connection" /\ page'[2][1] = f /\ page'[2][2] = DefaultRoutes(t)
      /\ page'[3] = connectionInfo(f, DefaultRoutes(t))
  OBVIOUS
<1>5. QED
  BY <1>3, <1>4 DEF PagesAreTrue

(* Mounts. *)
LEMMA BlockPage == ReadBlock => PagesAreTrue'
<1> SUFFICES ASSUME NEW t \in MountTables, page' = <<"block", t, Block(t)>>
             PROVE  PagesAreTrue'
  BY DEF ReadBlock
<1>1. MountsAreShown(t, Block(t))
  BY TablesAssumption, BlockCorrect
<1>2. page'[1] = "block" /\ page'[2] = t /\ page'[3] = Block(t)
  OBVIOUS
<1>3. QED
  BY <1>1, <1>2 DEF PagesAreTrue

(* Thermal limits. *)
LEMMA LimitsPage == ReadLimits => PagesAreTrue'
<1> SUFFICES ASSUME NEW t \in TripLists, page' = <<"limits", t, ThermalLimits(t)>>
             PROVE  PagesAreTrue'
  BY DEF ReadLimits
<1>1. LimitsInOrder(ThermalLimits(t))
  BY TablesAssumption, LimitsCorrect
<1>2. page'[1] = "limits" /\ page'[3] = ThermalLimits(t)
  OBVIOUS
<1>3. QED
  BY <1>1, <1>2 DEF PagesAreTrue

(* Offline updates. *)
LEMMA MediaPage == ReadMedia => PagesAreTrue'
<1> SUFFICES ASSUME NEW m \in MediaTrees, page' = <<"media", m, OfflineSources(m)>>
             PROVE  PagesAreTrue'
  BY DEF ReadMedia
<1>1. LockboxesOnce(m, OfflineSources(m))
  BY MediaAssumption, MediaCorrect
<1>2. page'[1] = "media" /\ page'[2] = m /\ page'[3] = OfflineSources(m)
  OBVIOUS
<1>3. QED
  BY <1>1, <1>2 DEF PagesAreTrue

(* CAN attributes. *)
LEMMA LinksPage == ReadLinks => PagesAreTrue'
<1> SUFFICES ASSUME NEW attrs \in Attributes, NEW n \in 0..Len(Buffer(attrs)),
                    page' = <<"links", <<attrs, n>>,
                              parseAttrs(SubSeq(Buffer(attrs), 1, n))>>
             PROVE  PagesAreTrue'
  BY DEF ReadLinks
<1> DEFINE out == parseAttrs(SubSeq(Buffer(attrs), 1, n))
<1>1. Sendable(attrs)
  BY AttributesAssumption DEF Sendable
<1>2. CutAt(attrs, n, SubSeq(Buffer(attrs), 1, n))
  BY <1>1, SubSeqIsCut
<1>3. AttributesFound(attrs, n, out)
  BY <1>1, <1>2, AttributesCorrect
<1>4. page'[1] = "links" /\ page'[2][1] = attrs /\ page'[2][2] = n /\ page'[3] = out
  OBVIOUS
<1> HIDE DEF out
<1>5. QED
  BY <1>3, <1>4 DEF PagesAreTrue

(* Whatever is read, a page shows what it says: interfaces with a default  *)
(* route by metric, each connection once, whole mounts of each device,     *)
(* limits in order, each directory of metadata once, and the attributes    *)
(* that are whole however the kernel's answer is cut off.                  *)
THEOREM PagesCorrect == ReadersSpec => []PagesAreTrue
<1>1. ReadersInit => PagesAreTrue
  BY DEF ReadersInit, PagesAreTrue
<1>2. PagesAreTrue /\ [ReadersNext]_page => PagesAreTrue'
  <2> SUFFICES ASSUME PagesAreTrue, [ReadersNext]_page PROVE PagesAreTrue'
    OBVIOUS
  <2>1. CASE Leave
    BY <2>1 DEF Leave, PagesAreTrue
  <2>2. CASE ReadRoutes \/ ReadConnection \/ ReadBlock \/ ReadLimits \/ ReadMedia \/ ReadLinks
    BY <2>2, RoutesPage, ConnectionPage, BlockPage, LimitsPage, MediaPage, LinksPage
  <2>3. CASE UNCHANGED page
    BY <2>3 DEF PagesAreTrue
  <2>4. QED
    BY <2>1, <2>2, <2>3 DEF ReadersNext
<1>3. QED
  BY <1>1, <1>2, PTL DEF ReadersSpec
=============================================================================
