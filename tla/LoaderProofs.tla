---------------------------- MODULE LoaderProofs ----------------------------
(***************************************************************************)
(* From the command line to the last injection, for every command line,    *)
(* file, profile and draw: what Workload and Generator promise, by one     *)
(* invariant over the setup and the generator's thread.                    *)
(***************************************************************************)
EXTENDS Generator, ReadyOrderProofs

(* f is the recursive function over 0 .. n that begins with start and      *)
(* takes its steps with G.                                                 *)
Closed(G, n, A) == \A i \in 1 .. n, x \in A : G[i][x] \in A
Recursion(f, n, A, start, G) ==
  /\ f \in [0 .. n -> A] /\ f[0] = start
  /\ \A i \in 1 .. n : f[i] = G[i][f[i - 1]]
LEMMA RecursionExists ==
  ASSUME NEW n \in Nat, NEW A, NEW start \in A, NEW G, Closed(G, n, A)
  PROVE  \E f : Recursion(f, n, A, start, G)
<1> DEFINE Upto(f, k) == /\ f \in [0 .. k -> A] /\ f[0] = start
                         /\ \A i \in 1 .. k : f[i] = G[i][f[i - 1]]
           T == {k \in Nat : k <= n => \E f : Upto(f, k)}
<1>1. 0 \in T
  <2>1. Upto([i \in 0 .. 0 |-> start], 0)
    OBVIOUS
  <2> QED
    BY <2>1
<1>2. ASSUME NEW k \in Nat, k \in T PROVE k + 1 \in T
  <2> SUFFICES ASSUME k + 1 <= n PROVE \E f : Upto(f, k + 1)
    OBVIOUS
  <2>1. PICK f : Upto(f, k)
    BY <1>2
  <2> DEFINE g == [i \in 0 .. k + 1 |-> IF i <= k THEN f[i] ELSE G[k + 1][f[k]]]
  <2>2. f[k] \in A /\ G[k + 1][f[k]] \in A
    BY <2>1 DEF Closed
  <2>3. g \in [0 .. k + 1 -> A]
    BY <2>1, <2>2
  <2>4. \A i \in 1 .. k : g[i] = f[i] /\ g[i - 1] = f[i - 1]
    OBVIOUS
  <2>5. g[0] = f[0] /\ g[k + 1] = G[k + 1][f[k]] /\ g[(k + 1) - 1] = f[k]
    OBVIOUS
  <2> HIDE DEF g
  <2>6. \A i \in 1 .. k + 1 : g[i] = G[i][g[i - 1]]
    <3> SUFFICES ASSUME NEW i \in 1 .. k + 1 PROVE g[i] = G[i][g[i - 1]]
      OBVIOUS
    <3>1. CASE i = k + 1
      BY <2>5, <3>1
    <3>2. CASE i # k + 1
      BY <2>1, <2>4, <3>2
    <3> QED
      BY <3>1, <3>2
  <2>7. Upto(g, k + 1)
    BY <2>1, <2>3, <2>5, <2>6
  <2> QED
    BY <2>7
<1>3. n \in T
  <2> HIDE DEF T
  <2> QED
    BY <1>1, <1>2, NatSetInduction
<1> QED
  BY <1>3 DEF Recursion

-----------------------------------------------------------------------------
(* WorkloadLoader::generate: every arrival is at least one tick after the  *)
(* one before.                                                             *)
LEMMA ArrivalsIncrease ==
  ASSUME NEW w, NEW n \in Nat, \A i \in 1 .. n : Profiles[w].draws[i].gap \in Int
  PROVE  /\ Arrivals(w, n) \in [0 .. n -> Nat]
         /\ \A i, j \in 0 .. n : i < j => Arrivals(w, n)[i] < Arrivals(w, n)[j]
<1> DEFINE gap(i) == AtLeastOne(Profiles[w].draws[i].gap)
           E(f) == f = [i \in 0 .. n |-> IF i = 0 THEN 0 ELSE f[i - 1] + gap(i)]
           G == [i \in 1 .. n |-> [x \in Nat |-> x + gap(i)]]
           a == CHOOSE f : E(f)
<1>1. Arrivals(w, n) = a
  BY DEF Arrivals
<1>2. \A i \in 1 .. n : gap(i) \in Nat \ {0}
  BY DEF AtLeastOne
<1> HIDE DEF gap
<1>3. \A i \in 1 .. n, x \in Nat : G[i][x] = x + gap(i) /\ G[i][x] \in Nat
  BY <1>2
<1> HIDE DEF G
<1>4. PICK f : Recursion(f, n, Nat, 0, G)
  <2>1. Closed(G, n, Nat) /\ 0 \in Nat
    BY <1>3 DEF Closed
  <2> QED
    BY <2>1, RecursionExists
<1>5. E(f)
  <2>1. \A i \in 1 .. n : f[i - 1] \in Nat
    <3>1. \A i \in 1 .. n : i - 1 \in 0 .. n
      OBVIOUS
    <3> QED
      BY <1>4, <3>1 DEF Recursion
  <2>2. \A i \in 0 .. n : f[i] = IF i = 0 THEN 0 ELSE f[i - 1] + gap(i)
    <3>1. \A i \in 1 .. n : f[i] = f[i - 1] + gap(i)
      BY <1>3, <1>4, <2>1 DEF Recursion
    <3> QED
      BY <1>4, <3>1 DEF Recursion
  <2> QED
    BY <1>4, <2>2 DEF Recursion
<1>6. E(a)
  <2> HIDE DEF E
  <2> QED
    BY <1>5, Zenon
<1>7. /\ DOMAIN a = 0 .. n /\ a[0] = 0
      /\ \A i \in 1 .. n : a[i] = a[i - 1] + gap(i)
  <2> HIDE DEF a
  <2> QED
    BY <1>6
<1> HIDE DEF a, E
<1>8. \A k \in Nat : k <= n => a[k] \in Nat
  <2> DEFINE T == {k \in Nat : k <= n => a[k] \in Nat}
  <2>1. 0 \in T
    BY <1>7
  <2>2. ASSUME NEW k \in Nat, k \in T PROVE k + 1 \in T
    <3> SUFFICES ASSUME k + 1 <= n PROVE a[k + 1] \in Nat
      OBVIOUS
    <3>1. a[k] \in Nat /\ gap(k + 1) \in Nat
      BY <1>2, <2>2
    <3>2. k + 1 \in 1 .. n /\ (k + 1) - 1 = k
      OBVIOUS
    <3>3. a[k + 1] = a[k] + gap(k + 1)
      BY <1>7, <3>2
    <3> QED
      BY <3>1, <3>3
  <2> HIDE DEF T
  <2>3. \A k \in Nat : k \in T
    BY <2>1, <2>2, NatSetInduction
  <2> QED
    BY <2>3 DEF T
<1>9. ASSUME NEW i \in 0 .. n PROVE \A k \in Nat : i < k /\ k <= n => a[i] < a[k]
  <2> DEFINE T == {k \in Nat : i < k /\ k <= n => a[i] < a[k]}
  <2>1. 0 \in T
    OBVIOUS
  <2>2. ASSUME NEW k \in Nat, k \in T PROVE k + 1 \in T
    <3> SUFFICES ASSUME i < k + 1, k + 1 <= n PROVE a[i] < a[k + 1]
      OBVIOUS
    <3>1. k \in 0 .. n /\ a[k] \in Nat /\ a[i] \in Nat /\ gap(k + 1) \in Nat \ {0}
      BY <1>2, <1>8
    <3>2. k + 1 \in 1 .. n /\ (k + 1) - 1 = k
      OBVIOUS
    <3>3. a[k + 1] = a[k] + gap(k + 1)
      BY <1>7, <3>2
    <3>4. a[i] <= a[k]
      BY <2>2, <3>1
    <3> QED
      BY <3>1, <3>3, <3>4
  <2> HIDE DEF T
  <2>3. \A k \in Nat : k \in T
    BY <2>1, <2>2, NatSetInduction
  <2> QED
    BY <2>3 DEF T
<1>10. a \in [0 .. n -> Nat]
  BY <1>6, <1>8 DEF E
<1> QED
  BY <1>1, <1>9, <1>10

(* A generated list is as long as asked for and legal. *)
Legal(ds, w) ==
  /\ \A i, j \in DOMAIN ds : i < j => ds[i].arrival < ds[j].arrival
  /\ \A i \in DOMAIN ds : ds[i].burst \in Profiles[w].burstMin .. Profiles[w].burstMax
LEMMA GenerateLegal ==
  ASSUME NEW w \in DOMAIN Profiles, NEW total \in Counts, cast \in CastOfNegative
  PROVE  /\ Generate(w, total) \in Seq(Descriptors)
         /\ Len(Generate(w, total)) = NumberOf(total)
         /\ Legal(Generate(w, total), w)
<1> DEFINE n == NumberOf(total)
           draw(i) == Profiles[w].draws[i]
           a == Arrivals(w, n)
           d(i) == Descriptor(i, a[i], Clamped(draw(i).burst, w))
           ds == [i \in 1 .. n |-> d(i)]
           low == Profiles[w].burstMin
           high == Profiles[w].burstMax
<1>1. Generate(w, total) = ds
  BY DEF Generate
<1>2. n \in Nat \ {0} /\ n \in Counts
  BY WorkloadAssumption DEF NumberOf, Counts
<1>3. /\ low \in Nat /\ high \in Nat /\ low <= high /\ cast \in Nat
      /\ \A i \in 1 .. n : draw(i) \in [gap : Int, burst : Int]
  BY <1>2, WorkloadAssumption
<1>4. \A i \in 1 .. n : draw(i).gap \in Int /\ draw(i).burst \in Int
  BY <1>3
<1> HIDE DEF n
<1>5. /\ \A i \in 0 .. n : a[i] \in Nat
      /\ \A i, j \in 0 .. n : i < j => a[i] < a[j]
  BY <1>2, <1>4, ArrivalsIncrease
<1>6. \A i \in 1 .. n : Clamped(draw(i).burst, w) \in low .. high
  BY <1>3, <1>4 DEF Clamped
<1>7. \A i \in 1 .. n : /\ d(i) \in Descriptors
                        /\ d(i).arrival = a[i] /\ d(i).burst \in low .. high
  BY <1>2, <1>3, <1>5, <1>6 DEF Descriptor, Descriptors
<1> HIDE DEF d
<1>8. ds \in Seq(Descriptors) /\ Len(ds) = n /\ DOMAIN ds = 1 .. n
  BY <1>2, <1>7
<1>9. \A i \in DOMAIN ds : ds[i] = d(i)
  OBVIOUS
<1>10. Legal(ds, w)
  <2> HIDE DEF ds
  <2> QED
    BY <1>2, <1>5, <1>7, <1>8, <1>9 DEF Legal
<1> QED
  BY <1>1, <1>8, <1>10 DEF n

(* WorkloadLoader::from_csv reads one line after the other. *)
Readings == [first : BOOLEAN, descs : Seq(Descriptors)]
Readable(lines, S) ==
  lines \in Seq(S) /\ \A l \in S : Parses(l) => l.desc \in Descriptors
LEMMA ReaderReads ==
  ASSUME NEW S, NEW lines, Readable(lines, S)
  PROVE  /\ Len(lines) \in Nat /\ DOMAIN Reader(lines) = 0 .. Len(lines)
         /\ \A i \in 0 .. Len(lines) : Reader(lines)[i] \in Readings
         /\ Reader(lines)[0] = [first |-> TRUE, descs |-> <<>>]
         /\ \A i \in 1 .. Len(lines) :
              Reader(lines)[i] = ReadLine(Reader(lines)[i - 1], lines[i])
<1> DEFINE n == Len(lines)
           start == [first |-> TRUE, descs |-> <<>>]
           E(f) == f = [i \in 0 .. n |-> IF i = 0 THEN start ELSE ReadLine(f[i - 1], lines[i])]
           G == [i \in 1 .. n |-> [x \in Readings |-> ReadLine(x, lines[i])]]
           r == CHOOSE f : E(f)
<1>1. Reader(lines) = r
  BY DEF Reader
<1>2. n \in Nat /\ \A i \in 1 .. n : lines[i] \in S
  BY LenProperties, ElementOfSeq DEF Readable
<1> HIDE DEF n
<1>3. start \in Readings
  BY DEF Readings
<1>4. ASSUME NEW x \in Readings, NEW l \in S PROVE ReadLine(x, l) \in Readings
  <2>1. x.descs \in Seq(Descriptors) /\ x.first \in BOOLEAN
    BY DEF Readings
  <2>2. [x EXCEPT !.first = FALSE] \in Readings
    BY DEF Readings
  <2>3. Parses(l) => Append(x.descs, l.desc) \in Seq(Descriptors)
    BY <2>1, AppendProperties DEF Readable
  <2>4. [first |-> FALSE, descs |-> IF Parses(l) THEN Append(x.descs, l.desc) ELSE x.descs]
          \in Readings
    BY <2>1, <2>3 DEF Readings
  <2> QED
    BY <2>2, <2>4 DEF ReadLine
<1> HIDE DEF start
<1>5. \A i \in 1 .. n, x \in Readings : /\ G[i][x] = ReadLine(x, lines[i])
                                       /\ G[i][x] \in Readings
  BY <1>2, <1>4
<1> HIDE DEF G
<1>6. PICK f : Recursion(f, n, Readings, start, G)
  BY <1>2, <1>3, <1>5, RecursionExists DEF Closed
<1>7. E(f)
  <2>1. \A i \in 1 .. n : i - 1 \in 0 .. n
    BY <1>2
  <2>2. \A i \in 1 .. n : f[i] = ReadLine(f[i - 1], lines[i])
    BY <1>5, <1>6, <2>1 DEF Recursion
  <2>3. \A i \in 0 .. n : f[i] = IF i = 0 THEN start ELSE ReadLine(f[i - 1], lines[i])
    BY <1>6, <2>2 DEF Recursion
  <2> QED
    BY <1>6, <2>3 DEF Recursion
<1>8. E(r)
  <2> HIDE DEF E
  <2> QED
    BY <1>7, Zenon
<1>9. /\ DOMAIN r = 0 .. n /\ r[0] = start
      /\ \A i \in 1 .. n : r[i] = ReadLine(r[i - 1], lines[i])
  <2> HIDE DEF r
  <2>1. 0 \in 0 .. n /\ \A i \in 1 .. n : i \in 0 .. n /\ i # 0
    BY <1>2
  <2>2. DOMAIN r = 0 .. n /\ \A i \in 0 .. n :
          r[i] = IF i = 0 THEN start ELSE ReadLine(r[i - 1], lines[i])
    BY <1>8
  <2> QED
    BY <2>1, <2>2
<1> HIDE DEF r, E
<1>10. \A k \in Nat : k <= n => r[k] \in Readings
  <2> DEFINE T == {k \in Nat : k <= n => r[k] \in Readings}
  <2>1. 0 \in T
    BY <1>3, <1>9
  <2>2. ASSUME NEW k \in Nat, k \in T PROVE k + 1 \in T
    <3> SUFFICES ASSUME k + 1 <= n PROVE r[k + 1] \in Readings
      OBVIOUS
    <3>1. k + 1 \in 1 .. n /\ (k + 1) - 1 = k /\ r[k] \in Readings
      BY <1>2, <2>2
    <3>2. r[k + 1] = ReadLine(r[k], lines[k + 1])
      BY <1>9, <3>1
    <3> QED
      BY <1>2, <1>4, <3>1, <3>2
  <2> HIDE DEF T
  <2>3. \A k \in Nat : k \in T
    BY <2>1, <2>2, NatSetInduction
  <2> QED
    BY <2>3 DEF T
<1> QED
  BY <1>1, <1>2, <1>9, <1>10 DEF n, start

(* What has been read of the first k lines: their rows, in their order. *)
KeptOf(lines, k) == {i \in Rows(lines) : i <= k}
Selects(at, ds, lines, k) ==
  /\ at \in [DOMAIN ds -> DOMAIN lines]
  /\ \A i, j \in DOMAIN ds : i < j => at[i] < at[j]
  /\ Range(at) = KeptOf(lines, k)
  /\ \A i \in DOMAIN ds : ds[i] = lines[at[i]].desc

LEMMA OneMoreRow ==
  ASSUME NEW lines, NEW n \in Nat, DOMAIN lines = 1 .. n, NEW k \in 0 .. n - 1,
         NEW ds \in Seq(Descriptors), NEW at, Selects(at, ds, lines, k),
         k + 1 \in Rows(lines), lines[k + 1].desc \in Descriptors
  PROVE  \E up : Selects(up, Append(ds, lines[k + 1].desc), lines, k + 1)
<1> DEFINE m == Len(ds)
           es == Append(ds, lines[k + 1].desc)
           up == [i \in 1 .. m + 1 |-> IF i <= m THEN at[i] ELSE k + 1]
<1>1. m \in Nat /\ DOMAIN ds = 1 .. m
  BY LenProperties
<1>2. /\ es \in Seq(Descriptors) /\ DOMAIN es = 1 .. m + 1
      /\ \A i \in 1 .. m : es[i] = ds[i]
      /\ es[m + 1] = lines[k + 1].desc
  <2>1. es \in Seq(Descriptors) /\ Len(es) = m + 1
    BY AppendProperties
  <2> QED
    BY <2>1, AppendProperties, LenProperties
<1> HIDE DEF es, m
<1>3. \A i \in 1 .. m : at[i] \in 1 .. k
  <2>1. \A i \in 1 .. m : at[i] \in Range(at) /\ at[i] \in 1 .. n
    BY <1>1 DEF Selects, Range
  <2> QED
    BY <2>1 DEF Selects, KeptOf
<1>4. /\ \A i \in 1 .. m : up[i] = at[i]
      /\ up[m + 1] = k + 1 /\ DOMAIN up = 1 .. m + 1
  BY <1>1
<1>5. up \in [1 .. m + 1 -> 1 .. n]
  BY <1>1, <1>3
<1> HIDE DEF up
<1>6. \A i \in 1 .. m + 1 : i \in 1 .. m \/ i = m + 1
  BY <1>1
<1>7. \A i, j \in 1 .. m + 1 : i < j => up[i] < up[j]
  <2> SUFFICES ASSUME NEW i \in 1 .. m + 1, NEW j \in 1 .. m + 1, i < j PROVE up[i] < up[j]
    OBVIOUS
  <2>1. i \in 1 .. m
    BY <1>1
  <2>2. CASE j \in 1 .. m
    BY <1>1, <1>4, <2>1, <2>2 DEF Selects
  <2>3. CASE j = m + 1
    BY <1>3, <1>4, <2>1, <2>3
  <2> QED
    BY <1>6, <2>2, <2>3
<1>8. Range(up) = KeptOf(lines, k + 1)
  <2>1. Range(up) = Range(at) \cup {k + 1}
    <3>1. DOMAIN at = 1 .. m /\ m + 1 \in 1 .. m + 1 /\ \A i \in 1 .. m : i \in 1 .. m + 1
      BY <1>1 DEF Selects
    <3>2. \A x : x \in Range(up) <=> \E i \in 1 .. m + 1 : up[i] = x
      BY <1>4 DEF Range
    <3>3. \A x : x \in Range(at) <=> \E i \in 1 .. m : at[i] = x
      BY <3>1 DEF Range
    <3>4. \A x : x \in Range(up) <=> x \in Range(at) \/ x = k + 1
      BY <1>4, <1>6, <3>1, <3>2, <3>3
    <3> QED
      BY <3>4
  <2>2. KeptOf(lines, k + 1) = KeptOf(lines, k) \cup {k + 1}
    BY DEF KeptOf, Rows
  <2> QED
    BY <2>1, <2>2 DEF Selects
<1>9. \A i \in 1 .. m + 1 : es[i] = lines[up[i]].desc
  BY <1>1, <1>2, <1>4, <1>6 DEF Selects
<1>10. Selects(up, es, lines, k + 1)
  BY <1>2, <1>5, <1>7, <1>8, <1>9 DEF Selects
<1> QED
  BY <1>10 DEF es

LEMMA RowsAreKept ==
  ASSUME NEW S, NEW lines, Readable(lines, S)
  PROVE  FromCsv(lines) \in Seq(Descriptors) /\ RowsInOrder(FromCsv(lines), lines)
<1> DEFINE n == Len(lines)
           r == Reader(lines)
           P(k) == /\ r[k].first <=> \A j \in 1 .. k : lines[j].kind = "comment"
                   /\ \E at : Selects(at, r[k].descs, lines, k)
           T == {k \in Nat : k <= n => P(k)}
<1>1. /\ n \in Nat /\ DOMAIN lines = 1 .. n
      /\ \A i \in 1 .. n : lines[i] \in S
  BY LenProperties, ElementOfSeq DEF Readable
<1>2. /\ \A i \in 0 .. n : r[i] \in Readings
      /\ r[0] = [first |-> TRUE, descs |-> <<>>]
      /\ \A i \in 1 .. n : r[i] = ReadLine(r[i - 1], lines[i])
  BY ReaderReads
<1> HIDE DEF n, r
<1>3. 0 \in T
  <2>1. r[0].first = TRUE /\ r[0].descs = <<>>
    BY <1>2
  <2>2. \A j \in 1 .. 0 : lines[j].kind = "comment"
    OBVIOUS
  <2>3. KeptOf(lines, 0) = {}
    BY <1>1 DEF KeptOf, Rows
  <2>4. Selects(<<>>, <<>>, lines, 0)
    BY <2>3 DEF Selects, Range
  <2> QED
    BY <2>1, <2>2, <2>4
<1>4. ASSUME NEW k \in Nat, k \in T PROVE k + 1 \in T
  <2> SUFFICES ASSUME k + 1 <= n PROVE P(k + 1)
    OBVIOUS
  <2> DEFINE x == r[k]
             l == lines[k + 1]
             y == r[k + 1]
  <2>1. /\ k \in 0 .. n /\ k + 1 \in 1 .. n /\ (k + 1) - 1 = k
        /\ k \in 0 .. n - 1
    BY <1>1
  <2>2. y = ReadLine(x, l) /\ x \in Readings /\ l \in S
    BY <1>1, <1>2, <2>1
  <2>3. x.first <=> \A j \in 1 .. k : lines[j].kind = "comment"
    BY <1>4, <2>1
  <2>4. PICK at : Selects(at, x.descs, lines, k)
    BY <1>4, <2>1
  <2>5. \A j \in 1 .. k + 1 : j \in 1 .. k \/ j = k + 1
    BY <2>1
  <2>6. \A j \in 1 .. k : j \in 1 .. k + 1
    BY <2>1
  <2>7. k + 1 \in 1 .. k + 1
    BY <2>1
  <2>8. k + 1 \in Rows(lines) <=>
          Parses(l) /\ (l.kind = "signed" => ~x.first)
    <3>1. 1 .. (k + 1) - 1 = 1 .. k
      BY <2>1
    <3> QED
      BY <1>1, <2>1, <2>3, <3>1 DEF Rows
  <2> HIDE DEF x, l, y, P, T
  <2>9. x.descs \in Seq(Descriptors) /\ x.first \in BOOLEAN
    BY <2>2 DEF Readings
  <2>10. CASE l.kind = "comment"
    <3>1. y = x
      BY <2>2, <2>10 DEF ReadLine
    <3>2. k + 1 \notin Rows(lines)
      BY <2>8, <2>10 DEF Parses
    <3>3. KeptOf(lines, k + 1) = KeptOf(lines, k)
      BY <1>1, <2>1, <3>2 DEF KeptOf, Rows
    <3>4. Selects(at, y.descs, lines, k + 1)
      BY <2>4, <3>1, <3>3 DEF Selects
    <3>5. y.first <=> \A j \in 1 .. k + 1 : lines[j].kind = "comment"
      BY <2>3, <2>5, <2>6, <2>10, <3>1 DEF l
    <3> QED
      BY <3>4, <3>5 DEF P, y
  <2>11. CASE l.kind # "comment"
    <3>1. y.first = FALSE
      BY <2>2, <2>11 DEF ReadLine, Readings
    <3>2. ~ \A j \in 1 .. k + 1 : lines[j].kind = "comment"
      BY <2>7, <2>11 DEF l
    <3>3. \E up : Selects(up, y.descs, lines, k + 1)
      <4>1. CASE k + 1 \in Rows(lines)
        <5>1. y.descs = Append(x.descs, l.desc)
          BY <2>2, <2>8, <2>9, <2>11, <4>1 DEF ReadLine, Parses
        <5>2. l.desc \in Descriptors
          BY <2>2, <2>8, <4>1 DEF Readable
        <5> QED
          BY <1>1, <2>1, <2>4, <2>9, <4>1, <5>1, <5>2, OneMoreRow DEF l
      <4>2. CASE k + 1 \notin Rows(lines)
        <5>1. y.descs = x.descs
          BY <2>2, <2>8, <2>9, <2>11, <4>2 DEF ReadLine, Parses, Readings
        <5>2. KeptOf(lines, k + 1) = KeptOf(lines, k)
          BY <1>1, <2>1, <4>2 DEF KeptOf, Rows
        <5> QED
          BY <2>4, <5>1, <5>2 DEF Selects
      <4> QED
        BY <4>1, <4>2
    <3> QED
      BY <3>1, <3>2, <3>3 DEF P, y
  <2> QED
    BY <2>10, <2>11
<1>5. P(n)
  <2> HIDE DEF P
  <2>1. T = {k \in Nat : k <= n => P(k)}
    OBVIOUS
  <2> HIDE DEF T
  <2>2. \A k \in Nat : k \in T
    BY <1>3, <1>4, NatSetInduction
  <2> QED
    BY <1>1, <2>1, <2>2
<1>6. FromCsv(lines) = r[n].descs /\ r[n] \in Readings
  BY <1>1, <1>2 DEF FromCsv, n, r
<1>7. KeptOf(lines, n) = Rows(lines)
  BY <1>1 DEF KeptOf, Rows
<1> QED
  BY <1>5, <1>6, <1>7 DEF RowsInOrder, Selects, Readings

(* What to_csv writes, from_csv reads as it was. *)
LEMMA RoundTrip ==
  ASSUME NEW ds \in Seq(Descriptors)
  PROVE  FromCsv(ToCsv(ds)) = ds
<1> DEFINE header == [kind |-> "text"]
           row(d) == [kind |-> "row", desc |-> d]
           S == {header} \cup {row(d) : d \in Descriptors}
           body == [i \in DOMAIN ds |-> row(ds[i])]
           lines == ToCsv(ds)
           m == Len(ds)
           r == Reader(lines)
           Good(k) == /\ r[k + 1].first = FALSE /\ Len(r[k + 1].descs) = k
                      /\ \A i \in 1 .. k : r[k + 1].descs[i] = ds[i]
           T == {k \in Nat : k <= m => Good(k)}
<1>1. m \in Nat /\ DOMAIN ds = 1 .. m /\ \A i \in 1 .. m : ds[i] \in Descriptors
  BY LenProperties, ElementOfSeq
<1>2. /\ header \in S /\ \A d \in Descriptors : row(d) \in S
      /\ header.kind = "text" /\ \A d : row(d).kind = "row" /\ row(d).desc = d
  OBVIOUS
<1>3. \A l \in S : Parses(l) => l.desc \in Descriptors
  BY DEF Parses
<1> HIDE DEF header, row, S, m
<1>4. body \in Seq(S) /\ Len(body) = m /\ \A i \in 1 .. m : body[i] = row(ds[i])
  BY <1>1, <1>2
<1>5. <<header>> \in Seq(S) /\ Len(<<header>>) = 1 /\ <<header>>[1] = header
  BY <1>2
<1> HIDE DEF body
<1>6. /\ lines \in Seq(S) /\ Len(lines) = m + 1
      /\ lines[1] = header /\ \A i \in 1 .. m : lines[i + 1] = row(ds[i])
  <2>1. lines = <<header>> \o body
    BY DEF ToCsv, header, body, row
  <2>2. /\ lines \in Seq(S) /\ Len(lines) = 1 + m
        /\ \A i \in 1 .. 1 + m : lines[i] = IF i <= 1 THEN <<header>>[i] ELSE body[i - 1]
    BY <1>4, <1>5, <2>1, ConcatProperties
  <2>3. \A i \in 1 .. m : i + 1 \in 1 .. 1 + m /\ ~(i + 1 <= 1) /\ (i + 1) - 1 = i
    BY <1>1
  <2>4. \A i \in 1 .. m : lines[i + 1] = row(ds[i])
    BY <1>4, <2>2, <2>3
  <2>5. lines[1] = header
    BY <1>1, <1>5, <2>2
  <2> QED
    BY <1>1, <2>2, <2>4, <2>5
<1> HIDE DEF lines
<1>7. /\ \A i \in 0 .. m + 1 : r[i] \in Readings
      /\ r[0] = [first |-> TRUE, descs |-> <<>>]
      /\ \A i \in 1 .. m + 1 : r[i] = ReadLine(r[i - 1], lines[i])
  BY <1>3, <1>6, ReaderReads DEF Readable
<1> HIDE DEF r
<1>8. 0 \in T
  <2>1. 1 \in 1 .. m + 1 /\ 1 - 1 = 0 /\ 0 + 1 = 1
    BY <1>1
  <2>2. r[1] = ReadLine(r[0], header)
    BY <1>6, <1>7, <2>1
  <2>3. r[1] = [r[0] EXCEPT !.first = FALSE]
    BY <1>2, <1>7, <2>2 DEF ReadLine
  <2>4. r[1].first = FALSE /\ r[1].descs = <<>>
    BY <1>7, <2>3
  <2> QED
    BY <2>1, <2>4
<1>9. ASSUME NEW k \in Nat, k \in T PROVE k + 1 \in T
  <2> HIDE DEF Good
  <2> SUFFICES ASSUME k + 1 <= m PROVE Good(k + 1)
    OBVIOUS
  <2> DEFINE x == r[k + 1]
             y == r[(k + 1) + 1]
  <2>1. /\ x.first = FALSE /\ Len(x.descs) = k
        /\ \A i \in 1 .. k : x.descs[i] = ds[i]
    BY <1>1, <1>9 DEF Good
  <2>2. /\ k + 1 \in 1 .. m /\ (k + 1) + 1 \in 1 .. m + 1
        /\ ((k + 1) + 1) - 1 = k + 1 /\ k + 1 \in 0 .. m + 1
    BY <1>1
  <2>3. y = ReadLine(x, row(ds[k + 1])) /\ x.descs \in Seq(Descriptors)
    BY <1>6, <1>7, <2>2 DEF Readings
  <2>4. ds[k + 1] \in Descriptors
    BY <1>1, <2>2
  <2> HIDE DEF x, y
  <2>5. y.first = FALSE /\ y.descs = Append(x.descs, ds[k + 1])
    BY <1>2, <2>1, <2>3 DEF ReadLine, Parses
  <2>6. /\ Len(y.descs) = k + 1 /\ y.descs[k + 1] = ds[k + 1]
        /\ \A i \in 1 .. k : y.descs[i] = ds[i]
    BY <2>1, <2>3, <2>4, <2>5, AppendProperties
  <2>7. \A i \in 1 .. k + 1 : i \in 1 .. k \/ i = k + 1
    OBVIOUS
  <2> QED
    BY <2>5, <2>6, <2>7 DEF Good, y
<1>10. /\ Len(r[m + 1].descs) = m
       /\ \A i \in 1 .. m : r[m + 1].descs[i] = ds[i]
  <2> HIDE DEF T
  <2>1. \A k \in Nat : k \in T
    BY <1>8, <1>9, NatSetInduction
  <2> QED
    BY <1>1, <2>1 DEF T
<1>11. FromCsv(lines) = r[m + 1].descs /\ r[m + 1].descs \in Seq(Descriptors)
  BY <1>1, <1>6, <1>7 DEF FromCsv, r, Readings
<1>12. FromCsv(lines) = ds
  BY <1>10, <1>11, SeqEqual DEF m
<1> QED
  BY <1>12 DEF lines

-----------------------------------------------------------------------------
(* main and setup.  The options read so far have had their effect: the     *)
(* last --count is the limit, and the profile's number unless a profile    *)
(* was named after it.                                                     *)
Configs == [profile : DOMAIN Profiles, total : Counts, csv : DOMAIN Files \cup {NoFile},
            max : Int]
SetupTyped ==
  /\ phase \in {"parse", "loaded", "trimmed", "started", "exited"}
  /\ argv \in Seq(Options) /\ argIndex \in 1 .. Len(argv) + 1
  /\ config \in Configs /\ cast \in CastOfNegative
  /\ descs \in Seq(Descriptors) /\ expected \in Nat
LastNamed(i, name) == \A j \in i + 1 .. argIndex - 1 : argv[j].name # name
OptionsTaken ==
  \A i \in 1 .. argIndex - 1 :
    argv[i].name = "count" /\ LastNamed(i, "count") =>
      /\ config.max = argv[i].value
      /\ LastNamed(i, "workload") => config.total = argv[i].value
ListLoaded ==
  phase = "loaded" =>
    /\ argIndex = Len(argv) + 1
    /\ config.csv = NoFile => /\ Legal(descs, config.profile)
                              /\ Len(descs) = NumberOf(config.total)
    /\ config.csv # NoFile => RowsInOrder(descs, Files[config.csv])
ListTrimmed ==
  phase = "trimmed" =>
    /\ argIndex = Len(argv) + 1 /\ expected = Len(descs)
    /\ config.max > 0 => expected <= config.max
    /\ config.csv = NoFile =>
         /\ Legal(descs, config.profile)
         /\ config.max > 0 /\ config.total = config.max => expected = config.max
SetupInv == SetupTyped /\ OptionsTaken /\ ListLoaded /\ ListTrimmed

LEMMA SetupInitInv == WorkloadInit => SetupInv
<1> SUFFICES ASSUME WorkloadInit PROVE SetupInv
  OBVIOUS
<1>1. argv \in Seq(Options) /\ Len(argv) \in Nat
  <2>1. argv \in CommandLines /\ argv \in Seq(Range(argv))
    BY WorkloadAssumption DEF WorkloadInit, IsList
  <2>2. Range(argv) \subseteq Options
    BY <2>1 DEF Options
  <2>3. argv \in Seq(Options)
    BY <2>1, <2>2, SeqMonotonic
  <2> QED
    BY <2>3, LenProperties
<1>2. config \in Configs
  BY WorkloadAssumption DEF WorkloadInit, Configs, Counts
<1>3. SetupTyped
  BY <1>1, <1>2, EmptySeq DEF WorkloadInit, SetupTyped
<1>4. OptionsTaken
  BY DEF WorkloadInit, OptionsTaken
<1> QED
  BY <1>3, <1>4 DEF SetupInv, ListLoaded, ListTrimmed, WorkloadInit

LEMMA ParseOptionInv ==
  ASSUME SetupInv, ParseOption
  PROVE  SetupInv'
<1> DEFINE o == argv[argIndex]
<1>1. /\ SetupTyped /\ OptionsTaken /\ phase = "parse" /\ UNCHANGED <<argv, descs, expected, cast>>
      /\ argIndex \in Nat \ {0} /\ argIndex <= Len(argv) /\ Len(argv) \in Nat
  BY LenProperties DEF SetupInv, SetupTyped, ParseOption
<1>2. CASE phase' = "exited" /\ UNCHANGED <<argIndex, config>>
  BY <1>1, <1>2 DEF SetupInv, SetupTyped, OptionsTaken, LastNamed, ListLoaded, ListTrimmed
<1>3. CASE /\ config' = Apply(o) /\ argIndex' = argIndex + 1 /\ phase' = phase
  <2>1. o \in Options
    BY <1>1, ElementOfSeq DEF SetupTyped
  <2>2. /\ o.name = "workload" => o.value \in DOMAIN Profiles
        /\ o.name = "csv" => o.value \in DOMAIN Files
        /\ o.name = "count" => o.value \in Counts /\ o.value \in Int
    BY <2>1, WorkloadAssumption DEF Counts
  <2>3. \A w \in DOMAIN Profiles : Profiles[w].total \in Counts
    BY DEF Counts
  <2>4. /\ config' \in Configs
        /\ o.name = "count" => config'.max = o.value /\ config'.total = o.value
        /\ o.name # "count" => config'.max = config.max
        /\ o.name # "count" /\ o.name # "workload" => config'.total = config.total
    <3> HIDE DEF o
    <3>1. config \in Configs
      BY <1>1 DEF SetupTyped
    <3> QED
      BY <1>3, <2>2, <2>3, <3>1 DEF Apply, Configs
  <2> HIDE DEF o
  <2>5. SetupTyped'
    BY <1>1, <1>3, <2>4 DEF SetupTyped
  <2>6. OptionsTaken'
    <3> SUFFICES ASSUME NEW i \in 1 .. argIndex' - 1,
                        argv[i].name = "count", LastNamed(i, "count")'
                 PROVE  /\ config'.max = argv[i].value
                        /\ LastNamed(i, "workload")' => config'.total = argv[i].value
      BY <1>1 DEF OptionsTaken
    <3>1. \A name : LastNamed(i, name)' <=> \A j \in i + 1 .. argIndex : argv[j].name # name
      BY <1>1, <1>3 DEF LastNamed
    <3>2. CASE i = argIndex
      BY <1>1, <2>4, <3>2 DEF o
    <3>3. CASE i # argIndex
      <4>1. i \in 1 .. argIndex - 1 /\ argIndex \in i + 1 .. argIndex
        BY <1>1, <1>3, <3>3
      <4>2. \A j \in i + 1 .. argIndex - 1 : j \in i + 1 .. argIndex
        BY <1>1
      <4>3. \A name : LastNamed(i, name)' => LastNamed(i, name) /\ o.name # name
        BY <3>1, <4>1, <4>2 DEF LastNamed, o
      <4> QED
        BY <1>1, <2>4, <4>1, <4>3 DEF OptionsTaken
    <3> QED
      BY <3>2, <3>3
  <2> QED
    BY <1>1, <1>3, <2>5, <2>6 DEF SetupInv, ListLoaded, ListTrimmed
<1> QED
  BY <1>2, <1>3 DEF ParseOption

LEMMA LoadInv ==
  ASSUME SetupInv, Load
  PROVE  SetupInv'
<1>1. /\ SetupTyped /\ OptionsTaken /\ UNCHANGED <<argv, argIndex, config, expected, cast>>
      /\ argIndex = Len(argv) + 1 /\ config \in Configs
  BY LenProperties DEF SetupInv, SetupTyped, Load
<1>2. /\ config.profile \in DOMAIN Profiles /\ config.total \in Counts
      /\ config.csv # NoFile => config.csv \in DOMAIN Files
  BY <1>1 DEF Configs
<1>3. OptionsTaken'
  BY <1>1 DEF OptionsTaken, LastNamed
<1>4. CASE config.csv = NoFile
  <2>1. descs' = Generate(config.profile, config.total) /\ phase' = "loaded"
    BY <1>4 DEF Load
  <2>2. /\ descs' \in Seq(Descriptors) /\ Len(descs') = NumberOf(config.total)
        /\ Legal(descs', config.profile)
    BY <1>1, <1>2, <2>1, GenerateLegal DEF SetupTyped
  <2>3. Legal(descs, config.profile)'
    BY <1>1, <2>2 DEF Legal
  <2> QED
    BY <1>1, <1>3, <1>4, <2>1, <2>2, <2>3
    DEF SetupInv, SetupTyped, ListLoaded, ListTrimmed, NumberOf
<1>5. CASE config.csv # NoFile /\ Files[config.csv] = Unreadable
  <2>1. phase' = "exited" /\ UNCHANGED descs
    BY <1>5 DEF Load
  <2> QED
    BY <1>1, <1>3, <2>1 DEF SetupInv, SetupTyped, ListLoaded, ListTrimmed
<1>6. CASE config.csv # NoFile /\ Files[config.csv] # Unreadable
  <2> DEFINE lines == Files[config.csv]
  <2>1. descs' = FromCsv(lines) /\ phase' = "loaded"
    BY <1>6 DEF Load
  <2>2. Readable(lines, Range(lines))
    BY <1>2, <1>6, WorkloadAssumption DEF Readable, IsList
  <2>3. descs' \in Seq(Descriptors) /\ RowsInOrder(descs', lines)
    BY <2>1, <2>2, RowsAreKept
  <2>4. RowsInOrder(descs, lines)'
    BY <1>1, <2>3 DEF RowsInOrder
  <2> QED
    BY <1>1, <1>3, <1>6, <2>1, <2>3, <2>4
    DEF SetupInv, SetupTyped, ListLoaded, ListTrimmed
<1> QED
  BY <1>4, <1>5, <1>6

LEMMA TrimInv ==
  ASSUME SetupInv, Trim
  PROVE  SetupInv'
<1>1. /\ SetupTyped /\ OptionsTaken /\ UNCHANGED <<argv, argIndex, config, cast>>
      /\ phase = "loaded" /\ phase' = "trimmed"
      /\ argIndex = Len(argv) + 1 /\ config \in Configs /\ config.max \in Int
      /\ descs \in Seq(Descriptors) /\ Len(descs) \in Nat /\ DOMAIN descs = 1 .. Len(descs)
  BY LenProperties DEF SetupInv, SetupTyped, Trim, ListLoaded, Configs
<1>2. OptionsTaken'
  BY <1>1 DEF OptionsTaken, LastNamed
<1>3. /\ descs' \in Seq(Descriptors) /\ expected' = Len(descs')
      /\ Len(descs') <= Len(descs) /\ Len(descs') \in Nat
      /\ \A i \in 1 .. Len(descs') : descs'[i] = descs[i]
      /\ config.max > 0 => Len(descs') = Smaller(Len(descs), config.max)
  <2>1. CASE config.max > 0 /\ Len(descs) > config.max
    <3> DEFINE n == config.max
    <3>1. descs' = SubSeq(descs, 1, n) /\ expected' = n
      BY <1>1, <2>1 DEF Trim, Smaller
    <3>2. n \in Nat \ {0} /\ n <= Len(descs)
      BY <1>1, <2>1
    <3> HIDE DEF n
    <3>3. \A i \in 1 .. n : descs[i] \in Descriptors
      BY <1>1, <3>2
    <3>4. /\ SubSeq(descs, 1, n) \in Seq(Descriptors)
          /\ Len(SubSeq(descs, 1, n)) = IF 1 <= n THEN n - 1 + 1 ELSE 0
          /\ \A i \in 1 .. n - 1 + 1 : SubSeq(descs, 1, n)[i] = descs[1 + i - 1]
      BY <3>2, <3>3, SubSeqProperties
    <3>5. /\ n - 1 + 1 = n /\ (IF 1 <= n THEN n - 1 + 1 ELSE 0) = n
          /\ \A i \in 1 .. n : 1 + i - 1 = i
      BY <3>2
    <3>6. Len(descs') = n /\ \A i \in 1 .. n : descs'[i] = descs[i]
      BY <3>1, <3>4, <3>5
    <3>7. Smaller(Len(descs), n) = n
      BY <1>1, <2>1 DEF Smaller, n
    <3> QED
      BY <3>1, <3>2, <3>4, <3>6, <3>7 DEF n
  <2>2. CASE ~(config.max > 0 /\ Len(descs) > config.max)
    BY <1>1, <2>2 DEF Trim, Smaller
  <2> QED
    BY <2>1, <2>2
<1>4. config.csv = NoFile =>
        /\ Legal(descs, config.profile)'
        /\ config.max > 0 /\ config.total = config.max => expected' = config.max
  <2> SUFFICES ASSUME config.csv = NoFile
               PROVE  /\ Legal(descs, config.profile)'
                      /\ config.max > 0 /\ config.total = config.max => expected' = config.max
    OBVIOUS
  <2>1. Legal(descs, config.profile) /\ Len(descs) = NumberOf(config.total)
    BY <1>1 DEF SetupInv, ListLoaded
  <2>2. DOMAIN descs' = 1 .. Len(descs') /\ \A i \in 1 .. Len(descs') : i \in DOMAIN descs
    BY <1>1, <1>3, LenProperties
  <2>3. Legal(descs, config.profile)'
    BY <1>1, <1>3, <2>1, <2>2 DEF Legal
  <2> QED
    BY <1>1, <1>3, <2>1, <2>3 DEF NumberOf, Smaller
<1>5. config.max > 0 => expected' <= config.max
  BY <1>1, <1>3 DEF Smaller
<1> QED
  BY <1>1, <1>2, <1>3, <1>4, <1>5 DEF SetupInv, SetupTyped, ListLoaded, ListTrimmed

(* The constructor of a static generator keeps the descriptors. *)
LEMMA SortedKeeps ==
  ASSUME NEW ds \in Seq(Descriptors), NEW es \in Sorted(ds)
  PROVE  /\ es \in Seq(Descriptors) /\ Len(es) = Len(ds)
         /\ \A i, j \in DOMAIN es : i < j => es[i].arrival <= es[j].arrival
<1>1. PICK f \in Bijection(DOMAIN ds, DOMAIN ds) : es = [i \in DOMAIN ds |-> ds[f[i]]]
  BY DEF Sorted, ByArrival
<1>2. f \in [DOMAIN ds -> DOMAIN ds]
  BY <1>1 DEF Bijection, Injection
<1>3. Len(ds) \in Nat /\ DOMAIN ds = 1 .. Len(ds) /\ ds \in [1 .. Len(ds) -> Descriptors]
  BY LenProperties
<1> DEFINE n == Len(ds)
<1> HIDE DEF n
<1>4. es \in [1 .. n -> Descriptors]
  BY <1>1, <1>2, <1>3 DEF n
<1>5. es \in Seq(Descriptors) /\ Len(es) = n
  BY <1>3, <1>4 DEF n
<1> QED
  BY <1>5 DEF Sorted, ByArrival, n

-----------------------------------------------------------------------------
(* The generator.  Of what was handed over, only that it is a list matters. *)
LEMMA AppendToList ==
  ASSUME NEW s, IsList(s), NEW e
  PROVE  /\ IsList(Append(s, e))
         /\ Len(s) \in Nat /\ Len(Append(s, e)) = Len(s) + 1
         /\ \A i \in 1 .. Len(s) : Append(s, e)[i] = s[i]
         /\ Append(s, e)[Len(s) + 1] = e
<1> DEFINE S == Range(s) \cup {e}
<1>1. s \in Seq(S) /\ e \in S
  <2>1. s \in Seq(Range(s)) /\ Range(s) \subseteq S
    BY DEF IsList
  <2> QED
    BY <2>1, SeqMonotonic
<1> HIDE DEF S
<1>2. /\ Append(s, e) \in Seq(S) /\ Len(s) \in Nat
      /\ Len(Append(s, e)) = Len(s) + 1
      /\ \A i \in 1 .. Len(s) : Append(s, e)[i] = s[i]
      /\ Append(s, e)[Len(s) + 1] = e
  BY <1>1, AppendProperties, LenProperties
<1>3. IsList(Append(s, e))
  BY <1>2, SeqOfRange DEF IsList
<1> QED
  BY <1>2, <1>3

GenTyped ==
  /\ genMode \in {"STATIC", "DYNAMIC"} /\ genOn \in BOOLEAN
  /\ genStep \in {"none", "loop", "aim", "wait", "check", "make", "inject", "count", "ended"}
  /\ genTick \in Nat /\ target \in Nat /\ generated \in Nat /\ stoppedAt \in Int
  /\ IsList(injected)
BeforeStart ==
  /\ genStep # "none" => phase = "started"
  /\ genStep = "none" => /\ injected = <<>> /\ generated = 0
                         /\ stoppedAt = -1 /\ ~genOn
StaticList ==
  genMode = "STATIC" /\ genStep # "none" =>
    /\ expected = Len(descs)
    /\ \A i, j \in DOMAIN descs : i < j => descs[i].arrival <= descs[j].arrival
(* What the thread holds at each of its steps is the next descriptor. *)
HandedInOrder ==
  genMode = "STATIC" =>
    /\ Len(injected) = generated + IF genStep = "count" THEN 1 ELSE 0
    /\ Len(injected) <= Len(descs)
    /\ \A i \in 1 .. Len(injected) :
         /\ injected[i].desc = descs[i]
         /\ injected[i].at \in Nat /\ descs[i].arrival <= injected[i].at
    /\ genStep \in {"aim", "wait", "check", "make", "inject"} => generated < Len(descs)
    /\ genStep \in {"wait", "check", "make", "inject"} => target = descs[generated + 1].arrival
    /\ genStep = "inject" => inHand = descs[generated + 1]
    /\ genStep = "ended" /\ genOn => generated = Len(descs)

(* The thread comes to the test of running_ before its tick only after a   *)
(* stop, and passes it only before one: what it holds then was due.        *)
Due == target <= genTick /\ (stoppedAt >= 0 => target <= stoppedAt)
OnTime(e) ==
  /\ e.due \in Nat /\ e.desc.arrival \in Nat /\ e.at \in Nat
  /\ e.due <= e.desc.arrival /\ e.desc.arrival <= e.at /\ e.at <= genTick
  /\ stoppedAt >= 0 => e.due <= stoppedAt
NothingEarly ==
  /\ genOn => stoppedAt = -1
  /\ stoppedAt <= genTick
  /\ genStep = "aim" => More
  /\ genStep = "check" /\ genOn => target <= genTick
  /\ genStep \in {"make", "inject"} => Due
  /\ genStep = "inject" => /\ inHand.arrival \in Nat
                           /\ target <= inHand.arrival /\ inHand.arrival <= genTick
  /\ \A i \in 1 .. Len(injected) : OnTime(injected[i])
(* Whatever was handed over after the stop was the last thing. *)
LastAfterStop ==
  stoppedAt >= 0 =>
    \A i \in 1 .. Len(injected) :
      injected[i].at > stoppedAt => /\ i = Len(injected)
                                    /\ genStep \in {"count", "loop", "ended"}
GenInv == /\ GenTyped /\ BeforeStart /\ StaticList /\ HandedInOrder
          /\ NothingEarly /\ LastAfterStop
LoaderInv == SetupInv /\ GenInv

LEMMA LoaderInitInv == GeneratorInit => LoaderInv
<1> SUFFICES ASSUME GeneratorInit PROVE LoaderInv
  OBVIOUS
<1>1. SetupInv
  BY SetupInitInv DEF GeneratorInit
<1>2. Len(injected) = 0 /\ IsList(injected)
  BY EmptySeq DEF GeneratorInit, IsList
<1>3. Len(descs) = 0
  BY DEF GeneratorInit, WorkloadInit
<1>4. GenTyped /\ BeforeStart /\ StaticList
  <2>1. GenTyped
    <3>1. genTick \in Nat /\ target \in Nat /\ generated \in Nat /\ stoppedAt \in Int
      BY DEF GeneratorInit
    <3>2. genOn \in BOOLEAN
      BY DEF GeneratorInit
    <3>3. genMode \in {"STATIC", "DYNAMIC"} /\ genStep = "none"
      BY DEF GeneratorInit
    <3> QED
      BY <1>2, <3>1, <3>2, <3>3 DEF GenTyped
  <2>2. BeforeStart /\ StaticList
    BY DEF GeneratorInit, BeforeStart, StaticList
  <2> QED
    BY <2>1, <2>2
<1>5. HandedInOrder /\ NothingEarly /\ LastAfterStop
  BY <1>2, <1>3 DEF GeneratorInit, HandedInOrder, NothingEarly, LastAfterStop
<1> QED
  BY <1>1, <1>4, <1>5 DEF LoaderInv, GenInv

(* Before the generator starts, the setup may do anything. *)
LEMMA WorkloadStepInv ==
  ASSUME LoaderInv, WorkloadNext, UNCHANGED genVars
  PROVE  LoaderInv'
<1>1. SetupInv'
  BY ParseOptionInv, LoadInv, TrimInv DEF LoaderInv, WorkloadNext
<1>2. phase # "started"
  BY DEF WorkloadNext, ParseOption, Load, Trim
<1>3. genStep = "none" /\ injected = <<>> /\ generated = 0 /\ Len(injected) = 0
  BY <1>2 DEF LoaderInv, GenInv, BeforeStart
<1>4. Len(descs') \in Nat
  BY <1>1, LenProperties DEF SetupInv, SetupTyped
<1>5. /\ GenTyped' /\ BeforeStart' /\ StaticList' /\ HandedInOrder'
      /\ NothingEarly' /\ LastAfterStop'
  BY <1>3, <1>4 DEF genVars, LoaderInv, GenInv, GenTyped, BeforeStart, StaticList,
     HandedInOrder, NothingEarly, LastAfterStop
<1> QED
  BY <1>1, <1>5 DEF LoaderInv, GenInv

LEMMA GenStartInv ==
  ASSUME LoaderInv, GenStart
  PROVE  LoaderInv'
<1>1. /\ genStep = "none" /\ genStep' = "loop" /\ genOn' = TRUE
      /\ phase' = "started" /\ argv' = <<>> /\ argIndex' = 1
      /\ UNCHANGED <<config, expected, cast, genMode, genTick, target, inHand, injected,
                     generated, stoppedAt>>
      /\ SetupTyped /\ descs \in Seq(Descriptors)
      /\ injected = <<>> /\ generated = 0 /\ stoppedAt = -1
  BY DEF LoaderInv, GenInv, BeforeStart, GenStart, SetupInv, SetupTyped
<1>2. /\ descs' \in Seq(Descriptors) /\ Len(descs') = Len(descs)
      /\ genMode = "STATIC" =>
           \A i, j \in DOMAIN descs' : i < j => descs'[i].arrival <= descs'[j].arrival
  <2>1. CASE genMode = "STATIC"
    <3>1. descs' \in Sorted(descs)
      BY <2>1 DEF GenStart
    <3> QED
      BY <1>1, <3>1, SortedKeeps
  <2>2. CASE genMode # "STATIC"
    BY <1>1, <2>2 DEF GenStart
  <2> QED
    BY <2>1, <2>2
<1>3. genMode = "STATIC" => expected = Len(descs)
  BY DEF GenStart, LoaderInv, SetupInv, ListTrimmed
<1>4. SetupInv'
  <2>1. <<>> \in Seq(Options) /\ Len(<<>>) = 0
    BY EmptySeq
  <2>2. SetupTyped'
    BY <1>1, <1>2, <2>1 DEF SetupTyped
  <2> QED
    BY <1>1, <2>2 DEF SetupInv, OptionsTaken, ListLoaded, ListTrimmed
<1>5. Len(descs') \in Nat /\ Len(injected) = 0
  BY <1>1, <1>2, LenProperties
<1>6. /\ GenTyped' /\ BeforeStart' /\ StaticList' /\ HandedInOrder'
      /\ NothingEarly' /\ LastAfterStop'
  BY <1>1, <1>2, <1>3, <1>5 DEF LoaderInv, GenInv, GenTyped, BeforeStart, StaticList,
     HandedInOrder, NothingEarly, LastAfterStop
<1> QED
  BY <1>4, <1>6 DEF LoaderInv, GenInv

(* Once it has started, the setup stays as it is. *)
LEMMA SetupStays ==
  ASSUME SetupInv, UNCHANGED setupVars
  PROVE  SetupInv'
BY DEF SetupInv, SetupTyped, OptionsTaken, LastNamed, ListLoaded, ListTrimmed, Legal,
       RowsInOrder, setupVars

LEMMA GenStopTickInv ==
  ASSUME LoaderInv, GenStop \/ GenTick
  PROVE  LoaderInv'
<1>1. /\ UNCHANGED <<setupVars, genMode, genStep, target, inHand, injected, generated>>
      /\ genTick \in Nat /\ genTick' \in {genTick, genTick + 1} /\ genTick' \in Nat
  BY DEF GenStop, GenTick, LoaderInv, GenInv, GenTyped
<1>2. \/ genOn /\ genOn' = FALSE /\ stoppedAt' = genTick /\ genTick' = genTick
      \/ genStep # "none" /\ UNCHANGED <<genOn, stoppedAt>>
  BY DEF GenStop, GenTick, LoaderInv, GenInv, GenTyped
<1>3. UNCHANGED <<phase, expected, descs>>
  BY <1>1 DEF setupVars
<1>4. \A e : OnTime(e) => OnTime(e)'
  BY <1>1, <1>2 DEF OnTime, LoaderInv, GenInv, NothingEarly, GenTyped
<1>5. GenTyped' /\ BeforeStart'
  <2>1. GenTyped /\ BeforeStart
    BY DEF LoaderInv, GenInv
  <2>2. stoppedAt' \in Int /\ genOn' \in BOOLEAN
    <3>1. stoppedAt' \in Int
      BY <1>1, <1>2, <2>1 DEF GenTyped
    <3>2. genOn' \in BOOLEAN
      BY <1>2, <2>1 DEF GenTyped
    <3> QED
      BY <3>1, <3>2
  <2>3. GenTyped'
    BY <1>1, <2>1, <2>2 DEF GenTyped
  <2>4. genStep # "none"
    BY <1>2, <2>1 DEF BeforeStart
  <2> QED
    BY <1>1, <1>3, <2>1, <2>3, <2>4 DEF BeforeStart
<1>6. StaticList'
  BY <1>1, <1>3 DEF LoaderInv, GenInv, StaticList
<1>7. HandedInOrder'
  <2>1. HandedInOrder /\ (genOn' => genOn)
    BY <1>2 DEF LoaderInv, GenInv
  <2> QED
    BY <1>1, <1>3, <2>1 DEF HandedInOrder
<1>8. NothingEarly'
  <2>1. NothingEarly /\ GenTyped
    BY DEF LoaderInv, GenInv
  <2>2. More' <=> More
    BY <1>1, <1>3 DEF More
  <2>3. /\ genOn' => stoppedAt' = -1
        /\ stoppedAt' <= genTick'
        /\ genStep' = "check" /\ genOn' => target' <= genTick'
        /\ genStep' \in {"make", "inject"} => Due'
        /\ genStep' = "inject" => inHand'.arrival <= genTick'
    BY <1>1, <1>2, <2>1 DEF NothingEarly, GenTyped, Due
  <2>4. \A i \in 1 .. Len(injected') : OnTime(injected[i])'
    BY <1>1, <1>4, <2>1 DEF NothingEarly
  <2> QED
    BY <1>1, <2>1, <2>2, <2>3, <2>4 DEF NothingEarly
<1>9. LastAfterStop'
  <2>1. LastAfterStop /\ \A i \in 1 .. Len(injected) : injected[i].at \in Nat
                                                     /\ injected[i].at <= genTick
    BY DEF LoaderInv, GenInv, NothingEarly, OnTime
  <2>2. CASE genOn /\ stoppedAt' = genTick
    BY <1>1, <2>1, <2>2 DEF LastAfterStop
  <2>3. CASE UNCHANGED stoppedAt
    BY <1>1, <2>1, <2>3 DEF LastAfterStop
  <2> QED
    BY <1>2, <2>2, <2>3
<1> QED
  BY <1>1, <1>5, <1>6, <1>7, <1>8, <1>9, SetupStays DEF LoaderInv, GenInv

LEMMA NextTargetIsTick ==
  ASSUME LoaderInv, genStep = "aim"
  PROVE  /\ NextTarget \in Nat
         /\ genMode = "STATIC" => NextTarget = descs[generated + 1].arrival
<1>1. /\ GenTyped /\ HandedInOrder /\ More /\ descs \in Seq(Descriptors)
      /\ generated + 1 \in Nat \ {0}
  BY DEF LoaderInv, GenInv, GenTyped, NothingEarly, SetupInv, SetupTyped
<1>2. CASE genMode = "STATIC"
  <2>1. generated + 1 \in 1 .. Len(descs)
    BY <1>1, <1>2, LenProperties DEF HandedInOrder, GenTyped
  <2>2. descs[generated + 1] \in Descriptors
    BY <1>1, <2>1, ElementOfSeq
  <2> QED
    BY <1>2, <2>2 DEF NextTarget, Descriptors
<1>3. CASE genMode # "STATIC"
  <2> DEFINE w == DynamicProfile
  <2>1. w \in DOMAIN Profiles /\ Profiles[w].total \in Counts /\ Profiles[w].total \in Int
    BY WorkloadAssumption, GeneratorAssumption DEF Counts
  <2>2. Profiles[w].draws[generated + 1] \in [gap : Int, burst : Int]
    <3>1. CASE Profiles[w].total <= 0
      BY <1>1, <3>1, GeneratorAssumption
    <3>2. CASE ~(Profiles[w].total <= 0)
      <4>1. generated + 1 \in 1 .. Profiles[w].total
        BY <1>1, <1>3, <2>1, <3>2 DEF More, GenTyped
      <4> QED
        BY <2>1, <4>1, WorkloadAssumption
    <3> QED
      BY <3>1, <3>2
  <2>3. AtLeastOne(Profiles[w].draws[generated + 1].gap) \in Nat
    BY <2>2 DEF AtLeastOne
  <2> QED
    BY <1>1, <1>3, <2>3 DEF NextTarget, GenTyped
<1> QED
  BY <1>2, <1>3

LEMMA GenThreadInv ==
  ASSUME LoaderInv, GenThread
  PROVE  LoaderInv'
<1>1. /\ UNCHANGED <<setupVars, genMode, genOn, genTick, stoppedAt>>
      /\ genStep # "none" /\ genStep' # "none"
  BY DEF GenThread, GenLoop, Aim, WaitUntil, TestRunning, Make, InjectProcess, CountInjection
<1>2. UNCHANGED <<phase, expected, descs>>
  BY <1>1 DEF setupVars
<1>3. /\ descs \in Seq(Descriptors) /\ Len(descs) \in Nat
      /\ \A i \in 1 .. Len(descs) : descs[i] \in Descriptors /\ descs[i].arrival \in Nat
  <2>1. descs \in Seq(Descriptors)
    BY DEF LoaderInv, SetupInv, SetupTyped
  <2>2. \A i \in 1 .. Len(descs) : descs[i] \in Descriptors
    BY <2>1, ElementOfSeq
  <2> QED
    BY <2>1, <2>2, LenProperties DEF Descriptors
<1>4. GenTyped /\ BeforeStart /\ StaticList /\ HandedInOrder /\ NothingEarly /\ LastAfterStop
  BY DEF LoaderInv, GenInv
<1>5. SetupInv' /\ StaticList'
  BY <1>1, <1>2, <1>4, SetupStays DEF StaticList, LoaderInv
<1>6. \A e : OnTime(e) => OnTime(e)'
  BY <1>1 DEF OnTime
<1>7. UNCHANGED injected => \A i \in 1 .. Len(injected') : OnTime(injected[i])'
  BY <1>4, <1>6 DEF NothingEarly
<1>8. CASE GenLoop
  <2>1. /\ UNCHANGED <<injected, generated, inHand, target>> /\ genStep = "loop"
        /\ genStep' = IF genOn /\ More THEN "aim" ELSE "ended"
    BY <1>8 DEF GenLoop
  <2>2. genStep' \in {"aim", "ended"} /\ (genStep' = "aim" => genOn /\ More /\ More')
    BY <1>1, <1>2, <2>1 DEF More
  <2>3. GenTyped' /\ BeforeStart' /\ NothingEarly'
    BY <1>1, <1>2, <1>4, <1>7, <2>1, <2>2 DEF GenTyped, BeforeStart, NothingEarly
  <2>4. LastAfterStop'
    BY <1>1, <1>4, <2>1, <2>2 DEF LastAfterStop, NothingEarly
  <2>5. genMode = "STATIC" => /\ genStep' = "aim" => generated < Len(descs)
                              /\ genStep' = "ended" /\ genOn => generated = Len(descs)
    BY <1>3, <1>4, <2>1 DEF More, GenTyped, HandedInOrder
  <2>6. HandedInOrder'
    BY <1>1, <1>2, <1>4, <2>1, <2>2, <2>5 DEF HandedInOrder
  <2> QED
    BY <1>5, <2>3, <2>4, <2>6 DEF LoaderInv, GenInv
<1>9. CASE Aim
  <2>1. /\ UNCHANGED <<injected, generated, inHand>> /\ target' = NextTarget
        /\ genStep = "aim" /\ genStep' = "wait"
    BY <1>9 DEF Aim
  <2>2. target' \in Nat /\ (genMode = "STATIC" => target' = descs[generated + 1].arrival)
    BY <2>1, NextTargetIsTick
  <2>3. GenTyped' /\ BeforeStart' /\ NothingEarly'
    BY <1>1, <1>2, <1>4, <1>7, <2>1, <2>2 DEF GenTyped, BeforeStart, NothingEarly
  <2>4. LastAfterStop'
    BY <1>1, <1>4, <2>1 DEF LastAfterStop
  <2>5. HandedInOrder'
    BY <1>1, <1>2, <1>4, <2>1, <2>2 DEF HandedInOrder
  <2> QED
    BY <1>5, <2>3, <2>4, <2>5 DEF LoaderInv, GenInv
<1>10. CASE WaitUntil
  <2>1. /\ UNCHANGED <<injected, generated, inHand, target>>
        /\ genStep = "wait" /\ genStep' = "check" /\ (~genOn \/ genTick >= target)
    BY <1>10 DEF WaitUntil
  <2>2. GenTyped' /\ BeforeStart' /\ NothingEarly'
    BY <1>1, <1>2, <1>4, <1>7, <2>1 DEF GenTyped, BeforeStart, NothingEarly
  <2>3. LastAfterStop'
    BY <1>1, <1>4, <2>1 DEF LastAfterStop
  <2>4. HandedInOrder'
    BY <1>1, <1>2, <1>4, <2>1 DEF HandedInOrder
  <2> QED
    BY <1>5, <2>2, <2>3, <2>4 DEF LoaderInv, GenInv
<1>11. CASE TestRunning
  <2>1. /\ UNCHANGED <<injected, generated, inHand, target>>
        /\ genStep = "check" /\ genStep' = IF genOn THEN "make" ELSE "ended"
    BY <1>11 DEF TestRunning
  <2>2. genStep' = "make" => Due'
    BY <1>1, <1>4, <2>1 DEF Due, NothingEarly
  <2>3. GenTyped' /\ BeforeStart' /\ NothingEarly'
    BY <1>1, <1>2, <1>4, <1>7, <2>1, <2>2 DEF GenTyped, BeforeStart, NothingEarly
  <2>4. LastAfterStop'
    BY <1>1, <1>4, <2>1 DEF LastAfterStop
  <2>5. HandedInOrder'
    BY <1>1, <1>2, <1>4, <2>1 DEF HandedInOrder
  <2> QED
    BY <1>5, <2>3, <2>4, <2>5 DEF LoaderInv, GenInv
<1>12. CASE Make
  <2>1. /\ UNCHANGED <<injected, generated, target>>
        /\ genStep = "make" /\ genStep' = "inject"
        /\ inHand' = IF genMode = "STATIC" THEN descs[generated + 1] ELSE Drawn
    BY <1>12 DEF Make
  <2>2. Due /\ Due' /\ target \in Nat /\ genTick \in Nat
    BY <1>1, <1>4, <2>1 DEF NothingEarly, Due, GenTyped
  <2>3. /\ inHand'.arrival \in Nat
        /\ target <= inHand'.arrival /\ inHand'.arrival <= genTick
    <3>1. CASE genMode = "STATIC"
      <4>1. inHand'.arrival = target
        BY <1>4, <2>1, <3>1 DEF HandedInOrder
      <4> QED
        BY <2>2, <4>1 DEF Due
    <3>2. CASE genMode # "STATIC"
      <4>1. inHand'.arrival = genTick
        BY <2>1, <3>2 DEF Drawn, Descriptor
      <4> QED
        BY <2>2, <4>1 DEF Due
    <3> QED
      BY <3>1, <3>2
  <2>4. GenTyped' /\ BeforeStart'
    BY <1>1, <1>2, <1>4, <2>1 DEF GenTyped, BeforeStart
  <2>5. NothingEarly'
    BY <1>1, <1>4, <1>7, <2>1, <2>2, <2>3 DEF NothingEarly
  <2>6. LastAfterStop'
    BY <1>1, <1>4, <2>1 DEF LastAfterStop
  <2>7. HandedInOrder'
    BY <1>1, <1>2, <1>4, <2>1 DEF HandedInOrder
  <2> QED
    BY <1>5, <2>4, <2>5, <2>6, <2>7 DEF LoaderInv, GenInv
<1>13. CASE InjectProcess
  <2> DEFINE e == [desc |-> inHand, at |-> genTick, due |-> target]
             m == Len(injected)
  <2>1. /\ injected' = Append(injected, e)
        /\ genStep = "inject" /\ genStep' = "count" /\ UNCHANGED <<generated, target>>
    BY <1>13 DEF InjectProcess
  <2>2. e.desc = inHand /\ e.at = genTick /\ genTick \in Nat /\ OnTime(e)
    BY <1>4, <2>1 DEF GenTyped, NothingEarly, OnTime, Due
  <2> HIDE DEF e
  <2>3. /\ IsList(injected')
        /\ m \in Nat /\ Len(injected') = m + 1
        /\ \A i \in 1 .. m : injected'[i] = injected[i]
        /\ injected'[m + 1] = e
    BY <1>4, <2>1, AppendToList DEF GenTyped, m
  <2>4. /\ \A i \in 1 .. m : OnTime(injected[i])
        /\ stoppedAt >= 0 => \A i \in 1 .. m : ~(injected[i].at > stoppedAt)
    BY <1>4, <2>1 DEF NothingEarly, LastAfterStop, m
  <2> HIDE DEF m
  <2>5. \A i \in 1 .. m + 1 : i \in 1 .. m \/ i = m + 1
    BY <2>3
  <2>6. GenTyped' /\ BeforeStart'
    BY <1>1, <1>2, <1>4, <2>1, <2>3 DEF GenTyped, BeforeStart
  <2>7. \A i \in 1 .. Len(injected') : OnTime(injected[i])'
    BY <1>6, <2>2, <2>3, <2>4, <2>5
  <2>8. NothingEarly'
    BY <1>1, <1>4, <2>1, <2>7 DEF NothingEarly
  <2>9. LastAfterStop'
    BY <1>1, <2>1, <2>3, <2>4, <2>5 DEF LastAfterStop
  <2>10. HandedInOrder'
    <3> SUFFICES ASSUME genMode = "STATIC" PROVE HandedInOrder'
      BY <1>1 DEF HandedInOrder
    <3>1. /\ m = generated /\ generated < Len(descs) /\ inHand = descs[m + 1]
          /\ generated \in Nat
          /\ \A i \in 1 .. m : /\ injected[i].desc = descs[i]
                              /\ injected[i].at \in Nat
                              /\ descs[i].arrival <= injected[i].at
      BY <1>4, <2>1 DEF HandedInOrder, GenTyped, m
    <3>2. /\ e.desc = descs[m + 1] /\ e.at \in Nat /\ descs[m + 1].arrival <= e.at
      BY <2>2, <3>1 DEF OnTime
    <3>3. \A i \in 1 .. Len(injected') :
            /\ injected'[i].desc = descs[i] /\ injected'[i].at \in Nat
            /\ descs[i].arrival <= injected'[i].at
      BY <2>3, <2>5, <3>1, <3>2
    <3>4. Len(injected') = generated + 1 /\ Len(injected') <= Len(descs)
      BY <1>3, <2>3, <3>1
    <3> QED
      BY <1>1, <1>2, <2>1, <3>3, <3>4 DEF HandedInOrder
  <2> QED
    BY <1>5, <2>6, <2>8, <2>9, <2>10 DEF LoaderInv, GenInv
<1>14. CASE CountInjection
  <2>1. /\ generated' = generated + 1 /\ genStep = "count" /\ genStep' = "loop"
        /\ UNCHANGED <<injected, target, inHand>>
    BY <1>14 DEF CountInjection
  <2>2. GenTyped' /\ BeforeStart' /\ NothingEarly'
    BY <1>1, <1>2, <1>4, <1>7, <2>1 DEF GenTyped, BeforeStart, NothingEarly
  <2>3. LastAfterStop'
    BY <1>1, <1>4, <2>1 DEF LastAfterStop
  <2>4. HandedInOrder'
    BY <1>1, <1>2, <1>4, <2>1 DEF HandedInOrder, GenTyped
  <2> QED
    BY <1>5, <2>2, <2>3, <2>4 DEF LoaderInv, GenInv
<1> QED
  BY <1>8, <1>9, <1>10, <1>11, <1>12, <1>13, <1>14 DEF GenThread

LEMMA LoaderStepInv == LoaderInv /\ [GeneratorNext]_loaderVars => LoaderInv'
<1> SUFFICES ASSUME LoaderInv, [GeneratorNext]_loaderVars PROVE LoaderInv'
  OBVIOUS
<1>1. CASE UNCHANGED loaderVars
  <2>1. UNCHANGED setupVars /\ UNCHANGED genVars
    BY <1>1 DEF loaderVars
  <2>2. UNCHANGED <<phase, expected, descs>>
    BY <2>1 DEF setupVars
  <2>3. GenInv'
    BY <2>1, <2>2 DEF LoaderInv, GenInv, GenTyped, BeforeStart, StaticList, HandedInOrder,
       NothingEarly, LastAfterStop, OnTime, Due, More, genVars
  <2> QED
    BY <2>1, <2>3, SetupStays DEF LoaderInv
<1> QED
  BY <1>1, WorkloadStepInv, GenStartInv, GenStopTickInv, GenThreadInv DEF GeneratorNext

LEMMA AlwaysLoaderInv == LoaderSpec => []LoaderInv
BY LoaderInitInv, LoaderStepInv, PTL DEF LoaderSpec

-----------------------------------------------------------------------------
(* Workload!CountIsRespected: whatever the order of the options, the last  *)
(* --count bounds the number of processes, and is the number of a profile  *)
(* named before it.                                                        *)
THEOREM LastCountCounts == LoaderSpec => []CountIsRespected
<1>1. LoaderInv => CountIsRespected
  <2> SUFFICES ASSUME LoaderInv, phase = "trimmed", NEW i \in DOMAIN argv,
                      argv[i].name = "count", argv[i].value > 0,
                      "count" \notin {argv[j].name : j \in i + 1 .. Len(argv)}
               PROVE  /\ expected <= argv[i].value
                      /\ config.csv = NoFile
                           /\ "workload" \notin {argv[j].name : j \in i + 1 .. Len(argv)}
                             => expected = argv[i].value
    BY DEF CountIsRespected
  <2>1. /\ DOMAIN argv = 1 .. Len(argv) /\ Len(argv) \in Nat /\ argIndex = Len(argv) + 1
        /\ argIndex - 1 = Len(argv)
    BY LenProperties DEF LoaderInv, SetupInv, SetupTyped, ListTrimmed
  <2>2. i \in 1 .. argIndex - 1 /\ LastNamed(i, "count")
    BY <2>1 DEF LastNamed
  <2>3. config.max = argv[i].value
    BY <2>2 DEF LoaderInv, SetupInv, OptionsTaken
  <2>4. "workload" \notin {argv[j].name : j \in i + 1 .. Len(argv)} => config.total = argv[i].value
    BY <2>1, <2>2 DEF LoaderInv, SetupInv, OptionsTaken, LastNamed
  <2> QED
    BY <2>3, <2>4 DEF LoaderInv, SetupInv, ListTrimmed
<1> QED
  BY <1>1, AlwaysLoaderInv, PTL

(* Workload!GeneratedIsLegal: for all draws and all profiles, increasing   *)
(* arrivals and bursts in the range of the profile.                        *)
THEOREM GeneratedAreLegal == LoaderSpec => []GeneratedIsLegal
<1>1. LoaderInv => GeneratedIsLegal
  BY DEF LoaderInv, SetupInv, ListLoaded, ListTrimmed, Legal, GeneratedIsLegal
<1> QED
  BY <1>1, AlwaysLoaderInv, PTL

(* Workload!CsvKeepsRows: from_csv gives the rows of any file, in their    *)
(* order, and reads what to_csv wrote as it was.                           *)
THEOREM FilesKeepRows == LoaderSpec => []CsvKeepsRows
<1>1. LoaderInv => CsvKeepsRows
  BY RoundTrip DEF LoaderInv, SetupInv, SetupTyped, ListLoaded, CsvKeepsRows
<1> QED
  BY <1>1, AlwaysLoaderInv, PTL

(* Generator!InjectsTheWorkload: each descriptor is handed over once, in   *)
(* the order of arrival, not before its tick, and unless stopped as many   *)
(* as the controller waits for.                                            *)
THEOREM WorkloadIsInjected == LoaderSpec => []InjectsTheWorkload
<1>1. LoaderInv => InjectsTheWorkload
  <2> SUFFICES ASSUME LoaderInv, genMode = "STATIC" PROVE InjectsTheWorkload
    BY DEF InjectsTheWorkload
  <2>1. GenTyped /\ BeforeStart /\ StaticList /\ HandedInOrder
    BY DEF LoaderInv, GenInv
  <2>2. Len(injected) \in Nat /\ DOMAIN injected = 1 .. Len(injected)
    BY <2>1, LenProperties DEF GenTyped, IsList
  <2>3. Len(descs) \in Nat /\ DOMAIN descs = 1 .. Len(descs)
        /\ \A i \in 1 .. Len(descs) : descs[i].arrival \in Nat
    <3>1. descs \in Seq(Descriptors)
      BY DEF LoaderInv, SetupInv, SetupTyped
    <3>2. \A i \in 1 .. Len(descs) : descs[i] \in Descriptors
      BY <3>1, ElementOfSeq
    <3> QED
      BY <3>1, <3>2, LenProperties DEF Descriptors
  <2>4. ASSUME NEW i \in DOMAIN injected
        PROVE  /\ injected[i].desc = descs[i] /\ injected[i].at >= descs[i].arrival
               /\ i > 1 => injected[i - 1].desc.arrival <= injected[i].desc.arrival
    <3>1. i \in 1 .. Len(descs) /\ i \in 1 .. Len(injected)
      BY <2>1, <2>2, <2>3 DEF HandedInOrder
    <3>2. injected[i].desc = descs[i] /\ injected[i].at \in Nat /\ descs[i].arrival <= injected[i].at
      BY <2>1, <3>1 DEF HandedInOrder
    <3>3. ASSUME i > 1 PROVE injected[i - 1].desc.arrival <= injected[i].desc.arrival
      <4>1. i - 1 \in 1 .. Len(descs) /\ i - 1 \in 1 .. Len(injected) /\ i - 1 < i
        BY <2>2, <2>3, <3>1, <3>3
      <4>2. genStep # "none"
        BY <2>1, <2>2 DEF BeforeStart
      <4>3. descs[i - 1].arrival <= descs[i].arrival
        BY <2>1, <2>3, <3>1, <4>1, <4>2 DEF StaticList
      <4> QED
        BY <2>1, <3>2, <4>1, <4>3 DEF HandedInOrder
    <3> QED
      BY <2>3, <3>1, <3>2, <3>3
  <2>5. genStep = "ended" /\ genOn => Len(injected) = expected /\ Pending = 0
    BY <2>1, <2>3 DEF HandedInOrder, StaticList, Pending, GenTyped
  <2>6. Pending = Len(descs) - Len(injected) + IF genStep = "count" THEN 1 ELSE 0
    <3>1. generated \in Nat /\ Len(injected) = generated + IF genStep = "count" THEN 1 ELSE 0
      BY <2>1 DEF HandedInOrder, GenTyped
    <3>2. CASE genStep = "count"
      BY <2>2, <2>3, <3>1, <3>2 DEF Pending
    <3>3. CASE genStep # "count"
      BY <2>2, <2>3, <3>1, <3>3 DEF Pending
    <3> QED
      BY <3>2, <3>3
  <2> QED
    BY <2>4, <2>5, <2>6 DEF InjectsTheWorkload
<1> QED
  BY <1>1, AlwaysLoaderInv, PTL

(* Generator!NoneEarlyAfterStop: in both modes, a stop, which cuts a wait  *)
(* short, lets at most one more process through, and none whose wait was   *)
(* not over when it came; no arrival is before the tick waited for or      *)
(* after the hand-over.                                                    *)
THEOREM StopLetsOneThrough == LoaderSpec => []NoneEarlyAfterStop
<1>1. LoaderInv => NoneEarlyAfterStop
  <2> SUFFICES ASSUME LoaderInv, NEW i \in DOMAIN injected
               PROVE  /\ injected[i].due <= injected[i].desc.arrival
                      /\ injected[i].desc.arrival <= injected[i].at
                      /\ stoppedAt >= 0 => /\ injected[i].due <= stoppedAt
                                           /\ injected[i].at > stoppedAt => i = Len(injected)
    BY DEF NoneEarlyAfterStop
  <2>1. i \in 1 .. Len(injected)
    BY LenProperties DEF LoaderInv, GenInv, GenTyped, IsList
  <2>2. OnTime(injected[i])
    BY <2>1 DEF LoaderInv, GenInv, NothingEarly
  <2> QED
    BY <2>1, <2>2 DEF LoaderInv, GenInv, OnTime, LastAfterStop
<1> QED
  BY <1>1, AlwaysLoaderInv, PTL
=============================================================================
