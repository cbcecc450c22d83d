------------------------- MODULE FluidityAppsProofs -------------------------
(***************************************************************************)
(* Machine-checked proofs about FluidityApps, for any components, nodes,   *)
(* plans and faults: the tables of the controller are well formed, no pod  *)
(* escapes them, each can be moved or removed later, and what is reported  *)
(* of a completed plan is what became of the pods.                         *)
(***************************************************************************)
EXTENDS FluidityApps, TLAPS, FiniteSetTheorems

-----------------------------------------------------------------------------
(* Numbers and sequences. *)

\* A set of numbers has a least one.
LEMMA NatMin ==
  ASSUME NEW T, T \subseteq Nat, T # {}
  PROVE  \E x \in T : \A y \in T : x <= y
<1>1. PICK x \in T : \A y \in T : ~(<<y, x>> \in OpToRel(<, Nat))
  BY NatLessThanWellFounded, WFMin
<1>2. \A y \in T : ~(y < x)
  BY <1>1 DEF OpToRel
<1> QED
  BY <1>2

LEMMA EmptyIn ==
  ASSUME NEW S
  PROVE  << >> \in Seq(S)
OBVIOUS

LEMMA Appended ==
  ASSUME NEW S, NEW s \in Seq(S), NEW e \in S
  PROVE  /\ Append(s, e) \in Seq(S) /\ Len(s) \in Nat /\ Len(Append(s, e)) = Len(s) + 1
         /\ DOMAIN s = 1..Len(s) /\ DOMAIN Append(s, e) = 1..(Len(s) + 1)
         /\ \A i \in DOMAIN s : Append(s, e)[i] = s[i]
         /\ Append(s, e)[Len(s) + 1] = e
OBVIOUS

LEMMA Shortened ==
  ASSUME NEW S, NEW s \in Seq(S), s # << >>
  PROVE  /\ Tail(s) \in Seq(S) /\ Len(s) \in Nat /\ Len(s) > 0 /\ Head(s) = s[1] /\ s[1] \in S
         /\ DOMAIN s = 1..Len(s) /\ DOMAIN Tail(s) = 1..(Len(s) - 1) /\ Len(Tail(s)) = Len(s) - 1
         /\ 1 \in DOMAIN s
         /\ \A i \in DOMAIN Tail(s) : i + 1 \in DOMAIN s /\ Tail(s)[i] = s[i + 1]
OBVIOUS

LEMMA Concatenates ==
  ASSUME NEW S, NEW s \in Seq(S), NEW t \in Seq(S)
  PROVE  s \o t \in Seq(S)
OBVIOUS

LEMMA SeqGrows ==
  ASSUME NEW S, NEW T, S \subseteq T
  PROVE  Seq(S) \subseteq Seq(T)
OBVIOUS

\* Leaving an element out.
LEMMA Removed ==
  ASSUME NEW S, NEW s \in Seq(S), NEW i \in DOMAIN s
  PROVE  /\ RemoveAt(s, i) \in Seq(S) /\ Len(RemoveAt(s, i)) = Len(s) - 1
         /\ \A j \in DOMAIN RemoveAt(s, i) :
              RemoveAt(s, i)[j] = IF j < i THEN s[j] ELSE s[j + 1]
<1>1. Len(s) \in Nat /\ i \in 1..Len(s) /\ \A j \in 1..Len(s) : s[j] \in S
  OBVIOUS
<1>2. PICK f : f = SubSeq(s, 1, i - 1)
  OBVIOUS
<1>3. PICK l : l = SubSeq(s, i + 1, Len(s))
  OBVIOUS
<1>4. f \in Seq(S) /\ Len(f) = i - 1 /\ \A j \in 1..(i - 1) : f[j] = s[j]
  BY <1>1, <1>2
<1>5. l \in Seq(S) /\ Len(l) = Len(s) - i /\ \A j \in 1..(Len(s) - i) : l[j] = s[i + j]
  BY <1>1, <1>3
<1>6. f \o l \in Seq(S) /\ Len(f \o l) = Len(s) - 1
  BY <1>1, <1>4, <1>5
<1>7. \A j \in 1..(Len(s) - 1) : (f \o l)[j] = IF j < i THEN s[j] ELSE s[j + 1]
  <2> TAKE j \in 1..(Len(s) - 1)
  <2>1. (f \o l)[j] = IF j <= Len(f) THEN f[j] ELSE l[j - Len(f)]
    BY <1>1, <1>4, <1>5, SMTT(30)
  <2>2. CASE j < i
    BY <2>1, <2>2, <1>1, <1>4
  <2>3. CASE ~(j < i)
    <3>1. l[j - Len(f)] = s[j + 1]
      BY <2>3, <1>1, <1>4, <1>5, SMTT(30)
    <3> QED
      BY <2>1, <2>3, <3>1, <1>1, <1>4
  <2> QED
    BY <2>2, <2>3
<1>8. RemoveAt(s, i) = f \o l
  BY <1>2, <1>3 DEF RemoveAt
<1>9. DOMAIN RemoveAt(s, i) = 1..(Len(s) - 1)
  BY <1>6, <1>8
<1> QED
  BY <1>6, <1>7, <1>8, <1>9

-----------------------------------------------------------------------------
(* Filter: a recursive function over the sequence. *)

\* There is a function that is built up from << >> by the given steps.
LEMMA Recursion ==
  ASSUME NEW A, NEW base \in A, NEW n \in Nat, NEW step \in [1..n -> [A -> A]]
  PROVE  \E g \in [0..n -> A] : g[0] = base /\ \A i \in 1..n : g[i] = step[i][g[i - 1]]
<1> DEFINE Builds(m) == \E g \in [0..m -> A] :
             g[0] = base /\ \A i \in 1..m : g[i] = step[i][g[i - 1]]
           Bad == {m \in 0..n : ~Builds(m)}
<1>1. ASSUME Bad = {}
      PROVE  Builds(n)
  <2> HIDE DEF Builds
  <2> QED
    BY <1>1
<1>2. Builds(0)
  <2> DEFINE h == [i \in 0..0 |-> base]
  <2>1. h \in [0..0 -> A] /\ h[0] = base
    OBVIOUS
  <2>2. 1..0 = {}
    OBVIOUS
  <2> QED
    BY <2>1, <2>2
<1>3. ASSUME NEW m \in 0..n, m # 0, Builds(m - 1)
      PROVE  Builds(m)
  <2>1. PICK g \in [0..(m - 1) -> A] :
          g[0] = base /\ \A i \in 1..(m - 1) : g[i] = step[i][g[i - 1]]
    BY <1>3
  <2>2. step[m][g[m - 1]] \in A
    BY <1>3
  <2> DEFINE h == [i \in 0..m |-> IF i = m THEN step[m][g[m - 1]] ELSE g[i]]
  <2>3. h \in [0..m -> A]
    BY <2>2, <1>3
  <2>4. h[0] = base
    BY <2>1, <1>3
  <2>5. ASSUME NEW i \in 1..m
        PROVE  h[i] = step[i][h[i - 1]]
    <3>1. i - 1 \in 0..m /\ i - 1 # m /\ i \in 0..m
      BY <1>3
    <3>2. h[i - 1] = g[i - 1]
      BY <3>1
    <3>3. CASE i = m
      BY <3>1, <3>2, <3>3
    <3>4. CASE i # m
      <4>1. i \in 1..(m - 1)
        BY <3>4, <1>3
      <4> QED
        BY <4>1, <3>1, <3>2, <3>4, <2>1
    <3> QED
      BY <3>3, <3>4
  <2> HIDE DEF h
  <2> QED
    BY <2>3, <2>4, <2>5
<1> HIDE DEF Builds
<1>4. ASSUME Bad # {}
      PROVE  FALSE
  <2>1. Bad \subseteq Nat
    OBVIOUS
  <2>2. PICK m \in Bad : \A k \in Bad : m <= k
    BY <2>1, <1>4, NatMin
  <2>3. m \in 0..n /\ ~Builds(m)
    OBVIOUS
  <2>4. m # 0
    BY <2>3, <1>2
  <2>5. m - 1 \in 0..n /\ m - 1 \notin Bad
    BY <2>2, <2>3, <2>4
  <2> QED
    BY <2>3, <2>4, <2>5, <1>3
<1> QED
  BY <1>1, <1>4 DEF Builds

\* Filter keeps the elements of T, and nothing else.
LEMMA Filtered ==
  ASSUME NEW S, NEW T, NEW s \in Seq(S)
  PROVE  /\ Filter(s, T) \in Seq(S)
         /\ \A j \in DOMAIN Filter(s, T) :
              Filter(s, T)[j] \in T /\ \E i \in DOMAIN s : Filter(s, T)[j] = s[i]
         /\ \A i \in DOMAIN s : s[i] \in T => \E j \in DOMAIN Filter(s, T) : Filter(s, T)[j] = s[i]
<1> DEFINE n == Len(s)
           Body(f) == [i \in 0..n |-> IF i = 0 THEN << >>
                                      ELSE IF s[i] \in T THEN Append(f[i - 1], s[i]) ELSE f[i - 1]]
           step == [i \in 1..n |-> [a \in Seq(S) |-> IF s[i] \in T THEN Append(a, s[i]) ELSE a]]
<1>1. n \in Nat /\ DOMAIN s = 1..n /\ \A i \in 1..n : s[i] \in S
  OBVIOUS
<1>2. step \in [1..n -> [Seq(S) -> Seq(S)]]
  BY <1>1
<1>3. PICK g \in [0..n -> Seq(S)] :
        g[0] = << >> /\ \A i \in 1..n : g[i] = step[i][g[i - 1]]
  <2>1. PICK A, base, h, m :
          A = Seq(S) /\ base = << >> /\ h = step /\ m = n
    OBVIOUS
  <2>2. base \in A /\ m \in Nat /\ h \in [1..m -> [A -> A]]
    BY <1>1, <1>2, <2>1, EmptyIn
  <2>3. \E g \in [0..m -> A] : g[0] = base /\ \A i \in 1..m : g[i] = h[i][g[i - 1]]
    BY <2>2, Recursion
  <2> HIDE DEF step, n
  <2> QED
    BY <2>1, <2>3
<1>4. ASSUME NEW i \in 1..n
      PROVE  g[i] = IF s[i] \in T THEN Append(g[i - 1], s[i]) ELSE g[i - 1]
  <2>1. g[i - 1] \in Seq(S)
    <3> HIDE DEF n, step
    <3> QED
      BY <1>1
  <2>2. g[i] = step[i][g[i - 1]]
    BY <1>3
  <2>3. \A a \in Seq(S) : step[i][a] = IF s[i] \in T THEN Append(a, s[i]) ELSE a
    OBVIOUS
  <2> HIDE DEF step, n
  <2> QED
    BY <2>1, <2>2, <2>3
<1> HIDE DEF n, step
<1>5. g = Body(g)
  <2>1. g[0] = Body(g)[0]
    BY <1>1, <1>3
  <2>2. \A i \in 0..n : i # 0 => i \in 1..n
    BY <1>1
  <2>3. \A i \in 1..n : i \in 0..n /\ i # 0
    BY <1>1
  <2>4. \A i \in 1..n : g[i] = Body(g)[i]
    BY <1>4, <2>3
  <2>5. \A i \in 0..n : g[i] = Body(g)[i]
    BY <2>1, <2>2, <2>4
  <2> HIDE DEF Body
  <2>6. Body(g) = [i \in 0..n |-> Body(g)[i]]
    BY DEF Body
  <2>7. g = [i \in 0..n |-> g[i]]
    BY <1>3
  <2> QED
    BY <2>5, <2>6, <2>7
<1>6. PICK f : f = Body(f) /\ Filter(s, T) = f[n]
  <2>1. Filter(s, T) = (CHOOSE f : f = Body(f))[n]
    BY DEF Filter, n
  <2> QED
    BY <2>1, <1>5
<1> HIDE DEF Body
<1>7. f[0] = << >> /\ \A i \in 1..n : f[i] = IF s[i] \in T THEN Append(f[i - 1], s[i]) ELSE f[i - 1]
  <2>1. \A i \in 0..n : f[i] = IF i = 0 THEN << >>
                               ELSE IF s[i] \in T THEN Append(f[i - 1], s[i]) ELSE f[i - 1]
    BY <1>6 DEF Body
  <2> QED
    BY <1>1, <2>1
<1> DEFINE Good(m) ==
      /\ f[m] \in Seq(S)
      /\ \A j \in DOMAIN f[m] : f[m][j] \in T /\ \E i \in 1..m : f[m][j] = s[i]
      /\ \A i \in 1..m : s[i] \in T => \E j \in DOMAIN f[m] : f[m][j] = s[i]
    Bad == {m \in 0..n : ~Good(m)}
<1>8. Good(0)
  BY <1>7
<1>9. ASSUME NEW m \in 1..n, Good(m - 1)
      PROVE  Good(m)
  <2>1. CASE s[m] \notin T
    <3>1. f[m] = f[m - 1]
      BY <2>1, <1>7
    <3>2. \A i \in 1..m : s[i] \in T => i \in 1..(m - 1)
      BY <2>1, <1>1
    <3>3. \A i \in 1..(m - 1) : i \in 1..m
      BY <1>1
    <3> QED
      BY <3>1, <3>2, <3>3, <1>9
  <2>2. CASE s[m] \in T
    <3>1. f[m] = Append(f[m - 1], s[m]) /\ s[m] \in S
      BY <2>2, <1>7, <1>1
    <3>2. /\ f[m] \in Seq(S) /\ DOMAIN f[m - 1] = 1..Len(f[m - 1]) /\ Len(f[m - 1]) \in Nat
          /\ DOMAIN f[m] = 1..(Len(f[m - 1]) + 1)
          /\ \A j \in DOMAIN f[m - 1] : f[m][j] = f[m - 1][j]
          /\ f[m][Len(f[m - 1]) + 1] = s[m]
      BY <3>1, <1>9, Appended, SMTT(30)
    <3>3. ASSUME NEW j \in DOMAIN f[m]
          PROVE  f[m][j] \in T /\ \E i \in 1..m : f[m][j] = s[i]
      <4>1. CASE j \in DOMAIN f[m - 1]
        <5>1. f[m][j] = f[m - 1][j]
          BY <3>2, <4>1
        <5>2. \A i \in 1..(m - 1) : i \in 1..m
          BY <1>1
        <5> QED
          BY <5>1, <5>2, <4>1, <1>9
      <4>2. CASE j \notin DOMAIN f[m - 1]
        <5>1. j = Len(f[m - 1]) + 1
          BY <3>2, <4>2
        <5> QED
          BY <5>1, <3>2, <2>2
      <4> QED
        BY <4>1, <4>2
    <3>4. \A i \in 1..m : s[i] \in T => \E j \in DOMAIN f[m] : f[m][j] = s[i]
      <4>1. ASSUME NEW i \in 1..m, s[i] \in T, i # m
            PROVE  \E j \in DOMAIN f[m] : f[m][j] = s[i]
        <5>1. i \in 1..(m - 1)
          BY <4>1, <1>1
        <5>2. PICK j \in DOMAIN f[m - 1] : f[m - 1][j] = s[i]
          BY <4>1, <5>1, <1>9
        <5>3. j \in DOMAIN f[m]
          BY <3>2
        <5> QED
          BY <5>2, <5>3, <3>2
      <4>2. Len(f[m - 1]) + 1 \in DOMAIN f[m]
        BY <3>2
      <4> QED
        BY <4>1, <4>2, <3>2
    <3> QED
      BY <3>2, <3>3, <3>4
  <2> QED
    BY <2>1, <2>2
<1> HIDE DEF Good
<1>10. ASSUME Bad # {}
       PROVE  FALSE
  <2>1. Bad \subseteq Nat
    BY <1>1
  <2>2. PICK m \in Bad : \A k \in Bad : m <= k
    BY <2>1, <1>10, NatMin
  <2>3. m \in 0..n /\ ~Good(m) /\ m # 0
    BY <1>8
  <2>4. m - 1 \in 0..n /\ m - 1 \notin Bad
    BY <2>2, <2>3, <1>1
  <2> QED
    BY <2>3, <2>4, <1>9, <1>1
<1>11. Good(n)
  <2>1. n \in 0..n
    BY <1>1
  <2> QED
    BY <1>10, <2>1
<1> QED
  BY <1>11, <1>6, <1>1 DEF Good

-----------------------------------------------------------------------------
(* The tables of an application. *)

LEMMA Bounds ==
  NumComps \in Nat /\ MaxPlans \in Nat /\ MaxResources \in Nat /\ MaxFaults \in Nat
BY ConstantAssumption

LEMMA StepsAre ==
  ASSUME NEW plan \in InitialPlans \union Plans
  PROVE  plan \in Seq(Steps)
BY ConstantAssumption

LEMMA NewAppType ==
  ASSUME NEW here \in BOOLEAN
  PROVE  NewApp(here) \in Apps
<1>1. \A S : [c \in Comps |-> << >>] \in [Comps -> Seq(S)]
  BY EmptyIn
<1> QED
  BY <1>1 DEF NewApp, Apps

\* Fresh names are added at the end: what was well formed stays so.
LEMMA NamesGrow ==
  ASSUME next_pod \in Nat, next_pod' \in Nat, next_pod <= next_pod'
  PROVE  /\ Names \subseteq Names' /\ Manifests \subseteq Manifests'
         /\ Apps \subseteq Apps' /\ Reports \subseteq Reports'
<1>1. Names \subseteq Names'
  BY DEF Names
<1>2. Manifests \subseteq Manifests'
  BY <1>1 DEF Manifests
<1>3. Seq(Manifests) \subseteq Seq(Manifests')
  BY <1>2, SeqGrows
<1>4. Apps \subseteq Apps'
  <2> DEFINE M == Seq(Manifests)
             N == Seq(Manifests')
             H == Seq(Entries)
  <2>1. M \subseteq N
    BY <1>3
  <2>2. Apps = [known : {TRUE}, here : BOOLEAN, hosts : [Comps -> H],
                manifests : [Comps -> M], pod_names : SUBSET Names]
    BY DEF Apps
  <2>3. Apps' = [known : {TRUE}, here : BOOLEAN, hosts : [Comps -> H],
                 manifests : [Comps -> N], pod_names : SUBSET Names']
    BY DEF Apps
  <2> HIDE DEF M, N, H
  <2> QED
    BY <1>1, <2>1, <2>2, <2>3
<1>5. Reports \subseteq Reports'
  BY <1>1 DEF Reports
<1> QED
  BY <1>1, <1>2, <1>4, <1>5

LEMMA WorkersGrow ==
  ASSUME next_pod \in Nat, next_pod' \in Nat, next_pod <= next_pod',
         DOMAIN answers \subseteq DOMAIN answers'
  PROVE  Workers \subseteq Workers' /\ Plan \subseteq Plan'
<1>1. Names \subseteq Names' /\ Reports \subseteq Reports'
  BY NamesGrow
<1> DEFINE S == Seq(Steps)
<1>2. Plan = [op : {"PLAN_SUBMITTED"}, id : DOMAIN answers, initial : BOOLEAN, steps : S]
  BY DEF Plan
<1>3. Plan' = [op : {"PLAN_SUBMITTED"}, id : DOMAIN answers', initial : BOOLEAN, steps : S]
  BY DEF Plan
<1> HIDE DEF S
<1>4. Plan \subseteq Plan'
  BY <1>2, <1>3
<1>5. Workers \subseteq Workers'
  BY <1>1 DEF Workers
<1> QED
  BY <1>4, <1>5

\* The same sets, of any names.
ManifestsOf(N) == [name : N, host : Hosts, status : {"PENDING", "ACTIVE"}, shared : BOOLEAN]
AppsOf(N) == [known : {TRUE}, here : BOOLEAN, hosts : [Comps -> Seq(Entries)],
              manifests : [Comps -> Seq(ManifestsOf(N))], pod_names : SUBSET N]
ReportsOf(N) == [placed : SUBSET N, removed : SUBSET N, modified : SUBSET N]
States == {"reply", "deploying", "acting", "changing", "creating", "deleting"}
WorkersOf(N, ids) ==
  [at : States, id : ids, initial : BOOLEAN, steps : Seq(Steps), todo : Seq(Steps),
   pod : SUBSET N, status : {"none", "COMPLETED", "FAILED"}, report : ReportsOf(N)]

LEMMA Forms ==
  /\ Manifests = ManifestsOf(Names) /\ Manifests' = ManifestsOf(Names')
  /\ Apps = AppsOf(Names) /\ Apps' = AppsOf(Names')
  /\ Workers = WorkersOf(Names, DOMAIN answers) /\ Workers' = WorkersOf(Names', DOMAIN answers')
BY DEF Manifests, ManifestsOf, Apps, AppsOf, Reports, ReportsOf, Workers, WorkersOf, States

LEMMA AppFields ==
  ASSUME NEW N, NEW a \in AppsOf(N)
  PROVE  /\ a.known /\ a.here \in BOOLEAN /\ a.hosts \in [Comps -> Seq(Entries)]
         /\ a.manifests \in [Comps -> Seq(ManifestsOf(N))] /\ a.pod_names \subseteq N
BY DEF AppsOf

LEMMA KnownApp ==
  ASSUME TypeOK, app.known
  PROVE  app \in Apps /\ app \in AppsOf(Names)
BY Forms DEF TypeOK, NoApp

-----------------------------------------------------------------------------
(* New names. *)

LEMMA PendingHostsType ==
  ASSUME TypeOK, app.known, NEW c \in Comps
  PROVE  PendingHosts(c) \in Seq({e \in Entries : e.status = "PENDING"})
<1>1. app.hosts[c] \in Seq(Entries)
  BY KnownApp, AppFields
<1> DEFINE T == {e \in Entries : e.status = "PENDING"}
<1>2. /\ PendingHosts(c) \in Seq(Entries)
      /\ \A j \in DOMAIN PendingHosts(c) : PendingHosts(c)[j] \in T
  <2> HIDE DEF T
  <2>1. PendingHosts(c) = Filter(app.hosts[c], T)
    BY DEF PendingHosts, T
  <2> QED
    BY <1>1, <2>1, Filtered
<1> HIDE DEF T
<1>3. PendingHosts(c) \in Seq(T)
  BY <1>2
<1> QED
  BY <1>3 DEF T

LEMMA NewNames ==
  ASSUME TypeOK, app.known
  PROVE  /\ NamesBefore(NumComps + 1) \in Nat
         /\ \A c \in Comps :
              /\ NamesBefore(c) \in Nat
              /\ NamesBefore(c) + Len(PendingHosts(c)) <= NamesBefore(NumComps + 1)
<1> DEFINE B(d) == {d} \X DOMAIN PendingHosts(d)
           P(k) == UNION {B(d) : d \in {d \in Comps : d < k}}
<1>1. \A c \in Comps : /\ Len(PendingHosts(c)) \in Nat
                       /\ DOMAIN PendingHosts(c) = 1..Len(PendingHosts(c))
  BY PendingHostsType
<1>2. ASSUME NEW c \in Comps
      PROVE  IsFiniteSet(B(c)) /\ Cardinality(B(c)) = Len(PendingHosts(c))
  <2>1. PICK n \in Nat : n = Len(PendingHosts(c))
    BY <1>1
  <2>2. PICK I : I = 1..n
    OBVIOUS
  <2>3. IsFiniteSet(I) /\ Cardinality(I) = n
    BY <2>2, FS_Interval
  <2>4. IsFiniteSet({c}) /\ Cardinality({c}) = 1
    BY FS_Singleton
  <2>5. IsFiniteSet({c} \X I) /\ Cardinality({c} \X I) = Cardinality({c}) * Cardinality(I)
    BY <2>3, <2>4, FS_Product
  <2>6. B(c) = {c} \X I
    BY <1>1, <2>1, <2>2
  <2> HIDE DEF B
  <2> QED
    BY <2>1, <2>3, <2>4, <2>5, <2>6
<1>3. ASSUME NEW k \in Nat
      PROVE  IsFiniteSet(P(k)) /\ Cardinality(P(k)) \in Nat
  <2> DEFINE D == {d \in Comps : d < k}
             R == {B(d) : d \in D}
  <2>1. IsFiniteSet(D)
    <3>1. IsFiniteSet(1..NumComps)
      BY Bounds, FS_Interval
    <3> QED
      BY <3>1, FS_Subset DEF Comps
  <2>2. IsFiniteSet(R)
    <3>1. PICK f : f = [d \in D |-> B(d)]
      OBVIOUS
    <3>2. R = {f[d] : d \in D}
      BY <3>1
    <3>3. f \in Surjection(D, R)
      BY <3>1 DEF Surjection
    <3> HIDE DEF D, R, B
    <3> QED
      BY <2>1, <3>3, FS_Surjection
  <2>3. \A r \in R : IsFiniteSet(r)
    BY <1>2
  <2>4. P(k) = UNION R
    OBVIOUS
  <2> HIDE DEF R, P
  <2> QED
    BY <2>2, <2>3, <2>4, FS_UNION, FS_CardinalityType
<1>4. \A k : NamesBefore(k) = Cardinality(P(k))
  BY DEF NamesBefore
<1>5. NumComps + 1 \in Nat /\ \A c \in Comps : c \in Nat /\ c < NumComps + 1
  BY Bounds DEF Comps
<1>6. ASSUME NEW c \in Comps
      PROVE  NamesBefore(c) + Len(PendingHosts(c)) <= NamesBefore(NumComps + 1)
  <2>1. P(c) \cap B(c) = {}
    <3>1. ASSUME NEW x \in P(c), x \in B(c)
          PROVE  FALSE
      <4>1. PICK d \in Comps : d < c /\ x \in B(d)
        OBVIOUS
      <4> QED
        BY <3>1, <4>1, <1>5
    <3> QED
      BY <3>1
  <2>2. P(c) \union B(c) \subseteq P(NumComps + 1)
    BY <1>5
  <2> HIDE DEF P, B
  <2>3. IsFiniteSet(P(c)) /\ IsFiniteSet(P(NumComps + 1))
    BY <1>3, <1>5
  <2>4. Cardinality(P(c) \union B(c)) <= Cardinality(P(NumComps + 1))
    BY <2>2, <2>3, FS_Subset
  <2>5. Cardinality(P(c) \union B(c))
          = Cardinality(P(c)) + Cardinality(B(c)) - Cardinality(P(c) \cap B(c))
    BY <2>3, <1>2, FS_Union
  <2>6. Cardinality(P(c) \cap B(c)) = 0
    BY <2>1, FS_EmptySet
  <2> QED
    BY <2>4, <2>5, <2>6, <1>1, <1>2, <1>3, <1>4, <1>5
<1> HIDE DEF P, B
<1> QED
  BY <1>3, <1>4, <1>5, <1>6

-----------------------------------------------------------------------------
(* Type correctness. *)

LEMMA ListingType ==
  Listing \in Seq(Events \union Plan)
<1> DEFINE M == Events \union Plan
<1>1. PICK e : e = Added(resource)
  OBVIOUS
<1>2. e \in M
  BY <1>1 DEF Added, Events
<1>3. Listing = << >> \/ Listing = <<e>>
  BY <1>1 DEF Listing
<1> HIDE DEF M
<1>4. <<e>> \in Seq(M) /\ << >> \in Seq(M)
  BY <1>2
<1> QED
  BY <1>3, <1>4 DEF M

LEMMA InitTypes == Init => TypeOK
<1> SUFFICES ASSUME Init
             PROVE  TypeOK
  OBVIOUS
<1>1. Listing \in Seq(Events \union Plan)
  BY ListingType
<1>2. << >> \in Seq({"waiting", "COMPLETED", "FAILED", "raised", "lost"})
  BY EmptyIn
<1>3. /\ app \in {NoApp} \union Apps /\ app_copy \in {NoApp} \union Apps
      /\ handler \in {Idle} \union [at : {"removing"}, todo : SUBSET Names] \union Workers
      /\ handler.at \notin {"idle", "reply"} => app.known
      /\ handler.at = "changing" => handler.todo # << >>
      /\ handler.at = "reply" => handler.status # "none"
  BY DEF Init, Idle
<1>4. Len(answers) = 0
  BY DEF Init
<1>5. /\ Len(answers) <= MaxPlans /\ resources \in 0..MaxResources /\ faults \in 0..MaxFaults
      /\ next_pod \in Nat \ {0}
  BY <1>4, Bounds DEF Init
<1> HIDE DEF Init
<1>6. /\ notifications \in Seq(Events \union Plan)
      /\ answers \in Seq({"waiting", "COMPLETED", "FAILED", "raised", "lost"})
  BY <1>1, <1>2 DEF Init
<1>7. /\ pods \subseteq [name : Names, host : Hosts] /\ before \subseteq [name : Names, host : Hosts]
      /\ resource \in {"none", "here", "elsewhere"} /\ announced \in BOOLEAN /\ relisted \in BOOLEAN
      /\ respecified \in BOOLEAN /\ disordered \in BOOLEAN /\ replanned \in BOOLEAN /\ monitored \in BOOLEAN
      /\ api_error \in BOOLEAN
  BY DEF Init
<1> QED
  BY <1>3, <1>5, <1>6, <1>7 DEF TypeOK

\* What handler holds while it is at work.
LEMMA Worker ==
  ASSUME TypeOK, handler.at \notin {"idle", "removing"}
  PROVE  /\ handler \in Workers
         /\ handler.id \in DOMAIN answers /\ handler.steps \in Seq(Steps)
         /\ handler.todo \in Seq(Steps) /\ handler.pod \subseteq Names /\ handler.report \in Reports
         /\ handler.initial \in BOOLEAN
<1>1. handler \in Workers
  BY DEF TypeOK, Idle
<1> QED
  BY <1>1 DEF Workers

LEMMA Remover ==
  ASSUME TypeOK, handler.at = "removing"
  PROVE  handler \in [at : {"removing"}, todo : SUBSET Names]
BY DEF TypeOK, Idle, Workers

LEMMA AtIdle ==
  TypeOK => (handler.at = "idle" <=> handler = Idle)
BY DEF TypeOK, Idle, Workers

\* What a worker turns into.
LEMMA WorkerChanged ==
  ASSUME NEW N, NEW ids, NEW h \in WorkersOf(N, ids), NEW at \in States,
         NEW todo \in Seq(Steps), NEW pod \in SUBSET N, NEW report \in ReportsOf(N)
  PROVE  \A w : \/ w = [h EXCEPT !.todo = todo, !.report = report, !.pod = pod, !.at = at]
               \/ w = [h EXCEPT !.at = at, !.todo = todo, !.pod = pod, !.report = report]
               => w \in WorkersOf(N, ids)
<1> DEFINE S == Seq(Steps)
<1>1. WorkersOf(N, ids) = [at : States, id : ids, initial : BOOLEAN, steps : S, todo : S,
                           pod : SUBSET N, status : {"none", "COMPLETED", "FAILED"},
                           report : ReportsOf(N)]
  BY DEF WorkersOf
<1>2. todo \in S
  OBVIOUS
<1> HIDE DEF S
<1> QED
  BY <1>1, <1>2, ZenonT(60)

LEMMA WorkerTodo ==
  ASSUME NEW N, NEW ids, NEW h \in WorkersOf(N, ids), NEW todo \in Seq(Steps)
  PROVE  \A w : w = [h EXCEPT !.todo = todo] => w \in WorkersOf(N, ids)
<1> DEFINE S == Seq(Steps)
<1>1. WorkersOf(N, ids) = [at : States, id : ids, initial : BOOLEAN, steps : S, todo : S,
                           pod : SUBSET N, status : {"none", "COMPLETED", "FAILED"},
                           report : ReportsOf(N)]
  BY DEF WorkersOf
<1>2. todo \in S
  OBVIOUS
<1> HIDE DEF S
<1> QED
  BY <1>1, <1>2

LEMMA WorkerAt ==
  ASSUME NEW N, NEW ids, NEW h \in WorkersOf(N, ids), NEW at \in States
  PROVE  \A w : w = [h EXCEPT !.at = at] => w \in WorkersOf(N, ids)
BY DEF WorkersOf

LEMMA WorkerPod ==
  ASSUME NEW N, NEW ids, NEW h \in WorkersOf(N, ids), NEW at \in States, NEW pod \in SUBSET N
  PROVE  \A w : w = [h EXCEPT !.at = at, !.pod = pod] => w \in WorkersOf(N, ids)
BY ZenonT(60) DEF WorkersOf

LEMMA WorkerReport ==
  ASSUME NEW N, NEW ids, NEW h \in WorkersOf(N, ids), NEW report \in ReportsOf(N)
  PROVE  \A w : w = [h EXCEPT !.report = report] => w \in WorkersOf(N, ids)
BY DEF WorkersOf

LEMMA Finished ==
  ASSUME handler \in Workers, NEW status \in {"COMPLETED", "FAILED"}, Finish(status)
  PROVE  handler' \in Workers /\ handler'.at = "reply" /\ handler'.status = status
<1> DEFINE S == Seq(Steps)
<1>1. Workers = [at : {"reply", "deploying", "acting", "changing", "creating", "deleting"},
                 id : DOMAIN answers, initial : BOOLEAN, steps : S, todo : S,
                 pod : SUBSET Names, status : {"none", "COMPLETED", "FAILED"}, report : Reports]
  BY DEF Workers
<1>2. handler' = [handler EXCEPT !.at = "reply", !.status = status]
  BY DEF Finish
<1> HIDE DEF S
<1> QED
  BY <1>1, <1>2

\* What the watch appends to the queue.
LEMMA WatchedIs ==
  ASSUME NEW where, CreateResource(where) \/ DeleteResource \/ ModifyResource \/ WatchRepeats
  PROVE  \/ notifications' = notifications
         \/ \E e \in Events : notifications' = Append(notifications, e)
         \/ \E d, e \in Events : notifications' = notifications \o <<d, e>>
         \/ \E e \in Events : notifications' = notifications \o <<e>>
<1>1. Added(where) \in Events /\ Added(resource) \in Events /\ Deleted \in Events
      /\ [op |-> "MODIFIED"] \in Events
  BY DEF Added, Deleted, Events
<1>2. CASE CreateResource(where)
  BY <1>1, <1>2, Zenon DEF CreateResource, Watched
<1>3. CASE DeleteResource
  BY <1>1, <1>3, Zenon DEF DeleteResource, Watched
<1>4. CASE ModifyResource
  BY <1>1, <1>4, Zenon DEF ModifyResource
<1>5. CASE WatchRepeats
  BY <1>1, <1>5, Zenon DEF WatchRepeats
<1> QED
  BY <1>2, <1>3, <1>4, <1>5

\* The environment's steps.
LEMMA EnvironmentTypes ==
  ASSUME TypeOK,
         \/ \E where \in {"here", "elsewhere"} : CreateResource(where)
         \/ DeleteResource \/ ModifyResource \/ WatchRepeats
         \/ \E p \in pods : PodDies(p)
  PROVE  TypeOK'
<1> DEFINE M == Events \union Plan
<1>1. next_pod' = next_pod /\ answers' = answers
  BY DEF CreateResource, DeleteResource, ModifyResource, WatchRepeats, PodDies
<1>2. Names' = Names /\ Apps' = Apps /\ Workers' = Workers /\ M' = M
  <2>1. Names' = Names /\ Manifests' = Manifests
    BY <1>1 DEF Names, Manifests
  <2> QED
    BY <1>1, <2>1 DEF Apps, Workers, Reports, Plan, Events
<1>3. notifications' \in Seq(M)
  <2>1. notifications \in Seq(M)
    BY DEF TypeOK
  <2>2. \/ notifications' = notifications
        \/ \E e \in M : notifications' = Append(notifications, e)
        \/ \E d, e \in M : notifications' = notifications \o <<d, e>>
        \/ \E e \in M : notifications' = notifications \o <<e>>
    <3>1. CASE \E p \in pods : PodDies(p)
      BY <3>1 DEF PodDies
    <3>2. CASE ~\E p \in pods : PodDies(p)
      BY <3>2, WatchedIs
    <3> QED
      BY <3>1, <3>2
  <2>3. \A d, e \in M : <<d, e>> \in Seq(M) /\ <<e>> \in Seq(M)
    <3> HIDE DEF M
    <3> QED
      OBVIOUS
  <2> HIDE DEF M
  <2>4. \A e \in M : Append(notifications, e) \in Seq(M)
    BY <2>1, Appended
  <2>5. \A t \in Seq(M) : notifications \o t \in Seq(M)
    BY <2>1, Concatenates
  <2> QED
    BY <2>1, <2>2, <2>3, <2>4, <2>5
<1>4. /\ UNCHANGED <<app, app_copy, handler, answers, announced, respecified, disordered,
                     replanned, monitored, next_pod>>
      /\ pods' \subseteq pods /\ before' \subseteq before
      /\ resource' \in {"none", "here", "elsewhere"} /\ resources' \in 0..MaxResources
      /\ faults' \in 0..MaxFaults /\ api_error' = api_error /\ relisted' \in BOOLEAN
  <2>1. resource \in {"none", "here", "elsewhere"} /\ resources \in 0..MaxResources
        /\ faults \in 0..MaxFaults /\ relisted \in BOOLEAN
    BY DEF TypeOK
  <2>6. ASSUME NEW e, Watched(e)
        PROVE  faults' \in 0..MaxFaults /\ relisted' = FALSE
    BY <2>1, <2>6, Bounds DEF Watched
  <2>2. CASE \E where \in {"here", "elsewhere"} : CreateResource(where)
    <3>1. PICK where \in {"here", "elsewhere"} : CreateResource(where)
      BY <2>2
    <3>2. faults' \in 0..MaxFaults /\ relisted' = FALSE
      BY <3>1, <2>6 DEF CreateResource
    <3>3. resources < MaxResources /\ resources' = resources + 1 /\ resource' = where
      BY <3>1 DEF CreateResource
    <3>4. resources' \in 0..MaxResources
      BY <2>1, <3>3, Bounds
    <3>5. UNCHANGED <<app, app_copy, monitored, handler, pods, announced, answers, historyVars,
                      api_error, next_pod>>
      BY <3>1 DEF CreateResource
    <3> QED
      BY <3>2, <3>3, <3>4, <3>5 DEF historyVars
  <2>3. CASE DeleteResource
    <3>1. faults' \in 0..MaxFaults /\ relisted' = FALSE
      BY <2>3, <2>6 DEF DeleteResource
    <3> QED
      BY <2>1, <2>3, <3>1 DEF DeleteResource, historyVars
  <2>4. CASE ModifyResource \/ WatchRepeats
    BY <2>1, <2>4 DEF ModifyResource, WatchRepeats, historyVars
  <2>5. CASE \E p \in pods : PodDies(p)
    BY <2>1, <2>5, Bounds DEF PodDies, envVars
  <2> QED
    BY <2>2, <2>3, <2>4, <2>5
<1> HIDE DEF M
<1>5. notifications' \in Seq(M')
  BY <1>2, <1>3
<1> QED
  BY <1>1, <1>2, <1>4, <1>5 DEF TypeOK, M

LEMMA SubmitTypes ==
  ASSUME TypeOK, NEW steps \in InitialPlans \union Plans, NEW initial \in BOOLEAN,
         Submit(steps, initial)
  PROVE  TypeOK'
<1> DEFINE M == Events \union Plan
           A == {"waiting", "COMPLETED", "FAILED", "raised", "lost"}
<1>1. /\ answers \in Seq(A) /\ "waiting" \in A /\ answers' = Append(answers, "waiting")
      /\ next_pod' = next_pod /\ Len(answers) < MaxPlans
  BY DEF TypeOK, Submit
<1>2. /\ answers' \in Seq(A) /\ Len(answers') = Len(answers) + 1 /\ Len(answers) \in Nat
      /\ DOMAIN answers = 1..Len(answers) /\ DOMAIN answers' = 1..(Len(answers) + 1)
  <2> HIDE DEF A
  <2> QED
    BY <1>1, Appended
<1>3. DOMAIN answers \subseteq DOMAIN answers'
  BY <1>2
<1>4. next_pod \in Nat
  BY DEF TypeOK
<1>5. Workers \subseteq Workers' /\ Plan \subseteq Plan'
  BY <1>1, <1>3, <1>4, WorkersGrow
<1>6. Names' = Names /\ Apps' = Apps
  <2>1. Names' = Names /\ Manifests' = Manifests
    BY <1>1 DEF Names, Manifests
  <2> QED
    BY <2>1 DEF Apps
<1>7. notifications' \in Seq(M')
  <2>1. M \subseteq M'
    BY <1>5 DEF Events
  <2>2. steps \in Seq(Steps) /\ Len(answers) + 1 \in DOMAIN answers'
    BY <1>2, StepsAre
  <2>3. PICK e : e = [op |-> "PLAN_SUBMITTED", id |-> Len(answers) + 1, initial |-> initial,
                      steps |-> steps]
    OBVIOUS
  <2>4. e \in Plan'
    BY <2>2, <2>3 DEF Plan
  <2>5. e \in M' /\ notifications \in Seq(M)
    BY <2>4 DEF TypeOK
  <2>6. notifications' = Append(notifications, e)
    BY <2>3 DEF Submit
  <2> HIDE DEF M
  <2> QED
    BY <2>1, <2>5, <2>6, SeqGrows, Appended
<1>8. UNCHANGED <<app, app_copy, monitored, handler, pods, resource, announced, relisted, resources,
                  before, respecified, disordered, replanned, api_error, next_pod, faults>>
  BY DEF Submit, envVars, historyVars
<1>9. Len(answers') <= MaxPlans
  BY <1>1, <1>2, Bounds
<1>10. handler' \in {Idle} \union [at : {"removing"}, todo : SUBSET Names'] \union Workers'
  BY <1>5, <1>6, <1>8 DEF TypeOK
<1> HIDE DEF M, A
<1>11. /\ app' \in {NoApp} \union Apps' /\ app_copy' \in {NoApp} \union Apps'
       /\ handler'.at \notin {"idle", "reply"} => app'.known
       /\ handler'.at = "changing" => handler'.todo # << >>
       /\ handler'.at = "reply" => handler'.status # "none"
       /\ pods' \subseteq [name : Names', host : Hosts]
       /\ before' \subseteq [name : Names', host : Hosts]
  BY <1>6, <1>8 DEF TypeOK
<1>12. /\ resource' \in {"none", "here", "elsewhere"} /\ announced' \in BOOLEAN
       /\ relisted' \in BOOLEAN
       /\ respecified' \in BOOLEAN /\ disordered' \in BOOLEAN /\ replanned' \in BOOLEAN /\ monitored' \in BOOLEAN
       /\ api_error' \in BOOLEAN /\ next_pod' \in Nat \ {0}
       /\ resources' \in 0..MaxResources /\ faults' \in 0..MaxFaults
  BY <1>8 DEF TypeOK
<1> QED
  BY <1>2, <1>7, <1>8, <1>9, <1>10, <1>11, <1>12 DEF TypeOK, M, A

LEMMA RestartTypes ==
  ASSUME TypeOK, Restart
  PROVE  TypeOK'
<1> DEFINE A == {"waiting", "COMPLETED", "FAILED", "raised", "lost"}
           M == Events \union Plan
<1>1. answers \in Seq(A) /\ next_pod' = next_pod
  BY DEF TypeOK, Restart
<1>2. /\ answers' \in Seq(A) /\ Len(answers') = Len(answers) /\ DOMAIN answers' = DOMAIN answers
  <2>1. answers' = [i \in DOMAIN answers |-> IF answers[i] = "waiting" THEN "lost" ELSE answers[i]]
    BY DEF Restart
  <2> QED
    BY <1>1, <2>1
<1>3. Names' = Names
  BY <1>1 DEF Names
<1>4. notifications' \in Seq(M')
  <2>1. notifications' = Listing
    BY DEF Restart
  <2>2. M' = M
    BY <1>2 DEF Events, Plan
  <2> HIDE DEF M
  <2>3. Listing \in Seq(M)
    BY ListingType DEF M
  <2> QED
    BY <2>1, <2>2, <2>3
<1>5. /\ app' = NoApp /\ app_copy' = NoApp /\ handler' = Idle /\ pods' \subseteq pods /\ before' = {}
      /\ monitored' = FALSE /\ announced' = FALSE /\ relisted' \in BOOLEAN /\ faults' = faults + 1
      /\ api_error' \in BOOLEAN /\ faults < MaxFaults
      /\ UNCHANGED <<resource, resources, respecified, disordered, replanned, next_pod>>
  BY DEF TypeOK, Restart
<1>6. handler'.at = "idle"
  BY <1>5 DEF Idle
<1>7. faults' \in 0..MaxFaults
  BY <1>5, Bounds DEF TypeOK
<1> HIDE DEF M, A
<1> QED
  BY <1>1, <1>2, <1>3, <1>4, <1>5, <1>6, <1>7 DEF TypeOK, M, A

\* What a step of the handler must show.
LEMMA TypeStep ==
  ASSUME TypeOK, next_pod' \in Nat, next_pod <= next_pod',
         app' \in {NoApp, app, app_copy} \union Apps', app_copy' \in {NoApp, app, app_copy},
         handler' \in {handler, Idle} \union [at : {"removing"}, todo : SUBSET Names'] \union Workers',
         handler'.at \notin {"idle", "reply"} => app'.known,
         handler'.at = "changing" => handler'.todo # << >>,
         handler'.at = "reply" => handler'.status # "none",
         \/ notifications' = notifications
         \/ notifications # << >> /\ notifications' = Tail(notifications),
         \/ answers' = answers
         \/ \E i \in DOMAIN answers : \E a \in {"COMPLETED", "FAILED", "raised"} :
              answers' = [answers EXCEPT ![i] = a],
         pods' \subseteq [name : Names', host : Hosts], before' \in {before, pods},
         UNCHANGED <<resource, resources>>,
         announced' \in BOOLEAN, relisted' \in BOOLEAN, respecified' \in BOOLEAN,
         disordered' \in BOOLEAN, replanned' \in BOOLEAN, monitored' \in BOOLEAN, api_error' \in BOOLEAN,
         faults' \in 0..MaxFaults
  PROVE  TypeOK'
<1> DEFINE A == {"waiting", "COMPLETED", "FAILED", "raised", "lost"}
           M == Events \union Plan
<1>1. /\ answers' \in Seq(A) /\ DOMAIN answers' = DOMAIN answers /\ Len(answers') = Len(answers)
  <2>1. answers \in Seq(A)
    BY DEF TypeOK
  <2>2. ASSUME NEW i \in DOMAIN answers, NEW a \in A, answers' = [answers EXCEPT ![i] = a]
        PROVE  /\ answers' \in Seq(A) /\ DOMAIN answers' = DOMAIN answers
               /\ Len(answers') = Len(answers)
    BY <2>1, <2>2
  <2> QED
    BY <2>1, <2>2
<1>2. next_pod \in Nat /\ next_pod # 0 /\ next_pod' # 0
  BY DEF TypeOK
<1>3. /\ Names \subseteq Names' /\ Apps \subseteq Apps' /\ Workers \subseteq Workers'
      /\ Plan \subseteq Plan'
  BY <1>1, <1>2, NamesGrow, WorkersGrow
<1>4. app' \in {NoApp} \union Apps' /\ app_copy' \in {NoApp} \union Apps'
  BY <1>3 DEF TypeOK
<1>5. handler' \in {Idle} \union [at : {"removing"}, todo : SUBSET Names'] \union Workers'
  <2>1. handler \in {Idle} \union [at : {"removing"}, todo : SUBSET Names] \union Workers
    BY DEF TypeOK
  <2> QED
    BY <2>1, <1>3
<1>6. notifications' \in Seq(M')
  <2>1. notifications \in Seq(M) /\ M \subseteq M'
    BY <1>3 DEF TypeOK, Events
  <2> HIDE DEF M
  <2>2. notifications # << >> => Tail(notifications) \in Seq(M)
    BY <2>1, Shortened
  <2> QED
    BY <2>1, <2>2, SeqGrows
<1>7. before' \subseteq [name : Names', host : Hosts]
  BY <1>3 DEF TypeOK
<1>8. Len(answers') <= MaxPlans /\ resources' \in 0..MaxResources
  BY <1>1 DEF TypeOK
<1>9. resource' \in {"none", "here", "elsewhere"}
  BY DEF TypeOK
<1> HIDE DEF A, M
<1> QED
  BY <1>1, <1>2, <1>4, <1>5, <1>6, <1>7, <1>8, <1>9 DEF TypeOK, A, M

LEMMA Taken ==
  ASSUME TypeOK, NEW op, Take(op)
  PROVE  /\ handler = Idle /\ notifications # << >> /\ notifications' = Tail(notifications)
         /\ Head(notifications) \in Events \union Plan /\ Head(notifications).op = op
         /\ op = "PLAN_SUBMITTED" => Head(notifications) \in Plan
         /\ op = "ADDED" => Head(notifications).here \in BOOLEAN
<1> DEFINE M == Events \union Plan
<1>1. handler = Idle /\ notifications # << >> /\ notifications' = Tail(notifications)
  BY DEF Take
<1>2. PICK e : e = Head(notifications)
  OBVIOUS
<1>3. e \in M
  <2>1. notifications \in Seq(M)
    BY DEF TypeOK
  <2> HIDE DEF M
  <2> QED
    BY <1>1, <1>2, <2>1, Shortened
<1>4. e.op = op
  BY <1>2 DEF Take
<1>5. (op = "PLAN_SUBMITTED" => e \in Plan) /\ (op = "ADDED" => e.here \in BOOLEAN)
  BY <1>3, <1>4 DEF Events, Plan
<1> QED
  BY <1>1, <1>2, <1>3, <1>4, <1>5

LEMMA Same ==
  ASSUME next_pod' = next_pod
  PROVE  /\ Names' = Names /\ Apps' = Apps
         /\ DOMAIN answers' = DOMAIN answers => Workers' = Workers
<1>1. Names' = Names /\ Manifests' = Manifests
  BY DEF Names, Manifests
<1>2. Apps' = Apps
  BY <1>1 DEF Apps
<1>3. ASSUME DOMAIN answers' = DOMAIN answers
      PROVE  Workers' = Workers
  <2>1. Reports' = Reports
    BY <1>1 DEF Reports
  <2> QED
    BY <1>1, <1>3, <2>1 DEF Workers
<1> QED
  BY <1>1, <1>2, <1>3

LEMMA Faults ==
  ASSUME TypeOK
  PROVE  /\ faults \in 0..MaxFaults
         /\ (faults < MaxFaults /\ faults' = faults + 1) => faults' \in 0..MaxFaults
BY Bounds DEF TypeOK

\* Kubernetes answers, one way or the other.
LEMMA Calls ==
  ASSUME TypeOK
  PROVE  /\ \A n : DeleteOk(n) \/ DeleteFails(n) =>
              pods' \subseteq pods /\ faults' \in 0..MaxFaults /\ api_error' \in BOOLEAN
         /\ \A n : CreateFails(n) =>
              pods' = pods /\ faults' \in 0..MaxFaults /\ api_error' \in BOOLEAN
         /\ \A p : CreateOk(p) =>
              pods' = pods \union {p} /\ faults' \in 0..MaxFaults /\ api_error' \in BOOLEAN
<1>1. api_error \in BOOLEAN
  BY DEF TypeOK
<1>2. ASSUME NEW n, DeleteOk(n) \/ DeleteFails(n)
      PROVE  pods' \subseteq pods /\ faults' \in 0..MaxFaults /\ api_error' \in BOOLEAN
  <2>1. CASE DeleteOk(n)
    BY <2>1, <1>1, Faults DEF DeleteOk
  <2>2. CASE DeleteFails(n)
    <3>1. faults' = faults \/ (faults < MaxFaults /\ faults' = faults + 1)
      BY <2>2 DEF DeleteFails
    <3> QED
      BY <2>2, <3>1, Faults DEF DeleteFails
  <2> QED
    BY <1>2, <2>1, <2>2
<1>3. ASSUME NEW n, CreateFails(n)
      PROVE  pods' = pods /\ faults' \in 0..MaxFaults /\ api_error' \in BOOLEAN
  <2>1. faults' = faults \/ (faults < MaxFaults /\ faults' = faults + 1)
    BY <1>3 DEF CreateFails
  <2> QED
    BY <1>3, <2>1, Faults DEF CreateFails
<1>4. ASSUME NEW p, CreateOk(p)
      PROVE  pods' = pods \union {p} /\ faults' \in 0..MaxFaults /\ api_error' \in BOOLEAN
  BY <1>1, <1>4, Faults DEF CreateOk
<1> QED
  BY <1>2, <1>3, <1>4

LEMMA EventTypes ==
  ASSUME TypeOK, AppEvent
  PROVE  TypeOK'
<1>1. /\ next_pod \in Nat /\ pods \subseteq [name : Names, host : Hosts] /\ faults \in 0..MaxFaults
      /\ announced \in BOOLEAN /\ relisted \in BOOLEAN /\ respecified \in BOOLEAN
      /\ disordered \in BOOLEAN /\ replanned \in BOOLEAN /\ monitored \in BOOLEAN /\ api_error \in BOOLEAN
      /\ (handler.at \notin {"idle", "reply"} => app.known)
      /\ (handler.at = "changing" => handler.todo # << >>)
      /\ (handler.at = "reply" => handler.status # "none")
      /\ Idle.at = "idle"
  BY DEF TypeOK, Idle
<1>2. CASE HandleAdded
  <2>1. Head(notifications).here \in BOOLEAN /\ handler = Idle /\ notifications # << >>
        /\ notifications' = Tail(notifications)
    BY <1>2, Taken DEF HandleAdded
  <2>2. next_pod' = next_pod /\ answers' = answers
    BY <1>2 DEF HandleAdded
  <2>3. app' = app \/ app' \in Apps'
    BY <1>2, <2>1, <2>2, Same, NewAppType DEF HandleAdded
  <2>4. faults' \in 0..MaxFaults /\ api_error' \in BOOLEAN
    BY <1>1, <1>2, Faults DEF HandleAdded
  <2>5. /\ UNCHANGED <<app_copy, monitored, handler, pods, resource, relisted, resources, before,
                       respecified, replanned>>
        /\ announced' \in BOOLEAN /\ disordered' \in BOOLEAN
    BY <1>1, <1>2 DEF HandleAdded
  <2>6. Names' = Names
    BY <2>2, Same
  <2> QED
    BY <1>1, <2>1, <2>2, <2>3, <2>4, <2>5, <2>6, TypeStep
<1>3. CASE HandleModified
  <2>1. handler = Idle /\ notifications # << >> /\ notifications' = Tail(notifications)
    BY <1>3, Taken DEF HandleModified
  <2>2. UNCHANGED <<app, app_copy, monitored, handler, pods, resource, announced, relisted, resources,
                    answers, before, respecified, disordered, replanned, api_error, next_pod, faults>>
    BY <1>3 DEF HandleModified, envVars, historyVars
  <2>3. Names' = Names
    BY <2>2, Same
  <2> QED
    BY <1>1, <2>1, <2>2, <2>3, TypeStep
<1>4. CASE HandleDeleted
  <2>1. handler = Idle /\ notifications # << >> /\ notifications' = Tail(notifications)
    BY <1>4, Taken DEF HandleDeleted
  <2>2. /\ UNCHANGED <<app, app_copy, monitored, pods, resource, relisted, resources, answers, before,
                       respecified, replanned, api_error, next_pod, faults>>
        /\ announced' = FALSE /\ disordered' \in BOOLEAN
    BY <1>1, <1>4 DEF HandleDeleted
  <2>3. Names' = Names
    BY <2>2, Same
  <2>4. /\ handler' \in {Idle} \union [at : {"removing"}, todo : SUBSET Names']
        /\ handler'.at \notin {"idle", "reply"} => app'.known
        /\ handler'.at \notin {"changing", "reply"}
    <3>1. CASE app.known
      <4>1. handler' = [at |-> "removing", todo |-> app.pod_names]
        BY <1>4, <3>1 DEF HandleDeleted
      <4>2. app.pod_names \subseteq Names
        BY <3>1, KnownApp, AppFields
      <4> QED
        BY <2>2, <2>3, <3>1, <4>1, <4>2
    <3>2. CASE ~app.known
      BY <1>1, <1>4, <3>2 DEF HandleDeleted
    <3> QED
      BY <3>1, <3>2
  <2>5. next_pod' \in Nat /\ next_pod <= next_pod' /\ faults' \in 0..MaxFaults
    BY <1>1, <2>2
  <2>6. /\ announced' \in BOOLEAN /\ relisted' \in BOOLEAN /\ respecified' \in BOOLEAN
        /\ disordered' \in BOOLEAN /\ replanned' \in BOOLEAN /\ monitored' \in BOOLEAN /\ api_error' \in BOOLEAN
    BY <1>1, <2>2
  <2>7. /\ pods' \subseteq [name : Names', host : Hosts] /\ before' \in {before, pods}
        /\ app' \in {NoApp, app, app_copy} /\ app_copy' \in {NoApp, app, app_copy}
    BY <1>1, <2>2, <2>3
  <2> QED
    BY <2>1, <2>2, <2>4, <2>5, <2>6, <2>7, TypeStep
<1>5. CASE RemovePod
  <2>1. handler \in [at : {"removing"}, todo : SUBSET Names] /\ app.known
    BY <1>1, <1>5, Remover DEF RemovePod
  <2>2. PICK n \in handler.todo :
          \/ DeleteOk(n) /\ handler' = [handler EXCEPT !.todo = @ \ {n}]
          \/ DeleteFails(n) /\ handler' = Idle
    BY <1>5 DEF RemovePod
  <2>3. UNCHANGED <<notifications, app, app_copy, monitored, resource, announced, relisted, resources,
                    answers, before, respecified, disordered, replanned, next_pod>>
    BY <1>5 DEF RemovePod, envVars, historyVars
  <2>4. pods' \subseteq pods /\ faults' \in 0..MaxFaults /\ api_error' \in BOOLEAN
    BY <2>2, Calls
  <2>5. Names' = Names
    BY <2>3, Same
  <2>6. /\ handler' \in {Idle} \union [at : {"removing"}, todo : SUBSET Names']
        /\ handler'.at \notin {"idle", "reply"} => app'.known
        /\ handler'.at \notin {"changing", "reply"}
    <3>1. CASE handler' = [handler EXCEPT !.todo = @ \ {n}]
      BY <2>1, <2>3, <2>5, <3>1
    <3> QED
      BY <1>1, <2>2, <3>1
  <2> QED
    BY <1>1, <2>3, <2>4, <2>5, <2>6, TypeStep
<1>6. CASE ForgetApp
  <2>1. /\ handler' = Idle /\ app' \in {NoApp, app}
        /\ UNCHANGED <<notifications, app_copy, monitored, pods, resource, announced, relisted, resources,
                       answers, before, respecified, disordered, replanned, api_error, next_pod, faults>>
    BY <1>6 DEF ForgetApp, envVars, historyVars
  <2>2. Names' = Names
    BY <2>1, Same
  <2> QED
    BY <1>1, <2>1, <2>2, TypeStep
<1> QED
  BY <1>2, <1>3, <1>4, <1>5, <1>6 DEF AppEvent

\* Taking a plan, and what becomes of the handler then.
LEMMA TakenPlan ==
  ASSUME TypeOK, TakePlan
  PROVE  LET plan == Head(notifications)
         IN  /\ plan \in Plan /\ plan.id \in DOMAIN answers /\ plan.steps \in Seq(Steps)
             /\ plan.initial \in BOOLEAN
             /\ \A at \in {"reply", "deploying", "acting"} : Working(at, plan) \in Workers
             /\ handler = Idle /\ notifications # << >> /\ notifications' = Tail(notifications)
             /\ before' = pods
             /\ UNCHANGED <<pods, monitored, resource, announced, relisted, resources, respecified,
                            disordered, api_error, next_pod, faults>>
<1>1. PICK plan : plan = Head(notifications)
  OBVIOUS
<1>2. plan \in Plan /\ handler = Idle /\ notifications # << >> /\ notifications' = Tail(notifications)
  BY <1>1, Taken DEF TakePlan
<1> DEFINE S == Seq(Steps)
<1>3. plan.id \in DOMAIN answers /\ plan.steps \in S /\ plan.initial \in BOOLEAN
  BY <1>2 DEF Plan
<1>4. Workers = [at : {"reply", "deploying", "acting", "changing", "creating", "deleting"},
                 id : DOMAIN answers, initial : BOOLEAN, steps : S, todo : S,
                 pod : SUBSET Names, status : {"none", "COMPLETED", "FAILED"}, report : Reports]
  BY DEF Workers
<1>5. NoReport \in Reports
  BY DEF NoReport, Reports
<1>6. \A at \in {"reply", "deploying", "acting"} : Working(at, plan) \in Workers
  <2> HIDE DEF S
  <2> QED
    BY <1>3, <1>4, <1>5 DEF Working
<1> QED
  BY <1>1, <1>2, <1>3, <1>6 DEF TakePlan, envVars

LEMMA Replanning ==
  ASSUME PlanOfUnknownApp \/ StartInitialPlan \/ StartPlan, replanned \in BOOLEAN
  PROVE  replanned' \in BOOLEAN
BY DEF PlanOfUnknownApp, StartInitialPlan, StartPlan

LEMMA StartTypes ==
  ASSUME TypeOK, PlanOfUnknownApp \/ StartInitialPlan \/ StartPlan
  PROVE  TypeOK'
<1>1. /\ next_pod \in Nat /\ pods \subseteq [name : Names, host : Hosts] /\ faults \in 0..MaxFaults
      /\ announced \in BOOLEAN /\ relisted \in BOOLEAN /\ respecified \in BOOLEAN
      /\ disordered \in BOOLEAN /\ replanned \in BOOLEAN /\ monitored \in BOOLEAN /\ api_error \in BOOLEAN
      /\ Idle.at = "idle"
  BY DEF TypeOK, Idle
<1>2. TakePlan
  BY DEF PlanOfUnknownApp, StartInitialPlan, StartPlan
<1>3. PICK plan : plan = Head(notifications)
  OBVIOUS
<1>4. /\ plan.id \in DOMAIN answers /\ plan.steps \in Seq(Steps)
      /\ \A at \in {"reply", "deploying", "acting"} : Working(at, plan) \in Workers
      /\ handler = Idle /\ notifications # << >> /\ notifications' = Tail(notifications)
      /\ before' = pods
      /\ UNCHANGED <<pods, monitored, resource, announced, relisted, resources, respecified,
                     disordered, api_error, next_pod, faults>>
      /\ replanned' \in BOOLEAN
  BY <1>1, <1>2, <1>3, TakenPlan, Replanning
<1>5. Names' = Names /\ (answers' = answers => Workers' = Workers)
  BY <1>4, Same
<1>6. /\ next_pod' \in Nat /\ next_pod <= next_pod' /\ faults' \in 0..MaxFaults
      /\ announced' \in BOOLEAN /\ relisted' \in BOOLEAN /\ respecified' \in BOOLEAN
      /\ disordered' \in BOOLEAN /\ replanned' \in BOOLEAN /\ monitored' \in BOOLEAN /\ api_error' \in BOOLEAN
      /\ pods' \subseteq [name : Names', host : Hosts] /\ before' \in {before, pods}
  BY <1>1, <1>4, <1>5
<1>7. CASE PlanOfUnknownApp
  <2>1. /\ answers' = [answers EXCEPT ![plan.id] = "raised"]
        /\ UNCHANGED <<app, app_copy, handler>>
    BY <1>3, <1>7 DEF PlanOfUnknownApp
  <2> QED
    BY <1>1, <1>4, <1>6, <2>1, TypeStep
<1>8. CASE StartInitialPlan
  <2>1. UNCHANGED <<app, app_copy, answers>> /\ app.known
    BY <1>8 DEF StartInitialPlan
  <2>2. handler' = IF ~ValidSteps(plan.steps) THEN [Working("reply", plan) EXCEPT !.status = "FAILED"]
                   ELSE [Working("deploying", plan) EXCEPT !.todo = IF app.here THEN @ ELSE << >>]
    BY <1>3, <1>8 DEF StartInitialPlan
  <2>3. [Working("reply", plan) EXCEPT !.status = "FAILED"] \in Workers
    <3>1. PICK w \in Workers : w = Working("reply", plan) /\ w.at = "reply"
      BY <1>4 DEF Working
    <3>2. [w EXCEPT !.status = "FAILED"] \in Workers
      BY <3>1 DEF Workers
    <3> QED
      BY <3>1, <3>2
  <2>4. [Working("deploying", plan) EXCEPT !.todo = IF app.here THEN @ ELSE << >>] \in Workers
    <3>1. PICK t : t = IF app.here THEN plan.steps ELSE << >>
      OBVIOUS
    <3>2. t \in Seq(Steps)
      BY <1>4, <3>1, EmptyIn
    <3>3. PICK w \in Workers : w = Working("deploying", plan) /\ w.todo = plan.steps
      BY <1>4 DEF Working
    <3>4. << >> \in Seq(Steps) /\ {} \in SUBSET Names /\ NoReport \in ReportsOf(Names)
          /\ "reply" \in States /\ w \in WorkersOf(Names, DOMAIN answers)
      BY <3>3, EmptyIn, Forms DEF NoReport, ReportsOf, States
    <3>5. \A v : v = [w EXCEPT !.todo = t] => v \in Workers
      <4> TAKE v
      <4> HAVE v = [w EXCEPT !.todo = t]
      <4>1. v \in WorkersOf(Names, DOMAIN answers)
        BY <3>2, <3>4, WorkerTodo
      <4> QED
        BY <4>1, Forms
    <3> QED
      BY <3>1, <3>3, <3>5
  <2>5. /\ handler'.at \in {"reply", "deploying"}
        /\ handler'.at = "reply" => handler'.status = "FAILED"
    BY <2>2 DEF Working
  <2>6. handler' \in Workers'
    BY <1>5, <2>1, <2>2, <2>3, <2>4
  <2> QED
    BY <1>4, <1>6, <2>1, <2>5, <2>6, TypeStep
<1>9. CASE StartPlan
  <2>1. UNCHANGED <<app, answers>> /\ app.known
    BY <1>9 DEF StartPlan
  <2>2. \/ handler' = [Working("reply", plan) EXCEPT !.status = "FAILED"] /\ app_copy' = NoApp
        \/ handler' = Working("acting", plan) /\ app_copy' = app
    BY <1>3, <1>9 DEF StartPlan
  <2>3. [Working("reply", plan) EXCEPT !.status = "FAILED"] \in Workers
    <3>1. PICK w \in Workers : w = Working("reply", plan) /\ w.at = "reply"
      BY <1>4 DEF Working
    <3>2. [w EXCEPT !.status = "FAILED"] \in Workers
      BY <3>1 DEF Workers
    <3> QED
      BY <3>1, <3>2
  <2>4. handler' \in Workers' /\ app_copy' \in {NoApp, app, app_copy}
    BY <1>4, <1>5, <2>1, <2>2, <2>3
  <2>5. /\ handler'.at \in {"reply", "acting"}
        /\ handler'.at = "reply" => handler'.status = "FAILED"
    BY <2>2 DEF Working
  <2> QED
    BY <1>4, <1>6, <2>1, <2>4, <2>5, TypeStep
<1> QED
  BY <1>7, <1>8, <1>9

LEMMA AnswerTypes ==
  ASSUME TypeOK, Answer
  PROVE  TypeOK'
<1>1. /\ next_pod \in Nat /\ pods \subseteq [name : Names, host : Hosts] /\ faults \in 0..MaxFaults
      /\ announced \in BOOLEAN /\ relisted \in BOOLEAN /\ respecified \in BOOLEAN
      /\ disordered \in BOOLEAN /\ replanned \in BOOLEAN /\ monitored \in BOOLEAN /\ api_error \in BOOLEAN
      /\ Idle.at = "idle"
  BY DEF TypeOK, Idle
<1>2. handler.id \in DOMAIN answers /\ handler.status \in {"COMPLETED", "FAILED"}
  <2>1. handler \in Workers /\ handler.status # "none" /\ handler.id \in DOMAIN answers
    BY Worker DEF Answer, TypeOK
  <2> QED
    BY <2>1 DEF Workers
<1>3. /\ handler' = Idle /\ answers' = [answers EXCEPT ![handler.id] = handler.status]
      /\ UNCHANGED <<notifications, app, app_copy, monitored, pods, resource, announced, relisted,
                     resources, before, respecified, disordered, replanned, api_error, next_pod, faults>>
  BY DEF Answer, envVars, historyVars
<1>4. Names' = Names
  BY <1>3, Same
<1>5. \E i \in DOMAIN answers : \E a \in {"COMPLETED", "FAILED", "raised"} :
        answers' = [answers EXCEPT ![i] = a]
  BY <1>2, <1>3
<1>6. /\ next_pod' \in Nat /\ next_pod <= next_pod' /\ faults' \in 0..MaxFaults
      /\ announced' \in BOOLEAN /\ relisted' \in BOOLEAN /\ respecified' \in BOOLEAN
      /\ disordered' \in BOOLEAN /\ replanned' \in BOOLEAN /\ monitored' \in BOOLEAN /\ api_error' \in BOOLEAN
      /\ pods' \subseteq [name : Names', host : Hosts] /\ before' \in {before, pods}
      /\ handler'.at = "idle"
  BY <1>1, <1>3, <1>4
<1> QED
  BY <1>3, <1>5, <1>6, TypeStep

\* Changes of the application's tables.
LEMMA HostsChanged ==
  ASSUME NEW N, NEW a \in AppsOf(N), NEW c \in Comps, NEW hosts \in Seq(Entries)
  PROVE  \A b : b = [a EXCEPT !.hosts[c] = hosts] => b \in AppsOf(N)
<1> DEFINE H == Seq(Entries)
           M == Seq(ManifestsOf(N))
<1>1. AppsOf(N) = [known : {TRUE}, here : BOOLEAN, hosts : [Comps -> H],
                   manifests : [Comps -> M], pod_names : SUBSET N]
  BY DEF AppsOf
<1>2. hosts \in H
  OBVIOUS
<1> HIDE DEF H, M
<1>3. a \in [known : {TRUE}, here : BOOLEAN, hosts : [Comps -> H],
             manifests : [Comps -> M], pod_names : SUBSET N]
  BY <1>1
<1>4. [a.hosts EXCEPT ![c] = hosts] \in [Comps -> H]
  BY <1>2, <1>3
<1>5. [a EXCEPT !.hosts[c] = hosts]
        \in [known : {TRUE}, here : BOOLEAN, hosts : [Comps -> H],
             manifests : [Comps -> M], pod_names : SUBSET N]
  BY <1>3, <1>4
<1> QED
  BY <1>1, <1>5

LEMMA ManifestsChanged ==
  ASSUME NEW N, NEW a \in AppsOf(N), NEW c \in Comps,
         NEW names \in SUBSET N, NEW list \in Seq(ManifestsOf(N))
  PROVE  \A b : \/ b = [a EXCEPT !.manifests[c] = list, !.pod_names = names]
               \/ b = [a EXCEPT !.pod_names = names, !.manifests[c] = list]
               => b \in AppsOf(N)
<1> DEFINE H == Seq(Entries)
           M == Seq(ManifestsOf(N))
<1>1. AppsOf(N) = [known : {TRUE}, here : BOOLEAN, hosts : [Comps -> H],
                   manifests : [Comps -> M], pod_names : SUBSET N]
  BY DEF AppsOf
<1>2. list \in M
  OBVIOUS
<1> HIDE DEF H, M
<1>3. a \in [known : {TRUE}, here : BOOLEAN, hosts : [Comps -> H],
             manifests : [Comps -> M], pod_names : SUBSET N]
  BY <1>1
<1>4. [a.manifests EXCEPT ![c] = list] \in [Comps -> M]
  BY <1>2, <1>3
<1>5. \A b : \/ b = [a EXCEPT !.manifests[c] = list, !.pod_names = names]
            \/ b = [a EXCEPT !.pod_names = names, !.manifests[c] = list]
            => b \in [known : {TRUE}, here : BOOLEAN, hosts : [Comps -> H],
                      manifests : [Comps -> M], pod_names : SUBSET N]
  BY <1>3, <1>4
<1> QED
  BY <1>1, <1>5

\* The same with other tables of hosts or of manifests for all components.
LEMMA TablesChanged ==
  ASSUME NEW N, NEW a \in AppsOf(N), NEW hosts \in [Comps -> Seq(Entries)],
         NEW tables \in [Comps -> Seq(ManifestsOf(N))], NEW names \in SUBSET N
  PROVE  \A b : \/ b = [a EXCEPT !.hosts = hosts]
               \/ b = [a EXCEPT !.manifests = tables, !.hosts = hosts]
               \/ b = [a EXCEPT !.pod_names = names, !.hosts = hosts]
               => b \in AppsOf(N)
BY DEF AppsOf

LEMMA StepsOfType ==
  ASSUME NEW steps \in Seq(Steps), NEW c \in Comps
  PROVE  /\ StepsOf(steps, c) \in Seq(Steps)
         /\ \A j \in DOMAIN StepsOf(steps, c) :
              StepsOf(steps, c)[j].comp = c /\ \E i \in DOMAIN steps : StepsOf(steps, c)[j] = steps[i]
         /\ \A i \in DOMAIN steps : steps[i].comp = c =>
              \E j \in DOMAIN StepsOf(steps, c) : StepsOf(steps, c)[j] = steps[i]
<1> DEFINE T == {s \in Steps : s.comp = c}
<1>1. StepsOf(steps, c) = Filter(steps, T)
  BY DEF StepsOf
<1>2. \A i \in DOMAIN steps : steps[i].comp = c => steps[i] \in T
  OBVIOUS
<1>3. \A t \in T : t.comp = c
  OBVIOUS
<1> HIDE DEF T
<1> QED
  BY <1>1, <1>2, <1>3, Filtered

LEMMA InitialHostsType ==
  ASSUME TypeOK, handler \in Workers, NEW c \in Comps, NEW todo
  PROVE  InitialHosts(c, todo) \in Seq(Entries)
<1>1. PICK entries : entries = StepsOf(handler.steps, c)
  OBVIOUS
<1>2. entries \in Seq(Steps)
  BY <1>1, StepsOfType DEF Workers
<1>3. PICK waiting : waiting = {todo[i] : i \in DOMAIN todo}
  OBVIOUS
<1> DEFINE status(i) == IF entries[i] \in waiting THEN "PENDING" ELSE "ACTIVE"
           hosts == [i \in DOMAIN entries |-> [host |-> entries[i].host, status |-> status(i)]]
<1>4. InitialHosts(c, todo) = hosts
  BY <1>1, <1>3 DEF InitialHosts
<1>5. \A i \in DOMAIN entries : entries[i].host \in Hosts /\ status(i) \in {"PENDING", "ACTIVE"}
  <2>1. \A i \in DOMAIN entries : entries[i] \in Steps
    BY <1>2
  <2>2. \A s \in Steps : s.host \in Hosts
    BY DEF Steps
  <2>3. \A i \in DOMAIN entries : entries[i].host \in Hosts
    BY <2>1, <2>2
  <2>4. \A i : status(i) \in {"PENDING", "ACTIVE"}
    OBVIOUS
  <2> HIDE DEF status
  <2> QED
    BY <2>3, <2>4
<1> HIDE DEF status
<1>6. \A i \in DOMAIN entries : [host |-> entries[i].host, status |-> status(i)] \in Entries
  BY <1>5 DEF Entries
<1>7. DOMAIN entries = 1..Len(entries) /\ Len(entries) \in Nat
  BY <1>2
<1>8. hosts \in [1..Len(entries) -> Entries]
  BY <1>6, <1>7
<1> QED
  BY <1>4, <1>7, <1>8

\* What is created next, and what becomes of the handler and of the application.
Deploys(i, c, h, todo, name, hosts, a) ==
  /\ i \in DOMAIN handler.todo /\ IsNext(i, handler.todo)
  /\ c = handler.todo[i].comp /\ h = handler.todo[i].host /\ todo = RemoveAt(handler.todo, i)
  /\ name = PodName(c, next_pod) /\ hosts = InitialHosts(c, todo)
  /\ a = [app EXCEPT !.hosts[c] = hosts]
  /\ \/ /\ CreateOk([name |-> name, host |-> h])
        /\ app' = [a EXCEPT !.manifests[c] = Append(@, Manifest(name, h, "ACTIVE")),
                            !.pod_names = @ \union {name}]
        /\ handler' = [handler EXCEPT !.todo = todo, !.report.placed = @ \union {name}]
     \/ /\ CreateFails(name)
        /\ app' = [a EXCEPT !.manifests[c] = Append(@, Manifest(name, h, "PENDING")),
                            !.pod_names = {}]
        /\ Finish("FAILED")

LEMMA DeployParts ==
  ASSUME DeployInstance
  PROVE  \E i, c, h, todo, name, hosts, a : Deploys(i, c, h, todo, name, hosts, a)
<1>1. PICK i \in DOMAIN handler.todo :
         LET c == handler.todo[i].comp
             h == handler.todo[i].host
             todo == RemoveAt(handler.todo, i)
             name == PodName(c, next_pod)
             deployed == [app EXCEPT !.hosts[c] = InitialHosts(c, todo)]
         IN
         /\ IsNext(i, handler.todo)
         /\ \/ /\ CreateOk([name |-> name, host |-> h])
               /\ app' = [deployed EXCEPT !.manifests[c] = Append(@, Manifest(name, h, "ACTIVE")),
                                          !.pod_names = @ \union {name}]
               /\ handler' = [handler EXCEPT !.todo = todo, !.report.placed = @ \union {name}]
            \/ /\ CreateFails(name)
               /\ app' = [deployed EXCEPT !.manifests[c] = Append(@, Manifest(name, h, "PENDING")),
                                          !.pod_names = {}]
               /\ Finish("FAILED")
  BY Zenon DEF DeployInstance
<1>2. PICK c, h, todo : c = handler.todo[i].comp /\ h = handler.todo[i].host
                         /\ todo = RemoveAt(handler.todo, i)
  OBVIOUS
<1>3. PICK name, hosts : name = PodName(c, next_pod) /\ hosts = InitialHosts(c, todo)
  OBVIOUS
<1>4. PICK a : a = [app EXCEPT !.hosts[c] = hosts]
  OBVIOUS
<1>5. \/ /\ CreateOk([name |-> name, host |-> h])
         /\ app' = [a EXCEPT !.manifests[c] = Append(@, Manifest(name, h, "ACTIVE")),
                             !.pod_names = @ \union {name}]
         /\ handler' = [handler EXCEPT !.todo = todo, !.report.placed = @ \union {name}]
      \/ /\ CreateFails(name)
         /\ app' = [a EXCEPT !.manifests[c] = Append(@, Manifest(name, h, "PENDING")),
                             !.pod_names = {}]
         /\ Finish("FAILED")
  BY <1>1, <1>2, <1>3, <1>4
<1>6. Deploys(i, c, h, todo, name, hosts, a)
  BY <1>1, <1>2, <1>3, <1>4, <1>5 DEF Deploys
<1> QED
  BY <1>6

LEMMA DeployTypes ==
  ASSUME TypeOK, DeployInstance
  PROVE  TypeOK'
<1>1. /\ next_pod \in Nat /\ pods \subseteq [name : Names, host : Hosts] /\ faults \in 0..MaxFaults
      /\ announced \in BOOLEAN /\ relisted \in BOOLEAN /\ respecified \in BOOLEAN
      /\ disordered \in BOOLEAN /\ replanned \in BOOLEAN /\ monitored \in BOOLEAN
      /\ app.known /\ next_pod # 0
  BY DEF TypeOK, DeployInstance
<1>2. handler \in Workers /\ handler.todo \in Seq(Steps) /\ handler.report \in Reports
  BY Worker DEF DeployInstance
<1>3. /\ next_pod' = next_pod + 1
      /\ UNCHANGED <<notifications, app_copy, monitored, resource, announced, relisted, resources,
                     answers, before, respecified, disordered, replanned>>
  BY DEF DeployInstance, envVars, historyVars
<1>4. /\ Names \subseteq Names' /\ Manifests \subseteq Manifests' /\ Apps \subseteq Apps'
      /\ Reports \subseteq Reports' /\ Workers \subseteq Workers'
  BY <1>1, <1>3, NamesGrow, WorkersGrow
<1>5. PICK i, c, h, todo, name, hosts, a :
         Deploys(i, c, h, todo, name, hosts, a)
  BY DeployParts
<1>6. /\ i \in DOMAIN handler.todo
       /\ c = handler.todo[i].comp /\ h = handler.todo[i].host /\ todo = RemoveAt(handler.todo, i)
       /\ name = PodName(c, next_pod) /\ hosts = InitialHosts(c, todo)
       /\ a = [app EXCEPT !.hosts[c] = hosts]
  BY <1>5 DEF Deploys
<1>7. \/ /\ CreateOk([name |-> name, host |-> h])
         /\ app' = [a EXCEPT !.manifests[c] = Append(@, Manifest(name, h, "ACTIVE")),
                             !.pod_names = @ \union {name}]
         /\ handler' = [handler EXCEPT !.todo = todo, !.report.placed = @ \union {name}]
      \/ /\ CreateFails(name)
         /\ app' = [a EXCEPT !.manifests[c] = Append(@, Manifest(name, h, "PENDING")),
                             !.pod_names = {}]
         /\ Finish("FAILED")
  BY <1>5 DEF Deploys
<1>8. c \in Comps /\ h \in Hosts /\ todo \in Seq(Steps)
  <2>1. handler.todo[i] \in Steps
    BY <1>2, <1>6
  <2>2. todo \in Seq(Steps)
    BY <1>2, <1>6, Removed
  <2> QED
    BY <1>6, <2>1, <2>2 DEF Steps
<1>9. name \in Names'
  BY <1>1, <1>3, <1>6, <1>8 DEF PodName, Names
<1>10. a \in Apps /\ a \in AppsOf(Names)
  <2>1. hosts \in Seq(Entries)
    BY <1>2, <1>6, <1>8, InitialHostsType
  <2>2. app \in AppsOf(Names)
    BY <1>1, KnownApp
  <2>3. a \in AppsOf(Names)
    BY <1>8, <1>6, <2>1, <2>2, HostsChanged
  <2> QED
    BY <2>3, AppFields, Forms
<1>11. \A status \in {"ACTIVE", "PENDING"} :
        Append(a.manifests[c], Manifest(name, h, status)) \in Seq(Manifests')
  <2> TAKE status \in {"ACTIVE", "PENDING"}
  <2>1. Manifest(name, h, status) \in Manifests'
    BY <1>8, <1>9 DEF Manifest, Manifests
  <2>2. a.manifests[c] \in Seq(Manifests)
    BY <1>8, <1>10, AppFields, Forms
  <2>3. a.manifests[c] \in Seq(Manifests')
    BY <1>4, <2>2, SeqGrows
  <2> QED
    BY <2>1, <2>3, Appended
<1>12. a \in AppsOf(Names') /\ a.pod_names \subseteq Names'
  BY <1>4, <1>10, AppFields, Forms
<1>13. app' \in Apps' /\ app'.known
  <2> DEFINE list(status) == Append(a.manifests[c], Manifest(name, h, status))
             with(status, names) == [a EXCEPT !.manifests[c] = list(status), !.pod_names = names]
  <2>1. app' = with("ACTIVE", a.pod_names \union {name}) \/ app' = with("PENDING", {})
    BY <1>7
  <2>2. a.pod_names \union {name} \in SUBSET Names' /\ {} \in SUBSET Names'
    BY <1>9, <1>12
  <2>3. ASSUME NEW status \in {"ACTIVE", "PENDING"}, NEW names \in SUBSET Names'
        PROVE  with(status, names) \in Apps'
    <3>1. list(status) \in Seq(ManifestsOf(Names'))
      BY <1>11, Forms
    <3>2. PICK l \in Seq(ManifestsOf(Names')) : l = list(status)
      BY <3>1
    <3>3. with(status, names) = [a EXCEPT !.manifests[c] = l, !.pod_names = names]
      BY <3>2
    <3> HIDE DEF with, list
    <3>4. \A b : b = [a EXCEPT !.manifests[c] = l, !.pod_names = names] => b \in AppsOf(Names')
      BY <1>8, <1>12, <3>2, ManifestsChanged, Zenon
    <3>5. with(status, names) \in AppsOf(Names')
      BY <3>3, <3>4
    <3> QED
      BY <3>5, Forms
  <2> HIDE DEF with
  <2>4. app' \in Apps'
    BY <2>1, <2>2, <2>3
  <2> QED
    BY <2>4 DEF Apps
<1>14. /\ handler' \in Workers'
       /\ handler'.at = "reply" => handler'.status # "none"
       /\ handler'.at # "changing"
  <2>1. CASE Finish("FAILED")
    <3>1. handler' \in Workers /\ handler'.at = "reply" /\ handler'.status = "FAILED"
      BY <1>2, <2>1, Finished
    <3> QED
      BY <1>4, <3>1
  <2>2. CASE ~Finish("FAILED")
    <3>1. PICK report : report = [handler.report EXCEPT !.placed = @ \union {name}]
      OBVIOUS
    <3>2. handler' = [handler EXCEPT !.todo = todo, !.report = report]
      BY <1>7, <2>2, <3>1
    <3>3. report \in Reports' /\ handler.at = "deploying"
      BY <1>2, <1>4, <1>9, <1>6, <3>1 DEF Reports, DeployInstance
    <3>4. handler' \in Workers' /\ handler'.at = "deploying"
      <4> DEFINE S == Seq(Steps)
      <4>1. Workers' = [at : {"reply", "deploying", "acting", "changing", "creating",
                              "deleting"},
                        id : DOMAIN answers', initial : BOOLEAN, steps : S, todo : S,
                        pod : SUBSET Names', status : {"none", "COMPLETED", "FAILED"},
                        report : Reports']
        BY DEF Workers
      <4>2. todo \in S /\ handler \in Workers'
        BY <1>2, <1>4, <1>8
      <4> HIDE DEF S
      <4> QED
        BY <3>2, <3>3, <4>1, <4>2
    <3> QED
      BY <3>3, <3>4
  <2> QED
    BY <2>1, <2>2
<1>15. /\ pods' \subseteq [name : Names', host : Hosts] /\ faults' \in 0..MaxFaults
       /\ api_error' \in BOOLEAN
  <2>1. pods' \subseteq pods \union {[name |-> name, host |-> h]}
    BY <1>7, Calls
  <2>2. faults' \in 0..MaxFaults /\ api_error' \in BOOLEAN
    BY <1>7, Calls
  <2> QED
    BY <1>1, <1>4, <1>8, <1>9, <2>1, <2>2
<1>16. /\ next_pod' \in Nat /\ next_pod <= next_pod'
       /\ announced' \in BOOLEAN /\ relisted' \in BOOLEAN /\ respecified' \in BOOLEAN
       /\ disordered' \in BOOLEAN /\ replanned' \in BOOLEAN /\ monitored' \in BOOLEAN
  BY <1>1, <1>3
<1> QED
  BY <1>3, <1>13, <1>14, <1>15, <1>16, TypeStep

\* What a step of a plan must show.
LEMMA WorkStep ==
  ASSUME TypeOK, next_pod' \in Nat, next_pod <= next_pod',
         app' \in {app, app_copy} \union Apps',
         handler' \in {Idle} \union Workers',
         handler'.at \notin {"idle", "reply"} => app'.known,
         handler'.at = "changing" => handler'.todo # << >>,
         handler'.at = "reply" => handler'.status # "none",
         \/ answers' = answers
         \/ \E i \in DOMAIN answers : \E a \in {"COMPLETED", "FAILED", "raised"} :
              answers' = [answers EXCEPT ![i] = a],
         pods' \subseteq [name : Names', host : Hosts],
         UNCHANGED <<notifications, app_copy, resource, announced, relisted, resources, before, disordered, replanned>>,
         monitored' \in {monitored, TRUE}, respecified' \in {respecified, TRUE}, api_error' \in BOOLEAN,
         faults' \in 0..MaxFaults
  PROVE  TypeOK'
<1>1. /\ announced' \in BOOLEAN /\ relisted' \in BOOLEAN /\ respecified' \in BOOLEAN
      /\ disordered' \in BOOLEAN /\ replanned' \in BOOLEAN /\ monitored' \in BOOLEAN
  BY DEF TypeOK
<1> QED
  BY <1>1, TypeStep

\* What the type invariant says of the simple variables.
LEMMA Basics ==
  ASSUME TypeOK
  PROVE  /\ next_pod \in Nat /\ next_pod > 0 /\ pods \subseteq [name : Names, host : Hosts]
         /\ faults \in 0..MaxFaults /\ api_error \in BOOLEAN
         /\ (handler.at \notin {"idle", "reply"} => app.known)
BY DEF TypeOK

\* Raise and FailAndRestore leave well-formed values behind.
LEMMA Raised ==
  ASSUME TypeOK, handler.at \notin {"idle", "removing"}, Raise
  PROVE  /\ handler' = Idle /\ handler'.at = "idle"
         /\ \E i \in DOMAIN answers : \E a \in {"COMPLETED", "FAILED", "raised"} :
              answers' = [answers EXCEPT ![i] = a]
BY Worker DEF Raise, Idle

LEMMA TurnTypes ==
  ASSUME TypeOK, FinishInitialPlan \/ StartDeleting
  PROVE  TypeOK'
<1>1. /\ handler \in Workers /\ handler \in WorkersOf(Names, DOMAIN answers) /\ app.known
      /\ handler.at \in {"deploying", "creating"}
  BY Worker, Basics, Forms DEF FinishInitialPlan, StartDeleting
<1>2. /\ UNCHANGED <<notifications, app, app_copy, pods, resource, announced, relisted, resources, answers,
                     before, respecified, disordered, replanned, api_error, next_pod, faults>>
      /\ monitored' \in {monitored, TRUE}
  BY DEF FinishInitialPlan, StartDeleting, envVars, historyVars
<1>3. Names' = Names /\ Workers' = Workers
  BY <1>2, Same
<1>4. /\ handler' \in Workers
      /\ handler'.at = "reply" => handler'.status # "none"
      /\ handler'.at # "changing"
  <2>1. CASE FinishInitialPlan
    <3>1. Finish("COMPLETED")
      BY <2>1 DEF FinishInitialPlan
    <3> QED
      BY <1>1, <3>1, Finished
  <2>2. CASE StartDeleting
    <3>1. handler' = [handler EXCEPT !.at = "deleting"] /\ "deleting" \in States
      BY <2>2 DEF StartDeleting, States
    <3>2. handler' \in WorkersOf(Names, DOMAIN answers)
      BY <1>1, <3>1, WorkerAt, Zenon
    <3>3. handler'.at = "deleting"
      BY <1>1, <3>1 DEF Workers
    <3> QED
      BY <3>2, <3>3, Forms
  <2> QED
    BY <2>1, <2>2
<1>5. /\ next_pod' \in Nat /\ next_pod <= next_pod' /\ faults' \in 0..MaxFaults
      /\ api_error' \in BOOLEAN /\ pods' \subseteq [name : Names', host : Hosts] /\ app'.known
  BY <1>1, <1>2, <1>3, Basics
<1> QED
  BY <1>2, <1>3, <1>4, <1>5, WorkStep

-----------------------------------------------------------------------------
(* Later plans. *)

LEMMA HostAppended ==
  ASSUME NEW hosts \in Seq(Entries), NEW h \in Hosts,
         NEW status \in {"PENDING", "ACTIVE", "INACTIVE"}
  PROVE  append_host_to_list(hosts, h, status) \in Seq(Entries)
<1>1. hosts \in [1..Len(hosts) -> Entries] /\ Len(hosts) \in Nat
  OBVIOUS
<1>2. \A e \in Entries : [e EXCEPT !.status = status] \in Entries
  BY DEF Entries
<1>3. [host |-> h, status |-> status] \in Entries
  BY DEF Entries
<1>4. CASE Listed(hosts, h)
  <2> DEFINE new(i) == IF hosts[i].host = h THEN [hosts[i] EXCEPT !.status = status] ELSE hosts[i]
  <2>1. append_host_to_list(hosts, h, status) = [i \in DOMAIN hosts |-> new(i)]
    BY <1>4 DEF append_host_to_list
  <2>2. \A i \in 1..Len(hosts) : new(i) \in Entries
    BY <1>1, <1>2
  <2> HIDE DEF new
  <2>3. [i \in 1..Len(hosts) |-> new(i)] \in Seq(Entries)
    BY <1>1, <2>2
  <2>4. DOMAIN hosts = 1..Len(hosts)
    BY <1>1
  <2> QED
    BY <2>1, <2>3, <2>4
<1>5. CASE ~Listed(hosts, h)
  <2>1. append_host_to_list(hosts, h, status) = Append(hosts, [host |-> h, status |-> status])
    BY <1>5 DEF append_host_to_list
  <2> QED
    BY <1>3, <2>1, Appended
<1> QED
  BY <1>4, <1>5

LEMMA ActTypes ==
  ASSUME TypeOK, ActMove \/ ActDeploy \/ ActRemove
  PROVE  TypeOK'
<1>1. PICK s : s = Head(handler.todo)
  OBVIOUS
<1>2. handler.at = "acting" /\ handler.todo # << >>
  BY DEF ActMove, ActDeploy, ActRemove, Act
<1>3. /\ handler \in Workers /\ handler \in WorkersOf(Names, DOMAIN answers)
      /\ handler.todo \in Seq(Steps) /\ app \in AppsOf(Names) /\ app \in Apps
  BY <1>2, Worker, Basics, KnownApp, Forms
<1>4. s.comp \in Comps /\ s.host \in Hosts /\ s.src_host \in Hosts
  <2>1. s \in Steps
    BY <1>1, <1>2, <1>3, Shortened
  <2> QED
    BY <2>1 DEF Steps
<1>5. UNCHANGED <<notifications, app_copy, monitored, pods, resource, announced, relisted, resources,
                  answers, before, respecified, disordered, replanned, api_error, next_pod, faults>>
  BY DEF ActMove, ActDeploy, ActRemove, Act, ActionEnds, envVars
<1>6. Names' = Names /\ Workers' = Workers /\ Apps' = Apps
  BY <1>5, Same
<1>7. PICK list : list = app.hosts[s.comp]
  OBVIOUS
<1>8. list \in Seq(Entries)
  BY <1>3, <1>4, <1>7, AppFields
<1>9. app' = app \/ \E hosts \in Seq(Entries) : app' = [app EXCEPT !.hosts[s.comp] = hosts]
  <2>1. CASE ActMove
    <3>1. PICK left : left = append_host_to_list(list, s.src_host, "INACTIVE")
      OBVIOUS
    <3>2. PICK hosts : hosts = append_host_to_list(left, s.host, "PENDING")
      OBVIOUS
    <3>3. hosts \in Seq(Entries)
      BY <1>4, <1>8, <3>1, <3>2, HostAppended
    <3>4. app' = app \/ app' = [app EXCEPT !.hosts[s.comp] = hosts]
      BY <1>1, <1>7, <2>1, <3>1, <3>2 DEF ActMove
    <3> QED
      BY <3>3, <3>4
  <2>2. CASE ActDeploy
    <3>1. PICK hosts : hosts = append_host_to_list(list, s.host, "PENDING")
      OBVIOUS
    <3>2. hosts \in Seq(Entries)
      BY <1>4, <1>8, <3>1, HostAppended
    <3>3. app' = app \/ app' = [app EXCEPT !.hosts[s.comp] = hosts]
      BY <1>1, <1>7, <2>2, <3>1 DEF ActDeploy
    <3> QED
      BY <3>2, <3>3
  <2>3. CASE ActRemove
    <3>1. PICK hosts : hosts = append_host_to_list(list, s.host, "INACTIVE")
      OBVIOUS
    <3>2. hosts \in Seq(Entries)
      BY <1>4, <1>8, <3>1, HostAppended
    <3>3. app' = app \/ app' = [app EXCEPT !.hosts[s.comp] = hosts]
      BY <1>1, <1>7, <2>3, <3>1 DEF ActRemove
    <3> QED
      BY <3>2, <3>3
  <2> QED
    BY <2>1, <2>2, <2>3
<1>10. app' \in Apps' /\ app'.known
  <2>1. ASSUME NEW hosts \in Seq(Entries), app' = [app EXCEPT !.hosts[s.comp] = hosts]
        PROVE  app' \in AppsOf(Names)
    BY <1>3, <1>4, <2>1, HostsChanged, Zenon
  <2>2. app' \in AppsOf(Names)
    BY <1>3, <1>9, <2>1
  <2> QED
    BY <1>6, <2>2, AppFields, Forms
<1>11. /\ handler' \in Workers /\ handler'.at \in {"acting", "reply"}
       /\ handler'.at = "reply" => handler'.status # "none"
  <2>1. GoOn \/ Finish("FAILED")
    BY DEF ActMove, ActDeploy, ActRemove
  <2>2. CASE GoOn
    <3>1. PICK todo : todo = Tail(handler.todo)
      OBVIOUS
    <3>2. todo \in Seq(Steps)
      BY <1>2, <1>3, <3>1, Shortened
    <3>3. handler' = [handler EXCEPT !.todo = todo]
      BY <2>2, <3>1 DEF GoOn
    <3>4. handler' \in WorkersOf(Names, DOMAIN answers)
      BY <1>3, <3>2, <3>3, WorkerTodo, Zenon
    <3>5. handler'.at = handler.at
      BY <1>3, <3>3 DEF Workers
    <3> QED
      BY <1>2, <3>4, <3>5, Forms
  <2>3. CASE Finish("FAILED")
    BY <1>3, <2>3, Finished
  <2> QED
    BY <2>1, <2>2, <2>3
<1> QED
  BY <1>5, <1>6, <1>10, <1>11, Basics, WorkStep

\* FailAndRestore: the application is the copy again.
LEMMA Restored ==
  ASSUME handler \in Workers, FailAndRestore
  PROVE  app' = app_copy /\ handler' \in Workers /\ handler'.at = "reply" /\ handler'.status = "FAILED"
BY Finished DEF FailAndRestore

LEMMA RenamedType ==
  ASSUME NEW N, NEW list \in Seq(ManifestsOf(N)), NEW name \in N
  PROVE  Renamed(list, name) \in Seq(ManifestsOf(N))
<1> DEFINE new(i) == IF list[i].shared THEN [list[i] EXCEPT !.name = name] ELSE list[i]
<1>1. list \in [1..Len(list) -> ManifestsOf(N)] /\ Len(list) \in Nat /\ DOMAIN list = 1..Len(list)
  OBVIOUS
<1>2. \A m \in ManifestsOf(N) : [m EXCEPT !.name = name] \in ManifestsOf(N)
  BY DEF ManifestsOf
<1>3. \A i \in 1..Len(list) : new(i) \in ManifestsOf(N)
  BY <1>1, <1>2
<1>4. Renamed(list, name) = [i \in DOMAIN list |-> new(i)]
  BY DEF Renamed
<1> HIDE DEF new
<1>5. [i \in 1..Len(list) |-> new(i)] \in Seq(ManifestsOf(N))
  BY <1>1, <1>3
<1> QED
  BY <1>1, <1>4, <1>5

LEMMA RespecifiedType ==
  ASSUME NEW N, NEW list \in Seq(ManifestsOf(N)), NEW old, NEW name \in N, NEW h \in Hosts
  PROVE  [i \in DOMAIN list |-> Respecify(list[i], old, name, h)] \in Seq(ManifestsOf(N))
<1>1. list \in [1..Len(list) -> ManifestsOf(N)] /\ Len(list) \in Nat /\ DOMAIN list = 1..Len(list)
  OBVIOUS
<1>2. \A m \in ManifestsOf(N) : Respecify(m, old, name, h) \in ManifestsOf(N)
  BY DEF ManifestsOf, Respecify
<1>3. \A i \in 1..Len(list) : Respecify(list[i], old, name, h) \in ManifestsOf(N)
  BY <1>1, <1>2
<1>4. [i \in 1..Len(list) |-> Respecify(list[i], old, name, h)] \in Seq(ManifestsOf(N))
  BY <1>1, <1>3
<1> QED
  BY <1>1, <1>4

\* The manifests of an application, when new names are in use.
LEMMA ManifestsGrow ==
  ASSUME TypeOK, app.known, next_pod' \in Nat, next_pod <= next_pod', NEW c \in Comps
  PROVE  /\ app \in AppsOf(Names') /\ app.manifests[c] \in Seq(ManifestsOf(Names'))
         /\ app.pod_names \subseteq Names'
<1>1. Apps \subseteq Apps'
  BY Basics, NamesGrow
<1>2. app \in AppsOf(Names')
  BY <1>1, KnownApp, Forms
<1> QED
  BY <1>2, AppFields

LEMMA ChangeTypes ==
  ASSUME TypeOK, ActChangeSpec
  PROVE  TypeOK'
<1>1. PICK s, name : s = Head(handler.todo) /\ name = PodName(s.comp, next_pod)
  OBVIOUS
<1>2. handler.at = "acting" /\ handler.todo # << >>
  BY DEF ActChangeSpec
<1>3. /\ handler \in Workers /\ handler \in WorkersOf(Names, DOMAIN answers)
      /\ handler.todo \in Seq(Steps) /\ app.known
  BY <1>2, Worker, Basics, Forms
<1>4. s.comp \in Comps /\ s.host \in Hosts
  <2>1. s \in Steps
    BY <1>1, <1>2, <1>3, Shortened
  <2> QED
    BY <2>1 DEF Steps
<1>5. UNCHANGED <<notifications, app_copy, monitored, resource, announced, relisted, resources,
                  before, disordered, replanned>>
  BY DEF ActChangeSpec, envVars
<1> DEFINE Stops ==
      \/ Finish("FAILED") /\ UNCHANGED <<app, answers, pods, respecified, api_error, next_pod, faults>>
      \/ Raise /\ UNCHANGED <<app, pods, respecified, api_error, next_pod, faults>>
      \/ CreateFails(name) /\ FailAndRestore /\ UNCHANGED <<answers, respecified, next_pod>>
    Creates ==
      /\ CreateOk([name |-> name, host |-> s.host])
      /\ app' = [app EXCEPT !.pod_names = @ \union {name},
                            !.manifests[s.comp] = Renamed(@, name)]
      /\ handler' = [handler EXCEPT !.at = "changing", !.pod = {name}]
      /\ respecified' = TRUE /\ next_pod' = next_pod + 1
      /\ UNCHANGED answers
<1>6. Stops \/ Creates
  BY <1>1 DEF ActChangeSpec
<1>7. CASE Stops
  <2>1. Stops
    BY <1>7
  <2>2. next_pod' = next_pod /\ respecified' = respecified
    BY <2>1
  <2>3. Names' = Names /\ (answers' = answers => Workers' = Workers)
    BY <2>2, Same
  <2>4. /\ handler' \in {Idle} \union Workers' /\ handler'.at \in {"idle", "reply"}
        /\ handler'.at = "reply" => handler'.status # "none"
        /\ app' \in {app, app_copy}
        /\ \/ answers' = answers
           \/ \E i \in DOMAIN answers : \E a \in {"COMPLETED", "FAILED", "raised"} :
                answers' = [answers EXCEPT ![i] = a]
    <3>1. CASE Finish("FAILED") /\ UNCHANGED <<app, answers>>
      BY <1>3, <2>3, <3>1, Finished
    <3>2. CASE Raise /\ UNCHANGED app
      BY <1>2, <3>2, Raised
    <3>3. CASE FailAndRestore /\ UNCHANGED answers
      BY <1>3, <2>3, <3>3, Restored
    <3> QED
      BY <2>1, <3>1, <3>2, <3>3
  <2>5. pods' = pods /\ faults' \in 0..MaxFaults /\ api_error' \in BOOLEAN
    BY <2>1, Calls, Basics
  <2>6. next_pod' \in Nat /\ next_pod <= next_pod' /\ pods' \subseteq [name : Names', host : Hosts]
    BY <2>2, <2>3, <2>5, Basics
  <2> QED
    BY <1>5, <2>2, <2>4, <2>5, <2>6, WorkStep
<1> HIDE DEF Stops
<1>8. CASE Creates
  <2>1. /\ next_pod' = next_pod + 1 /\ respecified' = TRUE /\ answers' = answers
        /\ CreateOk([name |-> name, host |-> s.host])
    BY <1>8
  <2>2. next_pod' \in Nat /\ next_pod <= next_pod'
    BY <2>1, Basics
  <2>3. name \in Names'
    BY <1>1, <1>4, <2>1, Basics DEF PodName, Names
  <2>4. /\ app \in AppsOf(Names') /\ app.manifests[s.comp] \in Seq(ManifestsOf(Names'))
        /\ app.pod_names \subseteq Names'
    BY <1>3, <1>4, <2>2, ManifestsGrow
  <2>5. PICK list \in Seq(ManifestsOf(Names')) : list = Renamed(app.manifests[s.comp], name)
    BY <2>3, <2>4, RenamedType
  <2>6. PICK names \in SUBSET Names' : names = app.pod_names \union {name}
    BY <2>3, <2>4
  <2>7. app' = [app EXCEPT !.pod_names = names, !.manifests[s.comp] = list]
    BY <1>8, <2>5, <2>6
  <2>8. app' \in AppsOf(Names')
    BY <1>4, <2>4, <2>7, ManifestsChanged, Zenon
  <2>9. app' \in Apps' /\ app'.known
    BY <2>8, Forms, AppFields
  <2>10. Workers \subseteq Workers' /\ Names \subseteq Names'
    BY <2>1, <2>2, Basics, WorkersGrow, NamesGrow
  <2>11. handler' \in Workers' /\ handler'.at = "changing" /\ handler'.todo = handler.todo
    <3>1. handler \in WorkersOf(Names', DOMAIN answers')
      BY <1>3, <2>10, Forms
    <3>2. handler' = [handler EXCEPT !.at = "changing", !.pod = {name}]
      BY <1>8
    <3>3. "changing" \in States /\ {name} \in SUBSET Names'
      BY <2>3 DEF States
    <3>4. handler' \in WorkersOf(Names', DOMAIN answers')
      BY <3>1, <3>2, <3>3, WorkerPod, Zenon
    <3> QED
      BY <1>3, <3>2, <3>4, Forms DEF Workers
  <2>12. /\ pods' \subseteq [name : Names', host : Hosts] /\ faults' \in 0..MaxFaults
         /\ api_error' \in BOOLEAN
    BY <1>4, <2>1, <2>3, <2>10, Calls, Basics
  <2> QED
    BY <1>2, <1>5, <2>1, <2>2, <2>9, <2>11, <2>12, WorkStep
<1> QED
  BY <1>6, <1>7, <1>8

LEMMA ReplaceTypes ==
  ASSUME TypeOK, DeleteOldPod
  PROVE  TypeOK'
<1>1. handler.at = "changing" /\ handler.todo # << >>
  BY DEF DeleteOldPod, TypeOK
<1>2. /\ handler \in Workers /\ handler \in WorkersOf(Names, DOMAIN answers)
      /\ handler.todo \in Seq(Steps) /\ handler.pod \subseteq Names /\ handler.report \in Reports
      /\ app.known /\ app \in AppsOf(Names)
  BY <1>1, Worker, Basics, Forms, KnownApp
<1>3. UNCHANGED <<notifications, app_copy, monitored, resource, announced, relisted, resources, answers,
                  before, respecified, disordered, replanned, next_pod>>
  BY DEF DeleteOldPod, envVars, historyVars
<1>4. Names' = Names /\ Workers' = Workers /\ Apps' = Apps
  BY <1>3, Same
<1>5. PICK s : s = Head(handler.todo)
  OBVIOUS
<1>6. s.comp \in Comps /\ s.host \in Hosts
  <2>1. s \in Steps
    BY <1>1, <1>2, <1>5, Shortened
  <2> QED
    BY <2>1 DEF Steps
<1>7. PICK old \in app.pod_names, new \in handler.pod :
         LET t == Head(handler.todo)
         IN
         \/ /\ DeleteOk(old)
            /\ app' = [app EXCEPT
                 !.pod_names = @ \ {old},
                 !.manifests[t.comp] = [i \in DOMAIN @ |-> Respecify(@[i], old, new, t.host)]]
            /\ handler' = [handler EXCEPT !.at = "acting", !.todo = Tail(@), !.pod = {},
                                          !.report.modified = @ \union {ReportedPod(old, new)}]
         \/ DeleteFails(old) /\ FailAndRestore
  BY Zenon DEF DeleteOldPod
<1>8. \/ /\ DeleteOk(old)
         /\ app' = [app EXCEPT
              !.pod_names = @ \ {old},
              !.manifests[s.comp] = [i \in DOMAIN @ |-> Respecify(@[i], old, new, s.host)]]
         /\ handler' = [handler EXCEPT !.at = "acting", !.todo = Tail(@), !.pod = {},
                                       !.report.modified = @ \union {ReportedPod(old, new)}]
      \/ DeleteFails(old) /\ FailAndRestore
  BY <1>5, <1>7
<1>9. /\ pods' \subseteq [name : Names', host : Hosts] /\ faults' \in 0..MaxFaults
      /\ api_error' \in BOOLEAN /\ next_pod' \in Nat /\ next_pod <= next_pod'
  <2>1. pods' \subseteq pods /\ faults' \in 0..MaxFaults /\ api_error' \in BOOLEAN
    BY <1>8, Calls
  <2> QED
    BY <1>3, <1>4, <2>1, Basics
<1>10. CASE FailAndRestore
  <2>1. app' = app_copy /\ handler' \in Workers /\ handler'.at = "reply" /\ handler'.status = "FAILED"
    BY <1>2, <1>10, Restored
  <2> QED
    BY <1>3, <1>4, <1>9, <2>1, WorkStep
<1>11. CASE /\ app' = [app EXCEPT
                  !.pod_names = @ \ {old},
                  !.manifests[s.comp] = [i \in DOMAIN @ |-> Respecify(@[i], old, new, s.host)]]
            /\ handler' = [handler EXCEPT !.at = "acting", !.todo = Tail(@), !.pod = {},
                                          !.report.modified = @ \union {ReportedPod(old, new)}]
  <2>1. app.manifests[s.comp] \in Seq(ManifestsOf(Names)) /\ app.pod_names \subseteq Names
    BY <1>2, <1>6, AppFields
  <2>2. new \in Names
    BY <1>2
  <2>3. PICK list \in Seq(ManifestsOf(Names)) :
          list = [i \in DOMAIN app.manifests[s.comp] |->
                    Respecify(app.manifests[s.comp][i], old, new, s.host)]
    BY <1>6, <2>1, <2>2, RespecifiedType
  <2>4. PICK names \in SUBSET Names : names = app.pod_names \ {old}
    BY <2>1
  <2>5. app' = [app EXCEPT !.pod_names = names, !.manifests[s.comp] = list]
    BY <1>11, <2>3, <2>4
  <2>6. app' \in AppsOf(Names)
    BY <1>2, <1>6, <2>5, ManifestsChanged, Zenon
  <2>7. PICK todo \in Seq(Steps) : todo = Tail(handler.todo)
    BY <1>1, <1>2, Shortened
  <2>8. PICK report \in ReportsOf(Names) :
          report = [handler.report EXCEPT !.modified = @ \union {new}]
    BY <1>2, <2>2 DEF Reports, ReportsOf
  <2>9. PICK pod \in SUBSET Names : pod = {}
    OBVIOUS
  <2>10. handler' = [handler EXCEPT !.at = "acting", !.todo = todo, !.pod = pod, !.report = report]
    BY <1>11, <2>7, <2>8, <2>9 DEF ReportedPod
  <2>11. "acting" \in States
    BY DEF States
  <2>12. handler' \in WorkersOf(Names, DOMAIN answers)
    BY <1>2, <2>10, <2>11, WorkerChanged, Zenon
  <2>13. handler'.at = "acting"
    BY <1>2, <2>10 DEF Workers
  <2>14. handler' \in Workers' /\ handler'.at = "acting"
    BY <1>4, <2>12, <2>13, Forms
  <2>15. app' \in Apps' /\ app'.known
    BY <1>4, <2>6, Forms, AppFields
  <2> QED
    BY <1>3, <1>4, <1>9, <2>14, <2>15, WorkStep
<1> QED
  BY <1>8, <1>10, <1>11

LEMMA AdjustedType ==
  ASSUME TypeOK, app.known, NEW c \in Comps, next_pod' = next_pod + NamesBefore(NumComps + 1)
  PROVE  AdjustedManifests(c) \in Seq(ManifestsOf(Names'))
<1>1. PICK n : n = Len(PendingHosts(c))
  OBVIOUS
<1>2. /\ n \in Nat /\ DOMAIN PendingHosts(c) = 1..n
      /\ \A i \in 1..n : PendingHosts(c)[i].host \in Hosts
  <2>1. PendingHosts(c) \in Seq({e \in Entries : e.status = "PENDING"})
    BY PendingHostsType
  <2>2. n \in Nat /\ DOMAIN PendingHosts(c) = 1..n /\ \A i \in 1..n : PendingHosts(c)[i] \in Entries
    BY <1>1, <2>1
  <2> QED
    BY <2>2 DEF Entries
<1>3. PICK b, t : b = NamesBefore(c) /\ t = NamesBefore(NumComps + 1)
  OBVIOUS
<1>4. b \in Nat /\ t \in Nat /\ b + n <= t
  BY <1>1, <1>3, NewNames
<1>5. next_pod \in Nat /\ next_pod > 0 /\ next_pod' = next_pod + t
  BY <1>3, Basics
<1> DEFINE M(i) == Manifest(PodName(c, next_pod + b + i - 1), PendingHosts(c)[i].host, "PENDING")
<1>6. ASSUME NEW i \in 1..n
      PROVE  M(i) \in ManifestsOf(Names')
  <2>1. next_pod + b + i - 1 \in 1..(next_pod' - 1)
    BY <1>2, <1>4, <1>5
  <2>2. PodName(c, next_pod + b + i - 1) \in Names'
    BY <2>1 DEF PodName, Names
  <2> QED
    BY <1>2, <2>2 DEF Manifest, ManifestsOf
<1>7. AdjustedManifests(c) = [i \in 1..n |-> M(i)]
  BY <1>2, <1>3 DEF AdjustedManifests
<1> HIDE DEF M
<1> QED
  BY <1>2, <1>6, <1>7

LEMMA Joined ==
  ASSUME NEW S, NEW s \in Seq(S), NEW t \in Seq(S)
  PROVE  s \o t \in Seq(S)
OBVIOUS

LEMMA StartDeployingTypes ==
  ASSUME TypeOK, StartDeploying
  PROVE  TypeOK'
<1>1. handler.at = "acting"
  BY DEF StartDeploying
<1>2. /\ handler \in Workers /\ handler \in WorkersOf(Names, DOMAIN answers)
      /\ app.known /\ app \in AppsOf(Names)
  BY <1>1, Worker, Basics, Forms, KnownApp
<1>3. /\ UNCHANGED <<notifications, app_copy, monitored, pods, resource, announced, relisted, resources,
                     answers, before, respecified, disordered, replanned, api_error, faults>>
      /\ next_pod' = next_pod + NamesBefore(NumComps + 1)
      /\ handler' = [handler EXCEPT !.at = "creating"]
  BY DEF StartDeploying, envVars, historyVars
<1>4. next_pod' \in Nat /\ next_pod <= next_pod'
  BY <1>2, <1>3, Basics, NewNames
<1>5. Names \subseteq Names' /\ Workers \subseteq Workers'
  BY <1>3, <1>4, Basics, NamesGrow, WorkersGrow
<1>6. app \in AppsOf(Names') /\ app.pod_names \in SUBSET Names'
  <2>1. Apps \subseteq Apps'
    BY <1>4, Basics, NamesGrow
  <2>2. app \in AppsOf(Names')
    BY <1>2, <2>1, Forms
  <2> QED
    BY <2>2, AppFields
<1>7. PICK tables : tables = [c \in Comps |-> app.manifests[c] \o AdjustedManifests(c)]
  OBVIOUS
<1>8. tables \in [Comps -> Seq(ManifestsOf(Names'))]
  <2>1. ASSUME NEW c \in Comps
        PROVE  app.manifests[c] \o AdjustedManifests(c) \in Seq(ManifestsOf(Names'))
    <3>1. AdjustedManifests(c) \in Seq(ManifestsOf(Names'))
      BY <1>2, <1>3, AdjustedType
    <3>2. app.manifests[c] \in Seq(ManifestsOf(Names'))
      BY <1>2, <1>4, ManifestsGrow
    <3> QED
      BY <3>1, <3>2, Joined
  <2> QED
    BY <1>7, <2>1
<1> DEFINE new(c, i) == IF app.hosts[c][i].status = "PENDING"
                        THEN [app.hosts[c][i] EXCEPT !.status = "ACTIVE"] ELSE app.hosts[c][i]
<1>9. PICK hosts : hosts = [c \in Comps |-> [i \in DOMAIN app.hosts[c] |-> new(c, i)]]
  OBVIOUS
<1>10. hosts \in [Comps -> Seq(Entries)]
  <2>1. ASSUME NEW c \in Comps
        PROVE  [i \in DOMAIN app.hosts[c] |-> new(c, i)] \in Seq(Entries)
    <3>1. PICK l : l = app.hosts[c]
      OBVIOUS
    <3>2. l \in Seq(Entries)
      BY <1>2, <3>1, AppFields
    <3>3. l \in [1..Len(l) -> Entries] /\ Len(l) \in Nat /\ DOMAIN l = 1..Len(l)
      BY <3>2
    <3>4. \A e \in Entries : [e EXCEPT !.status = "ACTIVE"] \in Entries
      BY DEF Entries
    <3>5. \A i \in 1..Len(l) : new(c, i) \in Entries
      BY <3>1, <3>3, <3>4
    <3> HIDE DEF new
    <3>6. [i \in 1..Len(l) |-> new(c, i)] \in Seq(Entries)
      BY <3>3, <3>5
    <3> QED
      BY <3>1, <3>3, <3>6
  <2> HIDE DEF new
  <2> QED
    BY <1>9, <2>1
<1>11. app' = [app EXCEPT !.manifests = tables, !.hosts = hosts]
  BY <1>7, <1>9 DEF StartDeploying
<1> HIDE DEF new
<1>12. app' \in AppsOf(Names')
  BY <1>6, <1>8, <1>10, <1>11, TablesChanged, Zenon
<1>13. "creating" \in States
  BY DEF States
<1>14. handler' \in WorkersOf(Names, DOMAIN answers)
  BY <1>2, <1>3, <1>13, WorkerAt, Zenon
<1>15. handler' \in Workers' /\ handler'.at = "creating"
  BY <1>2, <1>3, <1>5, <1>14, Forms DEF Workers
<1>16. app' \in Apps' /\ app'.known
  BY <1>12, Forms, AppFields
<1>17. /\ pods' \subseteq [name : Names', host : Hosts] /\ faults' \in 0..MaxFaults
       /\ api_error' \in BOOLEAN
  BY <1>3, <1>5, Basics
<1> QED
  BY <1>3, <1>4, <1>15, <1>16, <1>17, WorkStep

LEMMA DeployNewTypes ==
  ASSUME TypeOK, DeployNewPod
  PROVE  TypeOK'
<1>1. handler.at = "creating"
  BY DEF DeployNewPod
<1>2. /\ handler \in Workers /\ handler \in WorkersOf(Names, DOMAIN answers)
      /\ handler.report \in Reports /\ app.known /\ app \in AppsOf(Names)
  BY <1>1, Worker, Basics, Forms, KnownApp
<1>3. UNCHANGED <<notifications, app_copy, monitored, resource, announced, relisted, resources,
                  before, respecified, disordered, replanned, next_pod>>
  BY DEF DeployNewPod, envVars, historyVars
<1>4. Names' = Names /\ Apps' = Apps /\ (answers' = answers => Workers' = Workers)
  BY <1>3, Same
<1>5. PICK c \in Comps : \E i \in DOMAIN app.manifests[c] :
        LET m == app.manifests[c][i]
        IN
        \/ /\ CreateOk([name |-> m.name, host |-> m.host])
           /\ app' = [app EXCEPT !.manifests[c][i].status = "ACTIVE",
                                 !.pod_names = @ \union {m.name}]
           /\ IF Planned(c)
              THEN /\ handler' = [handler EXCEPT !.report.placed = @ \union {m.name}]
                   /\ UNCHANGED answers
              ELSE Raise
        \/ CreateFails(m.name) /\ FailAndRestore /\ UNCHANGED answers
  BY Zenon DEF DeployNewPod
<1>6. PICK i \in DOMAIN app.manifests[c] :
        LET m == app.manifests[c][i]
        IN
        \/ /\ CreateOk([name |-> m.name, host |-> m.host])
           /\ app' = [app EXCEPT !.manifests[c][i].status = "ACTIVE",
                                 !.pod_names = @ \union {m.name}]
           /\ IF Planned(c)
              THEN /\ handler' = [handler EXCEPT !.report.placed = @ \union {m.name}]
                   /\ UNCHANGED answers
              ELSE Raise
        \/ CreateFails(m.name) /\ FailAndRestore /\ UNCHANGED answers
  BY Zenon, <1>5
<1>7. PICK l : l = app.manifests[c]
  OBVIOUS
<1>8. PICK m : m = l[i]
  OBVIOUS
<1>9. l \in Seq(ManifestsOf(Names)) /\ m \in ManifestsOf(Names) /\ app.pod_names \subseteq Names
  <2>1. l \in Seq(ManifestsOf(Names)) /\ app.pod_names \subseteq Names
    BY <1>2, <1>7, AppFields
  <2> QED
    BY <1>7, <1>8, <2>1
<1>10. m.name \in Names /\ m.host \in Hosts
  BY <1>9 DEF ManifestsOf
<1>11. /\ pods' \subseteq [name : Names', host : Hosts] /\ faults' \in 0..MaxFaults
       /\ api_error' \in BOOLEAN /\ next_pod' \in Nat /\ next_pod <= next_pod'
  <2>1. pods' \subseteq pods \union {[name |-> m.name, host |-> m.host]}
    BY <1>6, <1>7, <1>8, Calls
  <2>2. faults' \in 0..MaxFaults /\ api_error' \in BOOLEAN
    BY <1>6, Calls
  <2> QED
    BY <1>3, <1>4, <1>10, <2>1, <2>2, Basics
<1>12. CASE FailAndRestore /\ UNCHANGED answers
  <2>1. app' = app_copy /\ handler' \in Workers /\ handler'.at = "reply" /\ handler'.status = "FAILED"
    BY <1>2, <1>12, Restored
  <2> QED
    BY <1>3, <1>4, <1>11, <1>12, <2>1, WorkStep
<1>13. CASE /\ app' = [app EXCEPT !.manifests[c][i].status = "ACTIVE",
                                  !.pod_names = @ \union {m.name}]
            /\ \/ /\ handler' = [handler EXCEPT !.report.placed = @ \union {m.name}]
                  /\ UNCHANGED answers
               \/ Raise
  <2>1. PICK list : list = [l EXCEPT ![i].status = "ACTIVE"]
    OBVIOUS
  <2>2. list \in Seq(ManifestsOf(Names))
    <3>1. [m EXCEPT !.status = "ACTIVE"] \in ManifestsOf(Names)
      BY <1>9 DEF ManifestsOf
    <3>2. list = [l EXCEPT ![i] = [m EXCEPT !.status = "ACTIVE"]]
      BY <1>8, <2>1
    <3> QED
      BY <1>7, <1>9, <3>1, <3>2
  <2>3. PICK names \in SUBSET Names : names = app.pod_names \union {m.name}
    BY <1>9, <1>10
  <2>4. app' = [app EXCEPT !.manifests[c] = list, !.pod_names = names]
    BY <1>7, <1>13, <2>1, <2>3
  <2>5. app' \in AppsOf(Names)
    BY <1>2, <2>2, <2>4, ManifestsChanged, Zenon
  <2>6. app' \in Apps' /\ app'.known
    BY <1>4, <2>5, Forms, AppFields
  <2>7. CASE handler' = [handler EXCEPT !.report.placed = @ \union {m.name}] /\ UNCHANGED answers
    <3>1. PICK report \in ReportsOf(Names) :
            report = [handler.report EXCEPT !.placed = @ \union {m.name}]
      BY <1>2, <1>10 DEF Reports, ReportsOf
    <3>2. handler' = [handler EXCEPT !.report = report]
      BY <2>7, <3>1
    <3>3. handler' \in WorkersOf(Names, DOMAIN answers)
      BY <1>2, <3>2, WorkerReport, Zenon
    <3>4. handler'.at = "creating"
      BY <1>1, <1>2, <3>2 DEF Workers
    <3>5. handler' \in Workers'
      BY <1>4, <2>7, <3>3, Forms
    <3> QED
      BY <1>3, <1>11, <2>6, <2>7, <3>4, <3>5, WorkStep
  <2>8. CASE Raise
    BY <1>1, <1>3, <1>11, <2>6, <2>8, Raised, WorkStep
  <2> QED
    BY <1>13, <2>7, <2>8
<1> QED
  BY <1>6, <1>7, <1>8, <1>12, <1>13

LEMMA RemainingType ==
  ASSUME TypeOK, app.known, NEW c \in Comps
  PROVE  RemainingHosts(c) \in Seq(Entries)
<1> DEFINE T == {e \in Entries : e.status # "INACTIVE"}
<1>1. app.hosts[c] \in Seq(Entries)
  BY KnownApp, AppFields
<1>2. RemainingHosts(c) = Filter(app.hosts[c], T)
  BY DEF RemainingHosts
<1> HIDE DEF T
<1> QED
  BY <1>1, <1>2, Filtered

LEMMA DeleteUnusedTypes ==
  ASSUME TypeOK, DeleteUnusedPod
  PROVE  TypeOK'
<1>1. handler.at = "deleting"
  BY DEF DeleteUnusedPod
<1>2. /\ handler \in Workers /\ handler \in WorkersOf(Names, DOMAIN answers)
      /\ handler.report \in Reports /\ app.known /\ app \in AppsOf(Names)
  BY <1>1, Worker, Basics, Forms, KnownApp
<1>3. UNCHANGED <<notifications, app_copy, monitored, resource, announced, relisted, resources,
                  before, respecified, disordered, replanned, next_pod>>
  BY DEF DeleteUnusedPod, envVars, historyVars
<1>4. Names' = Names /\ Apps' = Apps /\ (answers' = answers => Workers' = Workers)
  BY <1>3, Same
<1>5. PICK c \in Comps : \E i \in DOMAIN app.manifests[c] :
        LET n == app.manifests[c][i].name
        IN
        \/ /\ DeleteOk(n)
           /\ IF Planned(c)
              THEN /\ app' = [app EXCEPT !.pod_names = @ \ {n}, !.manifests[c] = RemoveAt(@, i)]
                   /\ handler' = [handler EXCEPT !.report.placed = @ \ {n},
                                                 !.report.modified = @ \ {n},
                                                 !.report.removed = @ \union {n}]
                   /\ UNCHANGED answers
              ELSE /\ app' = [app EXCEPT
                        !.pod_names = @ \ {n},
                        !.hosts = [d \in Comps |-> IF d < c THEN RemainingHosts(d) ELSE @[d]]]
                   /\ Raise
        \/ DeleteFails(n) /\ FailAndRestore /\ UNCHANGED answers
  BY Zenon DEF DeleteUnusedPod
<1>6. PICK i \in DOMAIN app.manifests[c] :
        LET n == app.manifests[c][i].name
        IN
        \/ /\ DeleteOk(n)
           /\ IF Planned(c)
              THEN /\ app' = [app EXCEPT !.pod_names = @ \ {n}, !.manifests[c] = RemoveAt(@, i)]
                   /\ handler' = [handler EXCEPT !.report.placed = @ \ {n},
                                                 !.report.modified = @ \ {n},
                                                 !.report.removed = @ \union {n}]
                   /\ UNCHANGED answers
              ELSE /\ app' = [app EXCEPT
                        !.pod_names = @ \ {n},
                        !.hosts = [d \in Comps |-> IF d < c THEN RemainingHosts(d) ELSE @[d]]]
                   /\ Raise
        \/ DeleteFails(n) /\ FailAndRestore /\ UNCHANGED answers
  BY Zenon, <1>5
<1>7. PICK l : l = app.manifests[c]
  OBVIOUS
<1>8. PICK n : n = l[i].name
  OBVIOUS
<1>9. /\ l \in Seq(ManifestsOf(Names)) /\ n \in Names /\ app.pod_names \subseteq Names
      /\ app.hosts \in [Comps -> Seq(Entries)]
  <2>1. /\ l \in Seq(ManifestsOf(Names)) /\ app.pod_names \subseteq Names
        /\ app.hosts \in [Comps -> Seq(Entries)]
    BY <1>2, <1>7, AppFields
  <2>2. l[i] \in ManifestsOf(Names)
    BY <1>7, <2>1
  <2> QED
    BY <1>8, <2>1, <2>2 DEF ManifestsOf
<1>10. PICK names \in SUBSET Names : names = app.pod_names \ {n}
  BY <1>9
<1>11. /\ pods' \subseteq [name : Names', host : Hosts] /\ faults' \in 0..MaxFaults
       /\ api_error' \in BOOLEAN /\ next_pod' \in Nat /\ next_pod <= next_pod'
  <2>1. pods' \subseteq pods /\ faults' \in 0..MaxFaults /\ api_error' \in BOOLEAN
    BY <1>6, Calls
  <2> QED
    BY <1>3, <1>4, <2>1, Basics
<1>12. CASE FailAndRestore /\ UNCHANGED answers
  <2>1. app' = app_copy /\ handler' \in Workers /\ handler'.at = "reply" /\ handler'.status = "FAILED"
    BY <1>2, <1>12, Restored
  <2> QED
    BY <1>3, <1>4, <1>11, <1>12, <2>1, WorkStep
<1>13. CASE /\ app' = [app EXCEPT !.pod_names = @ \ {n}, !.manifests[c] = RemoveAt(@, i)]
            /\ handler' = [handler EXCEPT !.report.placed = @ \ {n},
                                          !.report.modified = @ \ {n},
                                          !.report.removed = @ \union {n}]
            /\ UNCHANGED answers
  <2>1. PICK list : list = RemoveAt(l, i)
    OBVIOUS
  <2>2. list \in Seq(ManifestsOf(Names))
    BY <1>7, <1>9, <2>1, Removed
  <2>3. app' = [app EXCEPT !.pod_names = names, !.manifests[c] = list]
    BY <1>7, <1>10, <1>13, <2>1
  <2>4. app' \in AppsOf(Names)
    BY <1>2, <2>2, <2>3, ManifestsChanged, Zenon
  <2>5. app' \in Apps' /\ app'.known
    BY <1>4, <2>4, Forms, AppFields
  <2>6. PICK report \in ReportsOf(Names) :
          report = [handler.report EXCEPT !.placed = @ \ {n}, !.modified = @ \ {n},
                                          !.removed = @ \union {n}]
    BY <1>2, <1>9 DEF Reports, ReportsOf
  <2>7. handler' = [handler EXCEPT !.report = report]
    BY <1>13, <2>6
  <2>8. handler' \in WorkersOf(Names, DOMAIN answers)
    BY <1>2, <2>7, WorkerReport, Zenon
  <2>9. handler'.at = "deleting"
    BY <1>1, <1>2, <2>7 DEF Workers
  <2>10. handler' \in Workers'
    BY <1>4, <1>13, <2>8, Forms
  <2> QED
    BY <1>3, <1>11, <1>13, <2>5, <2>9, <2>10, WorkStep
<1>14. CASE /\ app' = [app EXCEPT
                  !.pod_names = @ \ {n},
                  !.hosts = [d \in Comps |-> IF d < c THEN RemainingHosts(d) ELSE @[d]]]
            /\ Raise
  <2>1. PICK hosts : hosts = [d \in Comps |-> IF d < c THEN RemainingHosts(d) ELSE app.hosts[d]]
    OBVIOUS
  <2>2. hosts \in [Comps -> Seq(Entries)]
    BY <1>2, <1>9, <2>1, RemainingType
  <2>3. app' = [app EXCEPT !.pod_names = names, !.hosts = hosts]
    BY <1>10, <1>14, <2>1
  <2>4. app.manifests \in [Comps -> Seq(ManifestsOf(Names))]
    BY <1>2, AppFields
  <2>5. app' \in AppsOf(Names)
    BY <1>2, <2>2, <2>3, <2>4, TablesChanged, Zenon
  <2>6. app' \in Apps' /\ app'.known
    BY <1>4, <2>5, Forms, AppFields
  <2> QED
    BY <1>1, <1>3, <1>11, <1>14, <2>6, Raised, WorkStep
<1> QED
  BY <1>6, <1>7, <1>8, <1>12, <1>13, <1>14

LEMMA FinishTypes ==
  ASSUME TypeOK, FinishPlan
  PROVE  TypeOK'
<1>1. handler.at = "deleting"
  BY DEF FinishPlan
<1>2. /\ handler \in Workers /\ app.known /\ app \in AppsOf(Names)
  BY <1>1, Worker, Basics, KnownApp
<1>3. UNCHANGED <<notifications, app_copy, monitored, pods, resource, announced, relisted, resources,
                  answers, before, respecified, disordered, replanned, api_error, next_pod, faults>>
  BY DEF FinishPlan, envVars, historyVars
<1>4. Names' = Names /\ Apps' = Apps /\ Workers' = Workers
  BY <1>3, Same
<1>5. PICK hosts : hosts = [c \in Comps |-> RemainingHosts(c)]
  OBVIOUS
<1>6. hosts \in [Comps -> Seq(Entries)]
  BY <1>2, <1>5, RemainingType
<1>7. app' = [app EXCEPT !.hosts = hosts]
  BY <1>5 DEF FinishPlan
<1>8. app.manifests \in [Comps -> Seq(ManifestsOf(Names))] /\ app.pod_names \in SUBSET Names
  BY <1>2, AppFields
<1>9. app' \in AppsOf(Names)
  BY <1>2, <1>6, <1>7, <1>8, TablesChanged, Zenon
<1>10. app' \in Apps' /\ app'.known
  BY <1>4, <1>9, Forms, AppFields
<1>11. handler' \in Workers' /\ handler'.at = "reply" /\ handler'.status = "COMPLETED"
  BY <1>2, <1>4, Finished DEF FinishPlan
<1>12. /\ pods' \subseteq [name : Names', host : Hosts] /\ faults' \in 0..MaxFaults
       /\ api_error' \in BOOLEAN /\ next_pod' \in Nat /\ next_pod <= next_pod'
  BY <1>3, <1>4, Basics
<1> QED
  BY <1>3, <1>10, <1>11, <1>12, WorkStep

LEMMA StutterTypes ==
  ASSUME TypeOK, UNCHANGED vars
  PROVE  TypeOK'
<1>1. UNCHANGED <<notifications, app, app_copy, monitored, handler, pods, resource, announced, relisted,
                  resources, answers, before, respecified, disordered, replanned, api_error, next_pod, faults>>
  BY DEF vars, envVars, historyVars
<1>2. Names' = Names /\ Apps' = Apps /\ Workers' = Workers /\ Plan' = Plan
  BY <1>1, Same DEF Plan
<1> QED
  BY <1>1, <1>2 DEF TypeOK, Events

LEMMA NextTypes ==
  ASSUME TypeOK, [Next]_vars
  PROVE  TypeOK'
<1>1. CASE UNCHANGED vars
  BY <1>1, StutterTypes
<1>2. CASE \/ \E where \in {"here", "elsewhere"} : CreateResource(where)
           \/ DeleteResource \/ ModifyResource \/ WatchRepeats
           \/ \E p \in pods : PodDies(p)
  BY <1>2, EnvironmentTypes
<1>3. CASE \/ \E steps \in InitialPlans : Submit(steps, TRUE)
           \/ \E steps \in Plans : Submit(steps, FALSE)
  BY <1>3, SubmitTypes
<1>4. CASE AppHandler
  <2>1. CASE AppEvent
    BY <2>1, EventTypes
  <2>2. CASE PlanOfUnknownApp \/ StartInitialPlan \/ StartPlan
    BY <2>2, StartTypes
  <2>3. CASE Answer
    BY <2>3, AnswerTypes
  <2>4. CASE DeployInstance
    BY <2>4, DeployTypes
  <2>5. CASE FinishInitialPlan \/ StartDeleting
    BY <2>5, TurnTypes
  <2>6. CASE ActMove \/ ActDeploy \/ ActRemove
    BY <2>6, ActTypes
  <2>7. CASE ActChangeSpec
    BY <2>7, ChangeTypes
  <2>8. CASE DeleteOldPod
    BY <2>8, ReplaceTypes
  <2>9. CASE StartDeploying
    BY <2>9, StartDeployingTypes
  <2>10. CASE DeployNewPod
    BY <2>10, DeployNewTypes
  <2>11. CASE DeleteUnusedPod
    BY <2>11, DeleteUnusedTypes
  <2>12. CASE FinishPlan
    BY <2>12, FinishTypes
  <2> QED
    BY <1>4, <2>1, <2>2, <2>3, <2>4, <2>5, <2>6, <2>7, <2>8, <2>9, <2>10, <2>11, <2>12
    DEF AppHandler, InitialPlan, LaterPlan
<1>5. CASE Restart
  BY <1>5, RestartTypes
<1> QED
  BY <1>1, <1>2, <1>3, <1>4, <1>5 DEF Next

\* Every list of hosts, every manifest, every report and every plan that the handler of
\* the FluidityApp controller keeps is well formed, in every reachable state.
THEOREM TypesOK == Spec => []TypeOK
<1>1. Init => TypeOK
  BY InitTypes
<1>2. TypeOK /\ [Next]_vars => TypeOK'
  BY NextTypes
<1> QED
  BY <1>1, <1>2, PTL DEF Spec

-----------------------------------------------------------------------------
(* No pod escapes.  An application that is withdrawn is not planned for; one *)
(* that is announced anew has no pod; and as long as no call failed, the     *)
(* pods are in the list that the removal of the application works through.   *)

NoPlanIn(q) == \A i \in DOMAIN q : q[i].op # "PLAN_SUBMITTED"

Withdrawn ==
  ~announced /\ ~disordered => handler.at \in {"idle", "removing"} /\ NoPlanIn(notifications)

RemovesWithdrawn == handler.at = "removing" => ~announced

NothingLeft == ~announced /\ ~disordered /\ ~api_error /\ handler.at = "idle" => RunningNames = {}

ListedNames == IF app.known THEN app.pod_names ELSE {}

PodsAreListed ==
  ~disordered /\ ~api_error =>
    RunningNames \subseteq (IF handler.at = "removing" THEN handler.todo ELSE ListedNames)

OrphanInv == Withdrawn /\ RemovesWithdrawn /\ NothingLeft /\ PodsAreListed

\* What the answers of Kubernetes make of the names that run.
LEMMA CallNames ==
  /\ \A n : DeleteOk(n) => RunningNames' = RunningNames \ {n} /\ api_error' = api_error
  /\ \A n : DeleteFails(n) => RunningNames' = RunningNames /\ api_error'
  /\ \A n : CreateFails(n) => RunningNames' = RunningNames /\ api_error'
  /\ \A p : CreateOk(p) => RunningNames' = RunningNames \union {p.name} /\ api_error' = api_error
BY DEF DeleteOk, DeleteFails, CreateFails, CreateOk, RunningNames, Running

\* A step of a plan that keeps the pods in the list.
LEMMA OrphanStep ==
  ASSUME TypeOK, OrphanInv, handler.at \notin {"idle", "removing"}, handler'.at # "removing",
         UNCHANGED <<notifications, announced, disordered>>,
         ~api_error' => /\ ~api_error
                        /\ RunningNames \subseteq ListedNames => RunningNames' \subseteq ListedNames'
  PROVE  OrphanInv'
<1>1. announced \/ disordered
  BY DEF OrphanInv, Withdrawn
<1>2. Withdrawn' /\ RemovesWithdrawn' /\ NothingLeft'
  BY <1>1 DEF Withdrawn, RemovesWithdrawn, NothingLeft
<1>3. PodsAreListed'
  BY DEF OrphanInv, PodsAreListed
<1> QED
  BY <1>2, <1>3 DEF OrphanInv

\* An event is appended to the queue, or a pod disappears.
LEMMA EnvironmentOrphans ==
  ASSUME TypeOK, OrphanInv,
         \/ \E where \in {"here", "elsewhere"} : CreateResource(where)
         \/ DeleteResource \/ ModifyResource \/ WatchRepeats
         \/ \E steps \in InitialPlans : Submit(steps, TRUE)
         \/ \E steps \in Plans : Submit(steps, FALSE)
         \/ \E p \in pods : PodDies(p)
  PROVE  OrphanInv'
<1>1. /\ UNCHANGED <<app, handler, announced, disordered, api_error>>
      /\ pods' \subseteq pods
  BY DEF CreateResource, DeleteResource, ModifyResource, WatchRepeats, Submit, PodDies, envVars,
         historyVars
<1>2. RunningNames' \subseteq RunningNames
  BY <1>1 DEF RunningNames
<1>3. ~announced /\ NoPlanIn(notifications) => NoPlanIn(notifications')
  <2>1. CASE \E steps \in InitialPlans \union Plans, initial \in BOOLEAN : Submit(steps, initial)
    BY <2>1 DEF Submit
  <2>2. CASE \E p \in pods : PodDies(p)
    BY <2>2 DEF PodDies
  <2>3. ASSUME NEW where,
               CreateResource(where) \/ DeleteResource \/ ModifyResource \/ WatchRepeats
        PROVE  NoPlanIn(notifications) => NoPlanIn(notifications')
    <3> DEFINE M == Events \union Plan
    <3>1. notifications \in Seq(M) /\ \A e \in Events : e \in M /\ e.op # "PLAN_SUBMITTED"
      BY DEF TypeOK, Events
    <3>2. \/ notifications' = notifications
          \/ \E e \in Events : notifications' = Append(notifications, e)
          \/ \E d, e \in Events : notifications' = notifications \o <<d, e>>
          \/ \E e \in Events : notifications' = notifications \o <<e>>
      BY <2>3, WatchedIs
    <3> HIDE DEF M
    <3>3. ASSUME NEW t \in Seq(M), \A j \in DOMAIN t : t[j].op # "PLAN_SUBMITTED"
          PROVE  NoPlanIn(notifications) => NoPlanIn(notifications \o t)
      BY <3>1, <3>3 DEF NoPlanIn
    <3>4. ASSUME NEW e \in Events
          PROVE  NoPlanIn(notifications) => NoPlanIn(Append(notifications, e))
      BY <3>1, Appended DEF NoPlanIn
    <3>5. ASSUME NEW d \in Events, NEW e \in Events
          PROVE  /\ NoPlanIn(notifications) => NoPlanIn(notifications \o <<d, e>>)
                 /\ NoPlanIn(notifications) => NoPlanIn(notifications \o <<e>>)
      <4>1. <<d, e>> \in Seq(M) /\ <<e>> \in Seq(M)
        BY <3>1
      <4>2. \A j \in DOMAIN <<d, e>> : <<d, e>>[j].op # "PLAN_SUBMITTED"
        BY <3>1
      <4>3. \A j \in DOMAIN <<e>> : <<e>>[j].op # "PLAN_SUBMITTED"
        BY <3>1
      <4> QED
        BY <3>3, <4>1, <4>2, <4>3
    <3> QED
      BY <3>2, <3>4, <3>5
  <2> QED
    BY <2>1, <2>2, <2>3
<1>4. Withdrawn'
  BY <1>1, <1>3 DEF OrphanInv, Withdrawn
<1>5. RemovesWithdrawn' /\ NothingLeft' /\ PodsAreListed'
  BY <1>1, <1>2 DEF OrphanInv, RemovesWithdrawn, NothingLeft, PodsAreListed, ListedNames
<1> QED
  BY <1>4, <1>5 DEF OrphanInv

\* The event that is handled is gone from the queue.
LEMMA TakenOrphans ==
  ASSUME TypeOK, OrphanInv, NEW op, Take(op)
  PROVE  /\ NoPlanIn(notifications) => NoPlanIn(notifications') /\ op # "PLAN_SUBMITTED"
         /\ handler.at = "idle"
<1> DEFINE M == Events \union Plan
<1>1. /\ handler = Idle /\ notifications # << >> /\ notifications' = Tail(notifications)
      /\ Head(notifications).op = op
  BY DEF Take
<1>2. notifications \in Seq(M)
  BY DEF TypeOK
<1> HIDE DEF M
<1>3. NoPlanIn(notifications) => NoPlanIn(notifications') /\ op # "PLAN_SUBMITTED"
  BY <1>1, <1>2, Shortened DEF NoPlanIn
<1> QED
  BY <1>1, <1>3 DEF Idle

LEMMA EventOrphans ==
  ASSUME TypeOK, OrphanInv, AppEvent
  PROVE  OrphanInv'
<1>1. CASE HandleAdded
  <2>1. handler.at = "idle"
    BY <1>1, TakenOrphans DEF HandleAdded
  <2>2. /\ announced' = TRUE /\ UNCHANGED <<handler, pods>>
        /\ disordered' = (disordered \/ announced)
        /\ \/ app' = NewApp(Head(notifications).here) /\ UNCHANGED api_error
           \/ api_error' = TRUE
    BY <1>1 DEF HandleAdded
  <2>3. Withdrawn' /\ RemovesWithdrawn' /\ NothingLeft'
    BY <2>1, <2>2 DEF Withdrawn, RemovesWithdrawn, NothingLeft
  <2>4. ~disordered' /\ ~api_error' => RunningNames' = {}
    <3>1. disordered \in BOOLEAN /\ announced \in BOOLEAN
      BY DEF TypeOK
    <3> QED
      BY <2>1, <2>2, <3>1 DEF OrphanInv, NothingLeft, RunningNames
  <2>5. PodsAreListed'
    BY <2>1, <2>2, <2>4 DEF PodsAreListed
  <2> QED
    BY <2>3, <2>5 DEF OrphanInv
<1>2. CASE HandleModified
  <2>1. handler.at = "idle" /\ (NoPlanIn(notifications) => NoPlanIn(notifications'))
    BY <1>2, TakenOrphans DEF HandleModified
  <2>2. UNCHANGED <<app, handler, pods, announced, disordered, api_error>>
    BY <1>2 DEF HandleModified, envVars, historyVars
  <2>3. Withdrawn' /\ RemovesWithdrawn' /\ NothingLeft' /\ PodsAreListed'
    BY <2>1, <2>2
    DEF OrphanInv, Withdrawn, RemovesWithdrawn, NothingLeft, PodsAreListed, RunningNames, ListedNames
  <2> QED
    BY <2>3 DEF OrphanInv
<1>3. CASE HandleDeleted
  <2>1. handler.at = "idle"
    BY <1>3, TakenOrphans DEF HandleDeleted
  <2>2. /\ announced' = FALSE /\ UNCHANGED <<app, pods, api_error>>
        /\ handler' = IF app.known THEN [at |-> "removing", todo |-> app.pod_names] ELSE Idle
        /\ disordered' = (disordered \/ \E i \in DOMAIN notifications' :
                                         notifications'[i].op = "PLAN_SUBMITTED")
    BY <1>3 DEF HandleDeleted
  <2>3. disordered \in BOOLEAN
    BY DEF TypeOK
  <2>4. ~disordered' => ~disordered /\ NoPlanIn(notifications')
    BY <2>2, <2>3 DEF NoPlanIn
  <2>5. handler'.at = IF app.known THEN "removing" ELSE "idle"
    BY <2>2 DEF Idle
  <2>6. Withdrawn' /\ RemovesWithdrawn'
    BY <2>2, <2>4, <2>5 DEF Withdrawn, RemovesWithdrawn
  <2>7. ~disordered' /\ ~api_error' => RunningNames' \subseteq ListedNames
    BY <2>1, <2>2, <2>4 DEF OrphanInv, PodsAreListed, RunningNames
  <2>8. CASE app.known
    <3>1. handler'.at = "removing" /\ handler'.todo = ListedNames
      BY <2>2, <2>5, <2>8 DEF ListedNames
    <3>2. NothingLeft' /\ PodsAreListed'
      BY <2>7, <3>1 DEF NothingLeft, PodsAreListed
    <3> QED
      BY <2>6, <3>2 DEF OrphanInv
  <2>9. CASE ~app.known
    <3>1. handler'.at = "idle" /\ ListedNames = {} /\ ListedNames' = {}
      BY <2>2, <2>5, <2>9 DEF ListedNames
    <3>2. NothingLeft' /\ PodsAreListed'
      BY <2>7, <3>1 DEF NothingLeft, PodsAreListed
    <3> QED
      BY <2>6, <3>2 DEF OrphanInv
  <2> QED
    BY <2>8, <2>9
<1>4. CASE RemovePod
  <2>1. handler.at = "removing"
    BY <1>4 DEF RemovePod
  <2>2. PICK n \in handler.todo :
          \/ DeleteOk(n) /\ handler' = [handler EXCEPT !.todo = @ \ {n}]
          \/ DeleteFails(n) /\ handler' = Idle
    BY <1>4 DEF RemovePod
  <2>3. UNCHANGED <<notifications, announced, disordered>>
    BY <1>4 DEF RemovePod, envVars, historyVars
  <2>4. ~announced /\ handler \in [at : {"removing"}, todo : SUBSET Names]
    BY <2>1, Remover DEF OrphanInv, RemovesWithdrawn
  <2>5. CASE DeleteOk(n) /\ handler' = [handler EXCEPT !.todo = @ \ {n}]
    <3>1. handler'.at = "removing" /\ handler'.todo = handler.todo \ {n}
      BY <2>4, <2>5
    <3>2. RunningNames' = RunningNames \ {n} /\ api_error' = api_error
      BY <2>5, CallNames
    <3>3. Withdrawn' /\ RemovesWithdrawn' /\ NothingLeft'
      BY <2>3, <2>4, <3>1 DEF OrphanInv, Withdrawn, RemovesWithdrawn, NothingLeft
    <3>4. PodsAreListed'
      BY <2>1, <2>3, <3>1, <3>2 DEF OrphanInv, PodsAreListed
    <3> QED
      BY <3>3, <3>4 DEF OrphanInv
  <2>6. CASE DeleteFails(n) /\ handler' = Idle
    <3>1. handler'.at = "idle" /\ api_error'
      BY <2>6, CallNames DEF Idle
    <3>2. Withdrawn' /\ RemovesWithdrawn' /\ NothingLeft' /\ PodsAreListed'
      BY <2>3, <3>1 DEF OrphanInv, Withdrawn, RemovesWithdrawn, NothingLeft, PodsAreListed
    <3> QED
      BY <3>2 DEF OrphanInv
  <2> QED
    BY <2>2, <2>5, <2>6
<1>5. CASE ForgetApp
  <2>1. /\ handler.at = "removing" /\ handler.todo = {} /\ handler' = Idle
        /\ UNCHANGED <<notifications, pods, announced, disordered, api_error>>
    BY <1>5 DEF ForgetApp, envVars, historyVars
  <2>2. handler'.at = "idle"
    BY <2>1 DEF Idle
  <2>3. ~disordered' /\ ~api_error' => RunningNames' = {}
    BY <2>1 DEF OrphanInv, PodsAreListed, RunningNames
  <2>4. Withdrawn' /\ RemovesWithdrawn' /\ NothingLeft' /\ PodsAreListed'
    BY <2>1, <2>2, <2>3 DEF OrphanInv, Withdrawn, RemovesWithdrawn, NothingLeft, PodsAreListed
  <2> QED
    BY <2>4 DEF OrphanInv
<1> QED
  BY <1>1, <1>2, <1>3, <1>4, <1>5 DEF AppEvent

LEMMA StartOrphans ==
  ASSUME TypeOK, OrphanInv, PlanOfUnknownApp \/ StartInitialPlan \/ StartPlan
  PROVE  OrphanInv'
<1>1. TakePlan
  BY DEF PlanOfUnknownApp, StartInitialPlan, StartPlan
<1>2. Take("PLAN_SUBMITTED") /\ UNCHANGED <<pods, announced, disordered, api_error>>
  BY <1>1 DEF TakePlan, envVars
<1>3. handler.at = "idle" /\ ~NoPlanIn(notifications)
  BY <1>2, TakenOrphans
<1>4. announced \/ disordered
  BY <1>3 DEF OrphanInv, Withdrawn
<1>5. app' = app /\ handler'.at # "removing"
  BY <1>3 DEF PlanOfUnknownApp, StartInitialPlan, StartPlan, Working
<1>6. Withdrawn' /\ RemovesWithdrawn' /\ NothingLeft' /\ PodsAreListed'
  BY <1>2, <1>3, <1>4, <1>5
  DEF OrphanInv, Withdrawn, RemovesWithdrawn, NothingLeft, PodsAreListed, RunningNames, ListedNames
<1> QED
  BY <1>6 DEF OrphanInv

\* Steps that leave the pods and their list alone.
LEMMA QuietOrphans ==
  ASSUME TypeOK, OrphanInv,
         \/ Answer \/ FinishInitialPlan \/ ActMove \/ ActDeploy \/ ActRemove
         \/ StartDeploying \/ StartDeleting \/ FinishPlan
  PROVE  OrphanInv'
<1>1. handler.at \notin {"idle", "removing"} /\ handler \in Workers
  <2>1. handler.at \notin {"idle", "removing"}
    BY DEF Answer, FinishInitialPlan, ActMove, ActDeploy, ActRemove, Act,
           StartDeploying, StartDeleting, FinishPlan
  <2> QED
    BY <2>1, Worker
<1>2. UNCHANGED <<notifications, pods, announced, disordered, api_error>>
  BY DEF Answer, FinishInitialPlan, ActMove, ActDeploy, ActRemove, Act, ActionEnds,
         StartDeploying, StartDeleting, FinishPlan, envVars, historyVars
<1>3. handler'.at # "removing"
  <2>1. \/ handler' = Idle \/ GoOn \/ \E status : Finish(status)
        \/ \E at \in {"creating", "deleting"} : handler' = [handler EXCEPT !.at = at]
    BY DEF Answer, FinishInitialPlan, ActMove, ActDeploy, ActRemove,
           StartDeploying, StartDeleting, FinishPlan
  <2>2. CASE handler' = Idle
    BY <2>2 DEF Idle
  <2>3. CASE GoOn
    BY <1>1, <2>3 DEF GoOn, Workers
  <2>4. ASSUME NEW status, Finish(status)
        PROVE  handler'.at # "removing"
    BY <1>1, <2>4 DEF Finish, Workers
  <2>5. ASSUME NEW at \in {"creating", "deleting"}, handler' = [handler EXCEPT !.at = at]
        PROVE  handler'.at # "removing"
    BY <1>1, <2>5 DEF Workers
  <2> QED
    BY <2>1, <2>2, <2>3, <2>4, <2>5
<1>4. ListedNames' = ListedNames
  <2>1. CASE app' = app
    BY <2>1 DEF ListedNames
  <2>2. CASE app' # app
    <3>1. app \in Apps
      <4>1. handler.at # "reply"
        BY <2>2 DEF Answer, FinishInitialPlan, ActMove, ActDeploy, ActRemove, Act,
                    StartDeploying, StartDeleting, FinishPlan
      <4> QED
        BY <1>1, <4>1, Basics, KnownApp
    <3>2. app'.known = app.known /\ app'.pod_names = app.pod_names
      <4>1. ASSUME NEW c, NEW hosts, app' = [app EXCEPT !.hosts[c] = hosts]
            PROVE  app'.known = app.known /\ app'.pod_names = app.pod_names
        BY <3>1, <4>1, SMTT(30) DEF Apps
      <4>2. ASSUME NEW hosts, NEW tables,
                   \/ app' = [app EXCEPT !.hosts = hosts]
                   \/ app' = [app EXCEPT !.manifests = tables, !.hosts = hosts]
            PROVE  app'.known = app.known /\ app'.pod_names = app.pod_names
        BY <3>1, <4>2 DEF Apps
      <4>3. CASE ActMove \/ ActDeploy \/ ActRemove
        BY <2>2, <4>1, <4>3 DEF ActMove, ActDeploy, ActRemove
      <4>4. CASE StartDeploying
        BY <4>2, <4>4 DEF StartDeploying
      <4>5. CASE FinishPlan
        BY <4>2, <4>5 DEF FinishPlan
      <4>6. CASE Answer \/ FinishInitialPlan \/ StartDeleting
        BY <2>2, <4>6 DEF Answer, FinishInitialPlan, StartDeleting
      <4> QED
        BY <4>3, <4>4, <4>5, <4>6
    <3> QED
      BY <3>2 DEF ListedNames
  <2> QED
    BY <2>1, <2>2
<1> QED
  BY <1>1, <1>2, <1>3, <1>4, OrphanStep DEF RunningNames

\* The end of a plan, with an answer or by an exception.
LEMMA Stopped ==
  ASSUME handler \in Workers
  PROVE  /\ \A status : Finish(status) => handler'.at = "reply"
         /\ Raise => handler'.at = "idle"
         /\ FailAndRestore => handler'.at = "reply"
<1>1. ASSUME NEW status, Finish(status)
      PROVE  handler'.at = "reply"
  BY <1>1 DEF Finish, Workers
<1>2. Raise => handler'.at = "idle"
  BY DEF Raise, Idle
<1> QED
  BY <1>1, <1>2 DEF FailAndRestore

LEMMA DeployOrphans ==
  ASSUME TypeOK, OrphanInv, DeployInstance
  PROVE  OrphanInv'
<1>1. handler.at = "deploying" /\ handler \in Workers /\ app \in Apps
  BY Worker, Basics, KnownApp DEF DeployInstance
<1>2. UNCHANGED <<notifications, announced, disordered>>
  BY DEF DeployInstance, envVars, historyVars
<1>3. PICK i, c, h, todo, name, hosts, a :
        Deploys(i, c, h, todo, name, hosts, a)
  BY DeployParts
<1>4. a = [app EXCEPT !.hosts[c] = hosts]
  BY <1>3 DEF Deploys
<1>5. CASE CreateFails(name) /\ Finish("FAILED")
  <2>1. api_error' /\ handler'.at = "reply"
    BY <1>1, <1>5, CallNames, Stopped
  <2> QED
    BY <1>1, <1>2, <2>1, OrphanStep
<1>6. CASE /\ CreateOk([name |-> name, host |-> h])
           /\ app' = [a EXCEPT !.manifests[c] = Append(@, Manifest(name, h, "ACTIVE")),
                               !.pod_names = @ \union {name}]
           /\ handler' = [handler EXCEPT !.todo = todo, !.report.placed = @ \union {name}]
  <2>1. RunningNames' = RunningNames \union {name} /\ api_error' = api_error
    BY <1>6, CallNames
  <2>2. PICK list : list = Append(a.manifests[c], Manifest(name, h, "ACTIVE"))
    OBVIOUS
  <2>3. app' = [a EXCEPT !.manifests[c] = list, !.pod_names = @ \union {name}]
    BY <1>6, <2>2
  <2>4. a.known = app.known /\ a.pod_names = app.pod_names /\ app.known
        /\ DOMAIN a = {"known", "here", "hosts", "manifests", "pod_names"}
    BY <1>1, <1>4 DEF Apps
  <2>5. app'.known /\ app'.pod_names = app.pod_names \union {name}
    BY <2>3, <2>4
  <2>6. ListedNames' = ListedNames \union {name}
    BY <2>4, <2>5 DEF ListedNames
  <2>7. handler'.at # "removing"
    BY <1>1, <1>4, <1>6 DEF Workers
  <2> QED
    BY <1>1, <1>2, <2>1, <2>6, <2>7, OrphanStep
<1> QED
  BY <1>3, <1>5, <1>6 DEF Deploys

LEMMA ChangeOrphans ==
  ASSUME TypeOK, OrphanInv, ActChangeSpec
  PROVE  OrphanInv'
<1>1. handler.at = "acting" /\ handler \in Workers /\ app \in Apps
  BY Worker, Basics, KnownApp DEF ActChangeSpec
<1>2. UNCHANGED <<notifications, announced, disordered>>
  BY DEF ActChangeSpec, envVars
<1>3. PICK s, name : s = Head(handler.todo) /\ name = PodName(s.comp, next_pod)
  OBVIOUS
<1>4. \/ (Finish("FAILED") \/ Raise) /\ UNCHANGED <<app, pods, api_error>>
      \/ CreateFails(name) /\ FailAndRestore
      \/ /\ CreateOk([name |-> name, host |-> s.host])
         /\ app' = [app EXCEPT !.pod_names = @ \union {name},
                               !.manifests[s.comp] = Renamed(@, name)]
         /\ handler' = [handler EXCEPT !.at = "changing", !.pod = {name}]
  BY <1>3 DEF ActChangeSpec
<1>5. CASE (Finish("FAILED") \/ Raise) /\ UNCHANGED <<app, pods, api_error>>
  <2>1. handler'.at # "removing"
    BY <1>1, <1>5, Stopped
  <2> QED
    BY <1>1, <1>2, <1>5, <2>1, OrphanStep DEF RunningNames, ListedNames
<1>6. CASE CreateFails(name) /\ FailAndRestore
  <2>1. api_error' /\ handler'.at = "reply"
    BY <1>1, <1>6, CallNames, Stopped
  <2> QED
    BY <1>1, <1>2, <2>1, OrphanStep
<1>7. CASE /\ CreateOk([name |-> name, host |-> s.host])
           /\ app' = [app EXCEPT !.pod_names = @ \union {name},
                                 !.manifests[s.comp] = Renamed(@, name)]
           /\ handler' = [handler EXCEPT !.at = "changing", !.pod = {name}]
  <2>1. RunningNames' = RunningNames \union {name} /\ api_error' = api_error
    BY <1>7, CallNames
  <2>2. PICK list : list = Renamed(app.manifests[s.comp], name)
    OBVIOUS
  <2>3. app' = [app EXCEPT !.pod_names = @ \union {name}, !.manifests[s.comp] = list]
    BY <1>7, <2>2
  <2>4. app.known /\ app'.known /\ app'.pod_names = app.pod_names \union {name}
    BY <1>1, <2>3 DEF Apps
  <2>5. ListedNames' = ListedNames \union {name}
    BY <2>4 DEF ListedNames
  <2>6. handler'.at # "removing"
    BY <1>1, <1>7 DEF Workers
  <2> QED
    BY <1>1, <1>2, <2>1, <2>5, <2>6, OrphanStep
<1> QED
  BY <1>4, <1>5, <1>6, <1>7

LEMMA ReplaceOrphans ==
  ASSUME TypeOK, OrphanInv, DeleteOldPod
  PROVE  OrphanInv'
<1>1. handler.at = "changing" /\ handler \in Workers /\ app \in Apps
  BY Worker, Basics, KnownApp DEF DeleteOldPod
<1>2. UNCHANGED <<notifications, announced, disordered>>
  BY DEF DeleteOldPod, envVars, historyVars
<1>3. PICK old \in app.pod_names, new \in handler.pod :
        LET s == Head(handler.todo)
        IN
        \/ /\ DeleteOk(old)
           /\ app' = [app EXCEPT
                !.pod_names = @ \ {old},
                !.manifests[s.comp] = [i \in DOMAIN @ |-> Respecify(@[i], old, new, s.host)]]
           /\ handler' = [handler EXCEPT !.at = "acting", !.todo = Tail(@), !.pod = {},
                                         !.report.modified = @ \union {ReportedPod(old, new)}]
        \/ DeleteFails(old) /\ FailAndRestore
  BY Zenon DEF DeleteOldPod
<1>4. PICK s, list : /\ s = Head(handler.todo)
                     /\ list = [i \in DOMAIN app.manifests[s.comp] |->
                                  Respecify(app.manifests[s.comp][i], old, new, s.host)]
  OBVIOUS
<1>5. CASE DeleteFails(old) /\ FailAndRestore
  <2>1. api_error' /\ handler'.at = "reply"
    BY <1>1, <1>5, CallNames, Stopped
  <2> QED
    BY <1>1, <1>2, <2>1, OrphanStep
<1>6. CASE ~(DeleteFails(old) /\ FailAndRestore)
  <2>1. RunningNames' = RunningNames \ {old} /\ api_error' = api_error
    BY <1>3, <1>6, CallNames, SMTT(30)
  <2>2. app' = [app EXCEPT !.pod_names = @ \ {old}, !.manifests[s.comp] = list]
    BY <1>3, <1>4, <1>6
  <2>3. app.known /\ app'.known /\ app'.pod_names = app.pod_names \ {old}
    BY <1>1, <2>2 DEF Apps
  <2>4. ListedNames' = ListedNames \ {old}
    BY <2>3 DEF ListedNames
  <2>5. PICK todo, modified, pod : /\ todo = Tail(handler.todo) /\ pod = {}
                                   /\ modified = handler.report.modified \union {ReportedPod(old, new)}
    OBVIOUS
  <2>6. PICK report : report = [handler.report EXCEPT !.modified = modified]
    OBVIOUS
  <2>7. handler' = [handler EXCEPT !.at = "acting", !.todo = todo, !.pod = pod, !.report = report]
    BY <1>3, <1>6, <2>5, <2>6
  <2>8. handler'.at # "removing"
    BY <1>1, <2>7 DEF Workers
  <2> QED
    BY <1>1, <1>2, <2>1, <2>4, <2>8, OrphanStep
<1> QED
  BY <1>5, <1>6

LEMMA DeployNewOrphans ==
  ASSUME TypeOK, OrphanInv, DeployNewPod
  PROVE  OrphanInv'
<1>1. handler.at = "creating" /\ handler \in Workers /\ app \in Apps
  BY Worker, Basics, KnownApp DEF DeployNewPod
<1>2. UNCHANGED <<notifications, announced, disordered>>
  BY DEF DeployNewPod, envVars, historyVars
<1>3. PICK c \in Comps : \E i \in DOMAIN app.manifests[c] :
        LET m == app.manifests[c][i]
        IN
        \/ /\ CreateOk([name |-> m.name, host |-> m.host])
           /\ app' = [app EXCEPT !.manifests[c][i].status = "ACTIVE",
                                 !.pod_names = @ \union {m.name}]
           /\ IF Planned(c)
              THEN /\ handler' = [handler EXCEPT !.report.placed = @ \union {m.name}]
                   /\ UNCHANGED answers
              ELSE Raise
        \/ CreateFails(m.name) /\ FailAndRestore /\ UNCHANGED answers
  BY Zenon DEF DeployNewPod
<1>4. PICK i \in DOMAIN app.manifests[c] :
        LET m == app.manifests[c][i]
        IN
        \/ /\ CreateOk([name |-> m.name, host |-> m.host])
           /\ app' = [app EXCEPT !.manifests[c][i].status = "ACTIVE",
                                 !.pod_names = @ \union {m.name}]
           /\ IF Planned(c)
              THEN /\ handler' = [handler EXCEPT !.report.placed = @ \union {m.name}]
                   /\ UNCHANGED answers
              ELSE Raise
        \/ CreateFails(m.name) /\ FailAndRestore /\ UNCHANGED answers
  BY Zenon, <1>3
<1>5. PICK m : m = app.manifests[c][i]
  OBVIOUS
<1>6. CASE CreateFails(m.name) /\ FailAndRestore
  <2>1. api_error' /\ handler'.at = "reply"
    BY <1>1, <1>6, CallNames, Stopped
  <2> QED
    BY <1>1, <1>2, <2>1, OrphanStep
<1>7. CASE /\ CreateOk([name |-> m.name, host |-> m.host])
           /\ app' = [app EXCEPT !.manifests[c][i].status = "ACTIVE", !.pod_names = @ \union {m.name}]
           /\ \/ handler' = [handler EXCEPT !.report.placed = @ \union {m.name}]
              \/ Raise
  <2>1. RunningNames' = RunningNames \union {m.name} /\ api_error' = api_error
    BY <1>7, CallNames
  <2>2. PICK list : list = [app.manifests[c] EXCEPT ![i].status = "ACTIVE"]
    OBVIOUS
  <2>3. app' = [app EXCEPT !.manifests[c] = list, !.pod_names = @ \union {m.name}]
    BY <1>7, <2>2
  <2>4. app.known /\ app'.known /\ app'.pod_names = app.pod_names \union {m.name}
    BY <1>1, <2>3 DEF Apps
  <2>5. ListedNames' = ListedNames \union {m.name}
    BY <2>4 DEF ListedNames
  <2>6. CASE handler' = [handler EXCEPT !.report.placed = @ \union {m.name}]
    <3>1. PICK report : report = [handler.report EXCEPT !.placed = @ \union {m.name}]
      OBVIOUS
    <3>2. handler' = [handler EXCEPT !.report = report]
      BY <2>6, <3>1
    <3>3. handler'.at # "removing"
      BY <1>1, <3>2 DEF Workers
    <3> QED
      BY <1>1, <1>2, <2>1, <2>5, <3>3, OrphanStep
  <2>7. CASE Raise
    <3>1. handler'.at # "removing"
      BY <1>1, <2>7, Stopped
    <3> QED
      BY <1>1, <1>2, <2>1, <2>5, <3>1, OrphanStep
  <2> QED
    BY <1>7, <2>6, <2>7
<1> QED
  BY <1>4, <1>5, <1>6, <1>7

LEMMA DeleteUnusedOrphans ==
  ASSUME TypeOK, OrphanInv, DeleteUnusedPod
  PROVE  OrphanInv'
<1>1. handler.at = "deleting" /\ handler \in Workers /\ app \in Apps
  BY Worker, Basics, KnownApp DEF DeleteUnusedPod
<1>2. UNCHANGED <<notifications, announced, disordered>>
  BY DEF DeleteUnusedPod, envVars, historyVars
<1>3. PICK c \in Comps : \E i \in DOMAIN app.manifests[c] :
        LET n == app.manifests[c][i].name
        IN
        \/ /\ DeleteOk(n)
           /\ IF Planned(c)
              THEN /\ app' = [app EXCEPT !.pod_names = @ \ {n}, !.manifests[c] = RemoveAt(@, i)]
                   /\ handler' = [handler EXCEPT !.report.placed = @ \ {n},
                                                 !.report.modified = @ \ {n},
                                                 !.report.removed = @ \union {n}]
                   /\ UNCHANGED answers
              ELSE /\ app' = [app EXCEPT
                        !.pod_names = @ \ {n},
                        !.hosts = [d \in Comps |-> IF d < c THEN RemainingHosts(d) ELSE @[d]]]
                   /\ Raise
        \/ DeleteFails(n) /\ FailAndRestore /\ UNCHANGED answers
  BY Zenon DEF DeleteUnusedPod
<1>4. PICK i \in DOMAIN app.manifests[c] :
        LET n == app.manifests[c][i].name
        IN
        \/ /\ DeleteOk(n)
           /\ IF Planned(c)
              THEN /\ app' = [app EXCEPT !.pod_names = @ \ {n}, !.manifests[c] = RemoveAt(@, i)]
                   /\ handler' = [handler EXCEPT !.report.placed = @ \ {n},
                                                 !.report.modified = @ \ {n},
                                                 !.report.removed = @ \union {n}]
                   /\ UNCHANGED answers
              ELSE /\ app' = [app EXCEPT
                        !.pod_names = @ \ {n},
                        !.hosts = [d \in Comps |-> IF d < c THEN RemainingHosts(d) ELSE @[d]]]
                   /\ Raise
        \/ DeleteFails(n) /\ FailAndRestore /\ UNCHANGED answers
  BY Zenon, <1>3
<1>5. PICK n : n = app.manifests[c][i].name
  OBVIOUS
<1>6. CASE DeleteFails(n) /\ FailAndRestore
  <2>1. api_error' /\ handler'.at = "reply"
    BY <1>1, <1>6, CallNames, Stopped
  <2> QED
    BY <1>1, <1>2, <2>1, OrphanStep
<1>7. CASE /\ DeleteOk(n)
           /\ app' = [app EXCEPT !.pod_names = @ \ {n}, !.manifests[c] = RemoveAt(@, i)]
           /\ handler' = [handler EXCEPT !.report.placed = @ \ {n},
                                         !.report.modified = @ \ {n},
                                         !.report.removed = @ \union {n}]
  <2>1. RunningNames' = RunningNames \ {n} /\ api_error' = api_error
    BY <1>7, CallNames
  <2>2. PICK list : list = RemoveAt(app.manifests[c], i)
    OBVIOUS
  <2>3. app' = [app EXCEPT !.pod_names = @ \ {n}, !.manifests[c] = list]
    BY <1>7, <2>2
  <2>4. app.known /\ app'.known /\ app'.pod_names = app.pod_names \ {n}
    BY <1>1, <2>3 DEF Apps
  <2>5. ListedNames' = ListedNames \ {n}
    BY <2>4 DEF ListedNames
  <2>6. PICK report : report = [handler.report EXCEPT !.placed = @ \ {n}, !.modified = @ \ {n},
                                                      !.removed = @ \union {n}]
    OBVIOUS
  <2>7. handler' = [handler EXCEPT !.report = report]
    BY <1>7, <2>6
  <2>8. handler'.at # "removing"
    BY <1>1, <2>7 DEF Workers
  <2> QED
    BY <1>1, <1>2, <2>1, <2>5, <2>8, OrphanStep
<1>8. CASE /\ DeleteOk(n)
           /\ app' = [app EXCEPT
                 !.pod_names = @ \ {n},
                 !.hosts = [d \in Comps |-> IF d < c THEN RemainingHosts(d) ELSE @[d]]]
           /\ Raise
  <2>1. RunningNames' = RunningNames \ {n} /\ api_error' = api_error
    BY <1>8, CallNames
  <2>2. PICK hosts : hosts = [d \in Comps |-> IF d < c THEN RemainingHosts(d) ELSE app.hosts[d]]
    OBVIOUS
  <2>3. app' = [app EXCEPT !.pod_names = @ \ {n}, !.hosts = hosts]
    BY <1>8, <2>2
  <2>4. app.known /\ app'.known /\ app'.pod_names = app.pod_names \ {n}
    BY <1>1, <2>3 DEF Apps
  <2>5. ListedNames' = ListedNames \ {n}
    BY <2>4 DEF ListedNames
  <2>6. handler'.at # "removing"
    BY <1>1, <1>8, Stopped
  <2> QED
    BY <1>1, <1>2, <2>1, <2>5, <2>6, OrphanStep
<1> QED
  BY <1>4, <1>5, <1>6, <1>7, <1>8

LEMMA ListsNoPlan ==
  NoPlanIn(Listing)
BY DEF NoPlanIn, Listing, Added

LEMMA RestartOrphans ==
  ASSUME TypeOK, OrphanInv, Restart
  PROVE  OrphanInv'
<1>1. /\ announced' = FALSE /\ handler' = Idle /\ app' = NoApp /\ notifications' = Listing
      /\ pods' = {} \/ api_error'
  BY DEF Restart
<1>2. handler'.at = "idle"
  BY <1>1 DEF Idle
<1>3. NoPlanIn(notifications')
  BY <1>1, ListsNoPlan
<1>4. pods' = {} => RunningNames' = {}
  BY DEF RunningNames
<1>5. Withdrawn' /\ RemovesWithdrawn' /\ NothingLeft' /\ PodsAreListed'
  BY <1>1, <1>2, <1>3, <1>4 DEF Withdrawn, RemovesWithdrawn, NothingLeft, PodsAreListed
<1> QED
  BY <1>5 DEF OrphanInv

LEMMA InitOrphans == Init => OrphanInv
<1> SUFFICES ASSUME Init PROVE OrphanInv
  OBVIOUS
<1>1. notifications = Listing /\ announced = FALSE /\ handler.at = "idle" /\ pods = {}
  BY DEF Init, Idle
<1>2. NoPlanIn(notifications)
  BY <1>1, ListsNoPlan
<1>3. RunningNames = {}
  BY <1>1 DEF RunningNames
<1> QED
  BY <1>1, <1>2, <1>3
  DEF OrphanInv, Withdrawn, RemovesWithdrawn, NothingLeft, PodsAreListed

LEMMA NextOrphans ==
  ASSUME TypeOK, OrphanInv, [Next]_vars
  PROVE  OrphanInv'
<1>1. CASE UNCHANGED vars
  BY <1>1 DEF vars, envVars, historyVars, OrphanInv, Withdrawn, NoPlanIn,
              RemovesWithdrawn, NothingLeft, PodsAreListed, RunningNames, ListedNames
<1>2. CASE \/ \E where \in {"here", "elsewhere"} : CreateResource(where)
           \/ DeleteResource \/ ModifyResource \/ WatchRepeats
           \/ \E steps \in InitialPlans : Submit(steps, TRUE)
           \/ \E steps \in Plans : Submit(steps, FALSE)
           \/ \E p \in pods : PodDies(p)
  BY <1>2, EnvironmentOrphans
<1>3. CASE AppHandler
  <2>1. CASE AppEvent
    BY <2>1, EventOrphans
  <2>2. CASE PlanOfUnknownApp \/ StartInitialPlan \/ StartPlan
    BY <2>2, StartOrphans
  <2>3. CASE \/ Answer \/ FinishInitialPlan \/ ActMove \/ ActDeploy \/ ActRemove
             \/ StartDeploying \/ StartDeleting \/ FinishPlan
    BY <2>3, QuietOrphans
  <2>4. CASE DeployInstance
    BY <2>4, DeployOrphans
  <2>5. CASE ActChangeSpec
    BY <2>5, ChangeOrphans
  <2>6. CASE DeleteOldPod
    BY <2>6, ReplaceOrphans
  <2>7. CASE DeployNewPod
    BY <2>7, DeployNewOrphans
  <2>8. CASE DeleteUnusedPod
    BY <2>8, DeleteUnusedOrphans
  <2> QED
    BY <1>3, <2>1, <2>2, <2>3, <2>4, <2>5, <2>6, <2>7, <2>8 DEF AppHandler, InitialPlan, LaterPlan
<1>4. CASE Restart
  BY <1>4, RestartOrphans
<1> QED
  BY <1>1, <1>2, <1>3, <1>4 DEF Next

\* As long as Kubernetes refuses no call, no plan waits while its application is removed and none is
\* announced again without having been removed, the FluidityApp controller loses no pod:
\* each one that runs is in the list of the application, whatever plans failed or raised
\* half-way, and none is left once the application is gone.
THEOREM NoOrphans == Spec => []NoOrphanPods
<1>1. Init => OrphanInv
  BY InitOrphans
<1>2. TypeOK /\ OrphanInv /\ [Next]_vars => OrphanInv'
  BY NextOrphans
<1>3. OrphanInv => NoOrphanPods
  BY DEF OrphanInv, PodsAreListed, NoOrphanPods, ListedNames, Idle
<1> QED
  BY <1>1, <1>2, <1>3, TypesOK, PTL DEF Spec

-----------------------------------------------------------------------------
(* What is reported of a plan. *)

\* The manifests that wait for their pod have a name of their own, which no pod of the
\* list has; M: the manifests of the components, P: the names in the list.
Fresh(M, P) ==
  \A c \in Comps : \A i \in DOMAIN M[c] : M[c][i].status = "PENDING" =>
    /\ ~M[c][i].shared /\ M[c][i].name \notin P
    /\ \A d \in Comps : \A j \in DOMAIN M[d] :
         M[d][j].status = "PENDING" /\ M[d][j].name = M[c][i].name => d = c /\ j = i

PendingIsFresh(a) == a.known => Fresh(a.manifests, a.pod_names)

\* Nor is the name of a pod that runs, or ran when the plan started, used again.
NamesAreUnique == \A p, q \in pods \union before : p.name = q.name => p = q

Was == {p.name : p \in before}

\* A pod that ran when the plan started and is gone does not come back in the plan.
NothingAgain ==
  handler.at \in {"acting", "changing", "creating"} =>
    \A c \in Comps : \A i \in DOMAIN app.manifests[c] :
      app.manifests[c][i].status = "PENDING" /\ app.manifests[c][i].name \in Was =>
        app.manifests[c][i].name \in RunningNames

\* A plan is carried out, or has been completed.
Busy == /\ handler.at \notin {"idle", "removing"}
        /\ handler.at = "reply" => handler.status = "COMPLETED"

Changes(steps) == \E k \in DOMAIN steps : steps[k].action = "change_spec"

\* The report of h accounts for the difference between the pods W and the pods R.
Accounts(h, R, W) ==
  /\ (h.report.placed \union h.report.modified) \cap W = {}
  /\ R \ W \subseteq h.report.placed \union h.report.modified
                       \union (IF h.at = "changing" THEN h.pod ELSE {})
  /\ h.report.removed \cap R = {}
  /\ h.at \notin {"deleting", "reply"} => h.report.removed = {}
  /\ Changes(h.steps) \/ W \ R \subseteq h.report.removed

Reported == Busy => Accounts(handler, RunningNames, Was)

\* A pod is replaced only by a plan with a change_spec, and by a new one.
StepsLeft ==
  /\ handler.at \in {"acting", "changing"} =>
       \A i \in DOMAIN handler.todo : \E k \in DOMAIN handler.steps : handler.steps[k] = handler.todo[i]
  /\ handler.at = "changing" =>
       Changes(handler.steps) /\ \E new : handler.pod = {new} /\ new \notin Was

ReportInv ==
  /\ PendingIsFresh(app) /\ PendingIsFresh(app_copy)
  /\ NamesAreUnique /\ NothingAgain /\ Reported /\ StepsLeft

\* Two sequences, one after the other.
LEMMA Concatenated ==
  ASSUME NEW S, NEW s \in Seq(S), NEW t \in Seq(S)
  PROVE  /\ DOMAIN (s \o t) = 1..(Len(s) + Len(t))
         /\ \A i \in 1..(Len(s) + Len(t)) : (s \o t)[i] = IF i <= Len(s) THEN s[i] ELSE t[i - Len(s)]
OBVIOUS

\* Manifests that wait for their pod are where they were.
LEMMA FreshStays ==
  ASSUME NEW M, NEW P, NEW N, NEW Q, Fresh(M, P),
         \A c \in Comps : \A i \in DOMAIN N[c] : N[c][i].status = "PENDING" =>
           i \in DOMAIN M[c] /\ M[c][i] = N[c][i] /\ N[c][i].name \notin Q
  PROVE  Fresh(N, Q)
BY DEF Fresh

\* Manifests are added, with names that no manifest that waits has.
LEMMA FreshGrows ==
  ASSUME NEW M, NEW P, NEW N, NEW Q, Fresh(M, P),
         \A c \in Comps : \A i \in DOMAIN N[c] : N[c][i].status = "PENDING" =>
           /\ N[c][i].name \notin Q
           /\ \/ i \in DOMAIN M[c] /\ M[c][i] = N[c][i]
              \/ i \notin DOMAIN M[c] /\ ~N[c][i].shared,
         \A c, d \in Comps : \A i \in DOMAIN N[c], j \in DOMAIN N[d] :
           j \notin DOMAIN M[d] /\ N[c][i].status = "PENDING" /\ N[c][i].name = N[d][j].name
             => c = d /\ i = j
  PROVE  Fresh(N, Q)
<1> SUFFICES ASSUME NEW c \in Comps, NEW i \in DOMAIN N[c], N[c][i].status = "PENDING",
                    NEW d \in Comps, NEW j \in DOMAIN N[d], N[d][j].status = "PENDING"
             PROVE  /\ ~N[c][i].shared /\ N[c][i].name \notin Q
                    /\ N[d][j].name = N[c][i].name => d = c /\ j = i
  BY DEF Fresh
<1>1. ~N[c][i].shared /\ N[c][i].name \notin Q
  BY DEF Fresh
<1>2. ASSUME N[d][j].name = N[c][i].name
      PROVE  d = c /\ j = i
  <2>1. CASE i \in DOMAIN M[c] /\ j \in DOMAIN M[d]
    <3>1. M[c][i] = N[c][i] /\ M[d][j] = N[d][j]
      BY <2>1
    <3> QED
      BY <1>2, <2>1, <3>1 DEF Fresh
  <2>2. CASE i \notin DOMAIN M[c]
    BY <1>2, <2>2
  <2>3. CASE j \notin DOMAIN M[d]
    BY <1>2, <2>3
  <2> QED
    BY <2>1, <2>2, <2>3
<1> QED
  BY <1>1, <1>2

\* Pods only disappear.
LEMMA FewerNames ==
  ASSUME NamesAreUnique, pods' \subseteq pods, before' \subseteq pods \union before
  PROVE  NamesAreUnique'
BY DEF NamesAreUnique

\* A pod with a new name.
LEMMA MoreNames ==
  ASSUME NamesAreUnique, NEW p, pods' = pods \union {p}, before' = before,
         p.name \notin RunningNames, p.name \notin Was
  PROVE  NamesAreUnique'
BY DEF NamesAreUnique, RunningNames, Was

\* No plan is carried out, or one has failed.
LEMMA NotBusy ==
  ASSUME PendingIsFresh(app'), PendingIsFresh(app_copy'), NamesAreUnique',
         \/ handler'.at \in {"idle", "removing"}
         \/ handler'.at = "reply" /\ handler'.status = "FAILED"
  PROVE  ReportInv'
<1>1. NothingAgain' /\ Reported' /\ StepsLeft'
  BY DEF NothingAgain, Reported, Busy, StepsLeft
<1> QED
  BY <1>1 DEF ReportInv

LEMMA NoManifests ==
  /\ \A here : PendingIsFresh(NewApp(here))
  /\ PendingIsFresh(NoApp)
BY DEF PendingIsFresh, Fresh, NewApp, NoApp

\* Events, plans that are submitted, and steps that change nothing.
LEMMA SameReport ==
  ASSUME ReportInv, UNCHANGED <<app, app_copy, handler, pods, before>>
  PROVE  ReportInv'
BY DEF ReportInv, PendingIsFresh, NamesAreUnique, NothingAgain, Reported, Busy, StepsLeft, Was, RunningNames

LEMMA DeathReport ==
  ASSUME TypeOK, ReportInv, NEW p \in pods, PodDies(p)
  PROVE  ReportInv'
<1>1. /\ UNCHANGED <<app, app_copy, handler>>
      /\ pods' = pods \ {p} /\ before' = before \ {p}
  BY DEF PodDies
<1>2. NamesAreUnique
  BY DEF ReportInv
<1>3. RunningNames' = RunningNames \ {p.name} /\ Was' = Was \ {p.name}
  BY <1>1, <1>2 DEF NamesAreUnique, RunningNames, Was
<1>4. PendingIsFresh(app') /\ PendingIsFresh(app_copy')
  BY <1>1 DEF ReportInv
<1>5. NamesAreUnique'
  BY <1>1, <1>2, FewerNames
<1>6. NothingAgain' /\ StepsLeft'
  BY <1>1, <1>3 DEF ReportInv, NothingAgain, StepsLeft
<1>7. Reported'
  BY <1>1, <1>3 DEF ReportInv, Reported, Busy, Accounts
<1> QED
  BY <1>4, <1>5, <1>6, <1>7 DEF ReportInv

LEMMA EventReport ==
  ASSUME TypeOK, ReportInv, AppEvent
  PROVE  ReportInv'
<1>1. /\ handler'.at \in {"idle", "removing"} /\ app_copy' = app_copy
      /\ pods' \subseteq pods /\ before' = before
      /\ app' \in {app, NoApp} \/ \E here : app' = NewApp(here)
  <2>1. CASE HandleAdded
    BY <2>1 DEF HandleAdded, Take, Idle, historyVars
  <2>2. CASE HandleModified
    BY <2>2 DEF HandleModified, Take, Idle, historyVars
  <2>3. CASE HandleDeleted
    BY <2>3 DEF HandleDeleted, Idle
  <2>4. CASE RemovePod
    <3>1. handler.at = "removing" /\ UNCHANGED <<app, app_copy, before>>
      BY <2>4 DEF RemovePod, historyVars
    <3>2. PICK n : \/ DeleteOk(n) /\ handler' = [handler EXCEPT !.todo = @ \ {n}]
                   \/ DeleteFails(n) /\ handler' = Idle
      BY <2>4, Zenon DEF RemovePod
    <3>3. pods' \subseteq pods
      BY <3>2, Calls
    <3>4. handler'.at \in {"idle", "removing"}
      BY <3>1, <3>2, Remover DEF Idle
    <3> QED
      BY <3>1, <3>3, <3>4
  <2>5. CASE ForgetApp
    BY <2>5 DEF ForgetApp, Idle, historyVars
  <2> QED
    BY <2>1, <2>2, <2>3, <2>4, <2>5 DEF AppEvent
<1>2. PendingIsFresh(app') /\ PendingIsFresh(app_copy')
  BY <1>1, NoManifests DEF ReportInv
<1>3. NamesAreUnique'
  BY <1>1, FewerNames DEF ReportInv
<1> QED
  BY <1>1, <1>2, <1>3, NotBusy

\* What a worker looks like afterwards.
Looks(w, at, todo, pod, report) ==
  /\ w.at = at /\ w.todo = todo /\ w.pod = pod /\ w.report = report
  /\ w.steps = handler.steps /\ w.status = handler.status /\ w.initial = handler.initial

LEMMA WorkerLooks ==
  ASSUME handler \in Workers, NEW at, NEW todo, NEW pod, NEW report
  PROVE  /\ \A w : w = [handler EXCEPT !.todo = todo, !.report = report]
                   => Looks(w, handler.at, todo, handler.pod, report)
         /\ \A w : w = [handler EXCEPT !.at = at, !.todo = todo, !.pod = pod, !.report = report]
                   => Looks(w, at, todo, pod, report)
         /\ \A w : w = [handler EXCEPT !.at = at, !.pod = pod]
                   => Looks(w, at, handler.todo, pod, handler.report)
         /\ \A w : w = [handler EXCEPT !.at = at]
                   => Looks(w, at, handler.todo, handler.pod, handler.report)
         /\ \A w : w = [handler EXCEPT !.todo = todo]
                   => Looks(w, handler.at, todo, handler.pod, handler.report)
         /\ \A w : w = [handler EXCEPT !.report = report]
                   => Looks(w, handler.at, handler.todo, handler.pod, report)
<1> DEFINE S == Seq(Steps)
<1>1. handler \in [at : States, id : DOMAIN answers, initial : BOOLEAN, steps : S, todo : S,
                   pod : SUBSET Names, status : {"none", "COMPLETED", "FAILED"}, report : Reports]
  BY DEF Workers, States
<1> HIDE DEF S
<1> QED
  BY <1>1 DEF Looks

LEMMA FinishLooks ==
  ASSUME handler \in Workers, NEW status, Finish(status)
  PROVE  /\ handler'.at = "reply" /\ handler'.status = status
         /\ handler'.report = handler.report /\ handler'.steps = handler.steps
         /\ handler'.initial = handler.initial
<1> DEFINE S == Seq(Steps)
<1>1. handler \in [at : States, id : DOMAIN answers, initial : BOOLEAN, steps : S, todo : S,
                   pod : SUBSET Names, status : {"none", "COMPLETED", "FAILED"}, report : Reports]
  BY DEF Workers, States
<1> HIDE DEF S
<1> QED
  BY <1>1 DEF Finish

LEMMA StartReport ==
  ASSUME TypeOK, ReportInv, PlanOfUnknownApp \/ StartInitialPlan \/ StartPlan
  PROVE  ReportInv'
<1>1. PICK plan : plan = Head(notifications)
  OBVIOUS
<1>2. /\ plan \in Plan /\ plan.steps \in Seq(Steps)
      /\ handler = Idle /\ before' = pods /\ pods' = pods
  BY <1>1, TakenPlan DEF PlanOfUnknownApp, StartInitialPlan, StartPlan
<1>3. app' = app /\ app_copy' \in {app, app_copy, NoApp}
  BY DEF PlanOfUnknownApp, StartInitialPlan, StartPlan
<1>4. PendingIsFresh(app') /\ PendingIsFresh(app_copy')
  BY <1>3, NoManifests DEF ReportInv
<1>5. NamesAreUnique'
  BY <1>2, FewerNames DEF ReportInv
<1>6. RunningNames' = Was'
  BY <1>2 DEF RunningNames, Was
<1>7. CASE handler' = Idle
  BY <1>4, <1>5, <1>7, NotBusy DEF Idle
<1>8. CASE handler' = [Working("reply", plan) EXCEPT !.status = "FAILED"]
  <2>1. handler'.at = "reply" /\ handler'.status = "FAILED"
    BY <1>8 DEF Working
  <2> QED
    BY <1>4, <1>5, <2>1, NotBusy
<1>9. ASSUME NEW at \in {"deploying", "acting"}, NEW todo,
             handler' = [Working(at, plan) EXCEPT !.todo = todo],
             at = "acting" => todo = plan.steps
      PROVE  ReportInv'
  <2>1. /\ handler'.at = at /\ handler'.report = NoReport /\ handler'.steps = plan.steps
        /\ handler'.todo = todo
    BY <1>9 DEF Working
  <2>2. NothingAgain' /\ StepsLeft'
    BY <1>6, <1>9, <2>1 DEF NothingAgain, StepsLeft
  <2>3. Reported'
    BY <1>6, <1>9, <2>1 DEF Reported, Accounts, NoReport
  <2> QED
    BY <1>4, <1>5, <2>2, <2>3 DEF ReportInv
<1>10. \/ handler' = Idle
       \/ handler' = [Working("reply", plan) EXCEPT !.status = "FAILED"]
       \/ \E todo : handler' = [Working("deploying", plan) EXCEPT !.todo = todo]
       \/ handler' = Working("acting", plan)
  <2>1. CASE PlanOfUnknownApp
    BY <1>2, <2>1 DEF PlanOfUnknownApp
  <2>2. CASE StartInitialPlan
    <3>1. PICK todo : todo = IF app.here THEN Working("deploying", plan).todo ELSE << >>
      OBVIOUS
    <3>2. handler' = IF ~ValidSteps(plan.steps)
                     THEN [Working("reply", plan) EXCEPT !.status = "FAILED"]
                     ELSE [Working("deploying", plan) EXCEPT !.todo = todo]
      BY <1>1, <2>2, <3>1 DEF StartInitialPlan
    <3> QED
      BY <3>2
  <2>3. CASE StartPlan
    BY <1>1, <2>3 DEF StartPlan
  <2> QED
    BY <2>1, <2>2, <2>3
<1>11. CASE handler' = Working("acting", plan)
  <2>1. handler' = [Working("acting", plan) EXCEPT !.todo = plan.steps]
    BY <1>11 DEF Working
  <2> QED
    BY <1>9, <2>1
<1> QED
  BY <1>7, <1>8, <1>9, <1>10, <1>11

\* Steps that leave pods, manifests and reports alone.
LEMMA QuietReport ==
  ASSUME TypeOK, ReportInv,
         \/ Answer \/ FinishInitialPlan \/ ActMove \/ ActDeploy \/ ActRemove
         \/ StartDeleting \/ FinishPlan
  PROVE  ReportInv'
<1>1. handler.at \in {"reply", "deploying", "acting", "creating", "deleting"}
  BY DEF Answer, FinishInitialPlan, ActMove, ActDeploy, ActRemove, Act, StartDeleting, FinishPlan
<1>2. handler \in Workers /\ (handler.at # "reply" => app.known /\ app \in Apps)
  BY <1>1, Worker, Basics, KnownApp
<1>3. UNCHANGED <<app_copy, pods, before>>
  BY DEF Answer, FinishInitialPlan, ActMove, ActDeploy, ActRemove, Act, ActionEnds,
         StartDeleting, FinishPlan, historyVars
<1>4. \/ app' = app
      \/ app.known /\ app'.known /\ app'.manifests = app.manifests /\ app'.pod_names = app.pod_names
  <2>1. CASE Answer \/ FinishInitialPlan \/ StartDeleting
    BY <2>1 DEF Answer, FinishInitialPlan, StartDeleting
  <2>2. CASE FinishPlan
    <3>1. app \in Apps
      BY <1>2, <2>2 DEF FinishPlan
    <3>2. PICK hosts : app' = [app EXCEPT !.hosts = hosts]
      BY <2>2 DEF FinishPlan
    <3> QED
      BY <1>2, <2>2, <3>1, <3>2 DEF Apps, FinishPlan
  <2>3. CASE ActMove \/ ActDeploy \/ ActRemove
    <3>1. handler.at = "acting" /\ handler.todo # << >>
      BY <2>3 DEF ActMove, ActDeploy, ActRemove, Act
    <3>2. PICK s : s = Head(handler.todo)
      OBVIOUS
    <3>3. s.comp \in Comps
      <4>1. s \in Steps
        BY <3>1, <3>2, Worker, Shortened, SMTT(30)
      <4> QED
        BY <4>1, SMTT(30) DEF Steps
    <3>4. app' = app \/ \E hosts : app' = [app EXCEPT !.hosts[s.comp] = hosts]
      BY <2>3, <3>2 DEF ActMove, ActDeploy, ActRemove
    <3>5. app.known /\ app \in Apps
      BY <1>2, <3>1
    <3>6. CASE \E hosts : app' = [app EXCEPT !.hosts[s.comp] = hosts]
      <4>1. PICK hosts : app' = [app EXCEPT !.hosts[s.comp] = hosts]
        BY <3>6
      <4> QED
        BY <3>3, <3>5, <4>1 DEF Apps
    <3> QED
      BY <3>4, <3>6
  <2> QED
    BY <2>1, <2>2, <2>3
<1>5. PendingIsFresh(app') /\ PendingIsFresh(app_copy')
  BY <1>3, <1>4 DEF ReportInv, PendingIsFresh
<1>6. NamesAreUnique'
  BY <1>3, FewerNames DEF ReportInv
<1>7. RunningNames' = RunningNames /\ Was' = Was
  BY <1>3 DEF RunningNames, Was
<1>8. CASE handler' = Idle
  BY <1>5, <1>6, <1>8, NotBusy DEF Idle
<1>9. ASSUME NEW status \in {"COMPLETED", "FAILED"}, Finish(status),
             status = "COMPLETED" => handler.at \in {"deploying", "deleting"}
      PROVE  ReportInv'
  <2>1. /\ handler'.at = "reply" /\ handler'.status = status
        /\ handler'.report = handler.report /\ handler'.steps = handler.steps
    BY <1>2, <1>9, FinishLooks
  <2>2. CASE status = "FAILED"
    BY <1>5, <1>6, <2>1, <2>2, NotBusy
  <2>3. CASE status = "COMPLETED"
    <3>1. NothingAgain' /\ StepsLeft'
      BY <2>1 DEF NothingAgain, StepsLeft
    <3>2. Reported'
      BY <1>7, <1>9, <2>1, <2>3 DEF ReportInv, Reported, Busy, Accounts
    <3> QED
      BY <1>5, <1>6, <3>1, <3>2 DEF ReportInv
  <2> QED
    BY <2>2, <2>3
<1>10. ASSUME NEW at, NEW pod, Looks(handler', at, handler.todo, pod, handler.report),
              handler.at = "creating", at = "deleting"
       PROVE  ReportInv'
  <2>1. NothingAgain' /\ StepsLeft'
    BY <1>10 DEF NothingAgain, StepsLeft, Looks
  <2>2. Reported'
    BY <1>7, <1>10 DEF ReportInv, Reported, Busy, Accounts, Looks
  <2> QED
    BY <1>5, <1>6, <2>1, <2>2 DEF ReportInv
<1>11. ASSUME handler.at = "acting", handler.todo # << >>, GoOn
       PROVE  ReportInv'
  <2>1. Looks(handler', handler.at, Tail(handler.todo), handler.pod, handler.report)
    BY <1>2, <1>11, WorkerLooks, Zenon DEF GoOn
  <2>2. NothingAgain'
    BY <1>2, <1>4, <1>7, <1>11 DEF ReportInv, NothingAgain
  <2>3. StepsLeft'
    <3>1. handler.todo \in Seq(Steps)
      BY <1>11, Worker
    <3>2. \A i \in DOMAIN Tail(handler.todo) :
            \E k \in DOMAIN handler.todo : Tail(handler.todo)[i] = handler.todo[k]
      BY <1>11, <3>1, Shortened
    <3> QED
      BY <1>11, <2>1, <3>2 DEF ReportInv, StepsLeft, Looks
  <2>4. Reported'
    BY <1>7, <1>11, <2>1 DEF ReportInv, Reported, Busy, Accounts, Looks
  <2> QED
    BY <1>5, <1>6, <2>2, <2>3, <2>4, SMTT(30) DEF ReportInv
<1>12. CASE Answer
  BY <1>8, <1>12 DEF Answer
<1>14. CASE FinishInitialPlan
  BY <1>9, <1>14 DEF FinishInitialPlan
<1>15. CASE ActMove \/ ActDeploy \/ ActRemove
  <2>1. handler.at = "acting" /\ handler.todo # << >>
    BY <1>15 DEF ActMove, ActDeploy, ActRemove, Act
  <2>2. GoOn \/ Finish("FAILED")
    BY <1>15 DEF ActMove, ActDeploy, ActRemove
  <2> QED
    BY <1>9, <1>11, <2>1, <2>2
<1>16. CASE StartDeleting
  <2>1. Looks(handler', "deleting", handler.todo, handler.pod, handler.report)
    BY <1>2, <1>16, WorkerLooks, Zenon DEF StartDeleting
  <2> QED
    BY <1>10, <1>16, <2>1 DEF StartDeleting
<1>17. CASE FinishPlan
  BY <1>9, <1>17 DEF FinishPlan
<1> QED
  BY <1>12, <1>14, <1>15, <1>16, <1>17

\* A name that is drawn now is nowhere yet.
LEMMA NewName ==
  ASSUME TypeOK, NEW c, NEW k \in Nat, k >= next_pod
  PROVE  /\ PodName(c, k) \notin RunningNames /\ PodName(c, k) \notin Was
         /\ app.known => /\ PodName(c, k) \notin app.pod_names
                         /\ \A d \in Comps : \A i \in DOMAIN app.manifests[d] :
                              app.manifests[d][i].name # PodName(c, k)
<1>1. PodName(c, k) \notin Names
  BY Basics DEF PodName, Names
<1>2. pods \subseteq [name : Names, host : Hosts] /\ before \subseteq [name : Names, host : Hosts]
  BY DEF TypeOK
<1>3. PodName(c, k) \notin RunningNames /\ PodName(c, k) \notin Was
  BY <1>1, <1>2 DEF RunningNames, Was
<1>4. ASSUME app.known
      PROVE  /\ PodName(c, k) \notin app.pod_names
             /\ \A d \in Comps : \A i \in DOMAIN app.manifests[d] :
                  app.manifests[d][i].name # PodName(c, k)
  <2>1. app \in AppsOf(Names)
    BY <1>4, KnownApp
  <2>2. app.pod_names \subseteq Names
    BY <2>1, AppFields
  <2>3. ASSUME NEW d \in Comps, NEW i \in DOMAIN app.manifests[d]
        PROVE  app.manifests[d][i].name \in Names
    <3>1. app.manifests[d] \in Seq(ManifestsOf(Names))
      BY <2>1, AppFields
    <3>2. app.manifests[d][i] \in ManifestsOf(Names)
      BY <3>1
    <3> QED
      BY <3>2 DEF ManifestsOf
  <2> QED
    BY <1>1, <2>2, <2>3
<1> QED
  BY <1>3, <1>4

LEMMA PodsAfter ==
  /\ \A n : DeleteOk(n) => pods' \subseteq pods
  /\ \A n : DeleteFails(n) => pods' = pods
  /\ \A n : CreateFails(n) => pods' = pods
  /\ \A p : CreateOk(p) => pods' = pods \union {p} /\ p.name \notin RunningNames
BY DEF DeleteOk, DeleteFails, CreateFails, CreateOk, RunningNames, Running

\* A refused call ends the plan, with the tables from before it.
LEMMA FailReport ==
  ASSUME TypeOK, ReportInv, handler.at \notin {"idle", "removing"}, FailAndRestore,
         UNCHANGED <<app_copy, pods, before>>
  PROVE  ReportInv'
<1>1. app' = app_copy /\ handler'.at = "reply" /\ handler'.status = "FAILED"
  BY Worker, Restored
<1>2. PendingIsFresh(app') /\ PendingIsFresh(app_copy') /\ NamesAreUnique'
  BY <1>1, FewerNames DEF ReportInv
<1> QED
  BY <1>1, <1>2, NotBusy

LEMMA DeployReport ==
  ASSUME TypeOK, ReportInv, DeployInstance
  PROVE  ReportInv'
<1>1. handler.at = "deploying" /\ handler \in Workers /\ app.known /\ app \in Apps /\ app \in AppsOf(Names)
  BY Worker, Basics, KnownApp DEF DeployInstance
<1>2. UNCHANGED <<app_copy, before>>
  BY DEF DeployInstance, historyVars
<1>3. PICK i, c, h, todo, name, hosts, a :
        Deploys(i, c, h, todo, name, hosts, a)
  BY DeployParts
<1>4. /\ i \in DOMAIN handler.todo /\ c = handler.todo[i].comp /\ h = handler.todo[i].host
      /\ name = PodName(c, next_pod)
      /\ a = [app EXCEPT !.hosts[c] = hosts]
  BY <1>3 DEF Deploys
<1>5. c \in Comps /\ h \in Hosts
  <2>1. handler.todo \in Seq(Steps)
    BY <1>1, Worker
  <2>2. handler.todo[i] \in Steps
    BY <1>4, <2>1
  <2> QED
    BY <1>4, <2>2 DEF Steps
<1>6. /\ a.known /\ a.manifests = app.manifests /\ a.pod_names = app.pod_names
      /\ DOMAIN a = {"known", "here", "hosts", "manifests", "pod_names"}
  BY <1>1, <1>4 DEF Apps
<1>7. ASSUME NEW status \in {"ACTIVE", "PENDING"}, NEW names, names \subseteq app.pod_names \union {name},
             status = "PENDING" => name \notin names,
             app' = [a EXCEPT !.manifests[c] = Append(@, Manifest(name, h, status)), !.pod_names = names]
      PROVE  PendingIsFresh(app')
  <2>1. PICK m : m = Manifest(name, h, status)
    OBVIOUS
  <2>2. m.name = name /\ m.status = status /\ ~m.shared
    BY <2>1 DEF Manifest
  <2>3. PICK list : list = Append(app.manifests[c], m)
    OBVIOUS
  <2>4. app' = [a EXCEPT !.manifests[c] = list, !.pod_names = names]
    BY <1>6, <1>7, <2>1, <2>3
  <2>5. app'.manifests = [app.manifests EXCEPT ![c] = list] /\ app'.pod_names = names
    BY <1>6, <2>4
  <2>6. app.manifests \in [Comps -> Seq(ManifestsOf(Names))]
    BY <1>1, AppFields
  <2>7. Fresh(app.manifests, app.pod_names)
    BY <1>1 DEF ReportInv, PendingIsFresh
  <2>8. \A d \in Comps : \A j \in DOMAIN app.manifests[d] : app.manifests[d][j].name # name
    BY <1>1, <1>4, Basics, NewName
  <2>9. \A d \in Comps : \A j \in DOMAIN app.manifests[d] : app.manifests[d][j].status = "PENDING" =>
          app.manifests[d][j].name \notin names
    BY <1>7, <2>7, <2>8 DEF Fresh
  <2>10. Fresh(app'.manifests, app'.pod_names)
    <3>1. PICK M, N : M = app.manifests /\ N = app'.manifests
      OBVIOUS
    <3>2. PICK S : S = ManifestsOf(Names) \union {m}
      OBVIOUS
    <3>3. M[c] \in Seq(S) /\ m \in S
      BY <1>5, <2>6, <3>1, <3>2, SeqGrows
    <3>4. /\ N[c] = Append(M[c], m) /\ \A d \in Comps : d # c => N[d] = M[d]
      BY <1>5, <2>3, <2>5, <2>6, <3>1
    <3>5. PICK k : k = Len(M[c]) + 1
      OBVIOUS
    <3>6. /\ DOMAIN N[c] = DOMAIN M[c] \union {k} /\ k \notin DOMAIN M[c] /\ N[c][k] = m
          /\ \A l \in DOMAIN M[c] : N[c][l] = M[c][l]
      BY <3>3, <3>4, <3>5, Appended
    <3>7. \A d \in Comps : \A l \in DOMAIN N[d] :
            \/ l \in DOMAIN M[d] /\ M[d][l] = N[d][l]
            \/ l \notin DOMAIN M[d] /\ N[d][l] = m /\ d = c /\ l = k
      BY <3>4, <3>6
    <3>8. CASE status = "ACTIVE"
      <4>1. \A d \in Comps : \A l \in DOMAIN N[d] : N[d][l].status = "PENDING" =>
              l \in DOMAIN M[d] /\ M[d][l] = N[d][l] /\ N[d][l].name \notin names
        BY <2>2, <2>9, <3>1, <3>7, <3>8
      <4>2. Fresh(N, names)
        BY <2>7, <3>1, <4>1, FreshStays
      <4> QED
        BY <2>5, <3>1, <4>2
    <3>9. CASE status = "PENDING"
      <4>2. \A d \in Comps : \A l \in DOMAIN N[d] : N[d][l].status = "PENDING" =>
              /\ N[d][l].name \notin names
              /\ \/ l \in DOMAIN M[d] /\ M[d][l] = N[d][l]
                 \/ l \notin DOMAIN M[d] /\ ~N[d][l].shared
        BY <1>7, <2>2, <2>8, <2>9, <3>1, <3>7, <3>9
      <4>3. \A d, e \in Comps : \A l \in DOMAIN N[d], j \in DOMAIN N[e] :
              j \notin DOMAIN M[e] /\ N[d][l].status = "PENDING" /\ N[d][l].name = N[e][j].name
                => d = e /\ l = j
        BY <2>2, <2>8, <3>1, <3>7
      <4>4. Fresh(N, names)
        BY <2>7, <3>1, <4>2, <4>3, FreshGrows
      <4> QED
        BY <2>5, <3>1, <4>4
    <3> QED
      BY <3>8, <3>9
  <2> QED
    BY <2>10 DEF PendingIsFresh
<1>8. PendingIsFresh(app_copy')
  BY <1>2 DEF ReportInv
<1>9. name \notin RunningNames /\ name \notin Was
  BY <1>4, Basics, NewName
<1>10. CASE /\ CreateFails(name)
            /\ app' = [a EXCEPT !.manifests[c] = Append(@, Manifest(name, h, "PENDING")), !.pod_names = {}]
            /\ Finish("FAILED")
  <2>1. PICK names : names = {}
    OBVIOUS
  <2>2. PendingIsFresh(app')
    <3>1. app' = [a EXCEPT !.manifests[c] = Append(@, Manifest(name, h, "PENDING")), !.pod_names = names]
      BY <1>10, <2>1
    <3> QED
      BY <1>7, <2>1, <3>1
  <2>3. NamesAreUnique'
    BY <1>2, <1>10, PodsAfter, FewerNames DEF ReportInv
  <2>4. handler'.at = "reply" /\ handler'.status = "FAILED"
    BY <1>1, <1>10, FinishLooks
  <2> QED
    BY <1>8, <2>2, <2>3, <2>4, NotBusy
<1>11. CASE /\ CreateOk([name |-> name, host |-> h])
            /\ app' = [a EXCEPT !.manifests[c] = Append(@, Manifest(name, h, "ACTIVE")),
                                !.pod_names = @ \union {name}]
            /\ handler' = [handler EXCEPT !.todo = todo, !.report.placed = @ \union {name}]
  <2>1. PICK names : names = app.pod_names \union {name}
    OBVIOUS
  <2>2. app' = [a EXCEPT !.manifests[c] = Append(@, Manifest(name, h, "ACTIVE")), !.pod_names = names]
    BY <1>6, <1>11, <2>1
  <2>3. PendingIsFresh(app')
    BY <1>7, <2>1, <2>2
  <2>4. PICK p : p = [name |-> name, host |-> h]
    OBVIOUS
  <2>5. p.name = name /\ pods' = pods \union {p}
    BY <1>11, <2>4, PodsAfter
  <2>6. NamesAreUnique'
    BY <1>2, <1>9, <2>5, MoreNames DEF ReportInv
  <2>7. RunningNames' = RunningNames \union {name} /\ Was' = Was
    BY <1>2, <2>5 DEF RunningNames, Was
  <2>8. PICK report : report = [handler.report EXCEPT !.placed = @ \union {name}]
    BY Zenon
  <2>9. /\ report.placed = handler.report.placed \union {name}
        /\ report.modified = handler.report.modified /\ report.removed = handler.report.removed
    BY <1>1, <2>8, Worker DEF Reports
  <2>10. handler' = [handler EXCEPT !.todo = todo, !.report = report]
    BY <1>11, <2>8
  <2>11. Looks(handler', handler.at, todo, handler.pod, report)
    BY <1>1, <2>10, WorkerLooks, Zenon
  <2>12. handler'.at = handler.at /\ handler'.report = report /\ handler'.steps = handler.steps
    BY <2>11 DEF Looks
  <2>13. NothingAgain' /\ StepsLeft'
    BY <1>1, <1>4, <2>12 DEF NothingAgain, StepsLeft
  <2>14. Accounts(handler, RunningNames, Was)
    BY <1>1 DEF ReportInv, Reported, Busy
  <2>15. Accounts(handler', RunningNames', Was')
    BY <1>1, <1>4, <1>9, <2>7, <2>9, <2>12, <2>14 DEF Accounts
  <2> QED
    BY <1>8, <2>3, <2>6, <2>13, <2>15 DEF ReportInv, Reported
<1> QED
  BY <1>3, <1>10, <1>11 DEF Deploys

LEMMA ChangeReport ==
  ASSUME TypeOK, ReportInv, ActChangeSpec
  PROVE  ReportInv'
<1>1. /\ handler.at = "acting" /\ handler.todo # << >> /\ handler \in Workers
      /\ app.known /\ app \in Apps /\ app \in AppsOf(Names)
  BY Worker, Basics, KnownApp DEF ActChangeSpec
<1>2. UNCHANGED <<app_copy, before>>
  BY DEF ActChangeSpec
<1>3. PICK s, name : s = Head(handler.todo) /\ name = PodName(s.comp, next_pod)
  OBVIOUS
<1>4. s.comp \in Comps /\ s.action = "change_spec" /\ \E k \in DOMAIN handler.steps : handler.steps[k] = s
  <2>1. handler.todo \in Seq(Steps)
    BY <1>1, Worker
  <2>2. s \in Steps /\ 1 \in DOMAIN handler.todo /\ s = handler.todo[1]
    BY <1>1, <1>3, <2>1, Shortened
  <2>3. \E k \in DOMAIN handler.steps : handler.steps[k] = s
    BY <1>1, <2>2 DEF ReportInv, StepsLeft
  <2>4. s.comp \in Comps
    BY <2>2 DEF Steps
  <2> QED
    BY <1>3, <2>3, <2>4 DEF ActChangeSpec
<1>5. Changes(handler.steps)
  BY <1>4 DEF Changes
<1>6. \/ Finish("FAILED") /\ UNCHANGED <<app, pods>>
      \/ Raise /\ UNCHANGED <<app, pods>>
      \/ CreateFails(name) /\ FailAndRestore
      \/ /\ CreateOk([name |-> name, host |-> s.host])
         /\ app' = [app EXCEPT !.pod_names = @ \union {name},
                               !.manifests[s.comp] = Renamed(@, name)]
         /\ handler' = [handler EXCEPT !.at = "changing", !.pod = {name}]
  BY <1>3 DEF ActChangeSpec
<1>7. CASE (Finish("FAILED") \/ Raise) /\ UNCHANGED <<app, pods>>
  <2>1. handler'.at = "idle" \/ (handler'.at = "reply" /\ handler'.status = "FAILED")
    BY <1>1, <1>7, FinishLooks DEF Raise, Idle
  <2>2. PendingIsFresh(app') /\ PendingIsFresh(app_copy') /\ NamesAreUnique'
    BY <1>2, <1>7, FewerNames DEF ReportInv
  <2> QED
    BY <2>1, <2>2, NotBusy
<1>8. CASE CreateFails(name) /\ FailAndRestore
  BY <1>1, <1>2, <1>8, PodsAfter, FailReport
<1>9. CASE /\ CreateOk([name |-> name, host |-> s.host])
           /\ app' = [app EXCEPT !.pod_names = @ \union {name},
                                 !.manifests[s.comp] = Renamed(@, name)]
           /\ handler' = [handler EXCEPT !.at = "changing", !.pod = {name}]
  <2>1. /\ name \notin RunningNames /\ name \notin Was
        /\ \A d \in Comps : \A i \in DOMAIN app.manifests[d] : app.manifests[d][i].name # name
    BY <1>1, <1>3, Basics, NewName
  <2>2. PICK list, names : list = Renamed(app.manifests[s.comp], name) /\ names = app.pod_names \union {name}
    OBVIOUS
  <2>3. app' = [app EXCEPT !.pod_names = names, !.manifests[s.comp] = list]
    BY <1>9, <2>2
  <2>4. /\ app'.known /\ app'.manifests = [app.manifests EXCEPT ![s.comp] = list]
        /\ app'.pod_names = names
    <3>1. PICK c \in Comps : c = s.comp
      BY <1>4
    <3>2. app' = [app EXCEPT !.pod_names = names, !.manifests[c] = list]
      BY <2>3, <3>1
    <3> QED
      BY <1>1, <3>1, <3>2 DEF Apps
  <2>5. Fresh(app.manifests, app.pod_names)
    BY <1>1 DEF ReportInv, PendingIsFresh
  <2>6. ASSUME NEW c \in Comps, NEW i \in DOMAIN app'.manifests[c], app'.manifests[c][i].status = "PENDING"
        PROVE  i \in DOMAIN app.manifests[c] /\ app.manifests[c][i] = app'.manifests[c][i]
    <3>1. app.manifests \in [Comps -> Seq(ManifestsOf(Names))]
      BY <1>1, AppFields
    <3>2. CASE c # s.comp
      BY <2>4, <2>6, <3>1, <3>2
    <3>3. CASE c = s.comp
      <4>1. app'.manifests[c] = list
        BY <1>4, <2>4, <3>1, <3>3
      <4>2. PICK m : m = app.manifests[c][i]
        OBVIOUS
      <4>3. /\ i \in DOMAIN app.manifests[c]
            /\ app'.manifests[c][i] = IF m.shared THEN [m EXCEPT !.name = name] ELSE m
        BY <2>2, <3>3, <4>1, <4>2 DEF Renamed
      <4>4. m \in ManifestsOf(Names)
        BY <3>1, <4>2, <4>3
      <4>5. m.status = "PENDING"
        BY <2>6, <4>3, <4>4 DEF ManifestsOf
      <4>6. ~m.shared
        BY <2>5, <4>2, <4>3, <4>5 DEF Fresh
      <4> QED
        BY <4>2, <4>3, <4>6
    <3> QED
      BY <3>2, <3>3
  <2>7. ASSUME NEW c \in Comps, NEW i \in DOMAIN app'.manifests[c], app'.manifests[c][i].status = "PENDING"
        PROVE  app'.manifests[c][i].name \notin names
    BY <2>1, <2>2, <2>5, <2>6, <2>7 DEF Fresh
  <2>8. PendingIsFresh(app')
    <3>1. Fresh(app'.manifests, app'.pod_names)
      <4>1. PICK M, N : M = app.manifests /\ N = app'.manifests
        OBVIOUS
      <4>2. Fresh(N, names)
        BY <2>5, <2>6, <2>7, <4>1, FreshStays
      <4> QED
        BY <2>4, <4>1, <4>2
    <3> QED
      BY <3>1 DEF PendingIsFresh
  <2>9. PICK p : p = [name |-> name, host |-> s.host]
    BY Zenon
  <2>10. p.name = name /\ pods' = pods \union {p}
    BY <1>9, <2>9, PodsAfter
  <2>11. NamesAreUnique'
    BY <1>2, <2>1, <2>10, MoreNames, SMTT(30) DEF ReportInv
  <2>12. RunningNames' = RunningNames \union {name} /\ Was' = Was
    BY <1>2, <2>10 DEF RunningNames, Was
  <2>13. Looks(handler', "changing", handler.todo, {name}, handler.report)
    BY <1>1, <1>9, WorkerLooks, Zenon
  <2>14. /\ handler'.at = "changing" /\ handler'.todo = handler.todo /\ handler'.pod = {name}
         /\ handler'.report = handler.report /\ handler'.steps = handler.steps
    BY <2>13 DEF Looks
  <2>15. NothingAgain'
    BY <1>1, <2>6, <2>12 DEF ReportInv, NothingAgain
  <2>16. StepsLeft'
    BY <1>1, <1>5, <2>1, <2>12, <2>14 DEF ReportInv, StepsLeft
  <2>17. Accounts(handler, RunningNames, Was)
    BY <1>1 DEF ReportInv, Reported, Busy
  <2>18. Accounts(handler', RunningNames', Was')
    BY <1>1, <1>5, <2>1, <2>12, <2>14, <2>17 DEF Accounts
  <2>19. PendingIsFresh(app_copy')
    BY <1>2 DEF ReportInv
  <2> QED
    BY <2>8, <2>11, <2>15, <2>16, <2>18, <2>19 DEF ReportInv, Reported
<1> QED
  BY <1>6, <1>7, <1>8, <1>9

LEMMA ReplaceReport ==
  ASSUME TypeOK, ReportInv, DeleteOldPod
  PROVE  ReportInv'
<1>1. /\ handler.at = "changing" /\ handler.todo # << >> /\ handler \in Workers
      /\ app.known /\ app \in Apps /\ app \in AppsOf(Names)
  <2>1. handler.at = "changing" /\ handler.todo # << >>
    BY DEF DeleteOldPod, TypeOK
  <2> QED
    BY <2>1, Worker, Basics, KnownApp
<1>2. UNCHANGED <<app_copy, before>>
  BY DEF DeleteOldPod, historyVars
<1>3. PICK s : s = Head(handler.todo)
  OBVIOUS
<1>4. s.comp \in Comps
  <2>1. s \in Steps
    BY <1>1, <1>3, Worker, Shortened
  <2> QED
    BY <2>1 DEF Steps
<1>5. PICK old \in app.pod_names, new \in handler.pod :
         LET t == Head(handler.todo)
         IN
         \/ /\ DeleteOk(old)
            /\ app' = [app EXCEPT
                 !.pod_names = @ \ {old},
                 !.manifests[t.comp] = [i \in DOMAIN @ |-> Respecify(@[i], old, new, t.host)]]
            /\ handler' = [handler EXCEPT !.at = "acting", !.todo = Tail(@), !.pod = {},
                                          !.report.modified = @ \union {ReportedPod(old, new)}]
         \/ DeleteFails(old) /\ FailAndRestore
  BY Zenon DEF DeleteOldPod
<1>6. \/ /\ DeleteOk(old)
         /\ app' = [app EXCEPT
              !.pod_names = @ \ {old},
              !.manifests[s.comp] = [i \in DOMAIN @ |-> Respecify(@[i], old, new, s.host)]]
         /\ handler' = [handler EXCEPT !.at = "acting", !.todo = Tail(@), !.pod = {},
                                       !.report.modified = @ \union {ReportedPod(old, new)}]
      \/ DeleteFails(old) /\ FailAndRestore
  BY <1>3, <1>5
<1>7. CASE DeleteFails(old) /\ FailAndRestore
  BY <1>1, <1>2, <1>7, PodsAfter, FailReport
<1>8. CASE /\ DeleteOk(old)
           /\ app' = [app EXCEPT
                 !.pod_names = @ \ {old},
                 !.manifests[s.comp] = [i \in DOMAIN @ |-> Respecify(@[i], old, new, s.host)]]
           /\ handler' = [handler EXCEPT !.at = "acting", !.todo = Tail(@), !.pod = {},
                                         !.report.modified = @ \union {ReportedPod(old, new)}]
  <2>1. PICK c, l : c = s.comp /\ l = app.manifests[c]
    OBVIOUS
  <2>2. PICK list, names : /\ list = [i \in DOMAIN l |-> Respecify(l[i], old, new, s.host)]
                           /\ names = app.pod_names \ {old}
    OBVIOUS
  <2>3. app' = [app EXCEPT !.pod_names = names, !.manifests[c] = list]
    BY <1>8, <2>1, <2>2
  <2>4. /\ app'.known /\ app'.manifests = [app.manifests EXCEPT ![c] = list]
        /\ app'.pod_names = names
    BY <1>1, <1>4, <2>1, <2>3 DEF Apps
  <2>5. PICK M, N : M = app.manifests /\ N = app'.manifests
    OBVIOUS
  <2>6. Fresh(M, app.pod_names) /\ M \in [Comps -> Seq(ManifestsOf(Names))]
    BY <1>1, <2>5, AppFields DEF ReportInv, PendingIsFresh
  <2>7. ASSUME NEW d \in Comps, NEW i \in DOMAIN N[d], N[d][i].status = "PENDING"
        PROVE  i \in DOMAIN M[d] /\ M[d][i] = N[d][i]
    <3>1. CASE d # c
      BY <2>4, <2>5, <2>6, <2>7, <3>1
    <3>2. CASE d = c
      <4>1. N[d] = list /\ l = M[d]
        BY <1>4, <2>1, <2>4, <2>5, <2>6, <3>2
      <4>2. PICK m : m = M[d][i]
        OBVIOUS
      <4>3. i \in DOMAIN M[d] /\ N[d][i] = Respecify(m, old, new, s.host)
        BY <2>2, <2>7, <4>1, <4>2
      <4>4. m \in ManifestsOf(Names)
        BY <2>6, <4>2, <4>3
      <4>5. m.status = "PENDING"
        BY <2>7, <4>3, <4>4 DEF ManifestsOf, Respecify
      <4>6. m.name # old
        BY <1>5, <2>6, <4>2, <4>3, <4>5 DEF Fresh
      <4> QED
        BY <4>2, <4>3, <4>6 DEF Respecify
    <3> QED
      BY <3>1, <3>2
  <2>8. Fresh(N, names)
    <3>1. ASSUME NEW d \in Comps, NEW i \in DOMAIN N[d], N[d][i].status = "PENDING"
          PROVE  N[d][i].name \notin names
      BY <2>2, <2>6, <2>7, <3>1 DEF Fresh
    <3> QED
      BY <2>6, <2>7, <3>1, FreshStays
  <2>9. PendingIsFresh(app') /\ PendingIsFresh(app_copy')
    BY <1>2, <2>4, <2>5, <2>8 DEF ReportInv, PendingIsFresh
  <2>10. NamesAreUnique'
    BY <1>2, <1>8, PodsAfter, FewerNames DEF ReportInv
  <2>11. RunningNames' = RunningNames \ {old} /\ Was' = Was
    BY <1>2, <1>8, CallNames DEF Was
  <2>12. PICK todo, pod, report : /\ todo = Tail(handler.todo) /\ pod = {}
                                  /\ report = [handler.report EXCEPT !.modified = @ \union {new}]
    BY Zenon
  <2>13. /\ report.placed = handler.report.placed
         /\ report.modified = handler.report.modified \union {new}
         /\ report.removed = handler.report.removed
    BY <1>1, <2>12, Worker DEF Reports
  <2>14. handler' = [handler EXCEPT !.at = "acting", !.todo = todo, !.pod = pod, !.report = report]
    BY <1>8, <2>12 DEF ReportedPod
  <2>15. Looks(handler', "acting", todo, pod, report)
    BY <1>1, <2>14, WorkerLooks, Zenon
  <2>16. /\ handler'.at = "acting" /\ handler'.todo = todo /\ handler'.report = report
         /\ handler'.steps = handler.steps
    BY <2>15 DEF Looks
  <2>17. Changes(handler.steps) /\ handler.pod = {new} /\ new \notin Was
    BY <1>1 DEF ReportInv, StepsLeft
  <2>18. NothingAgain'
    <3>1. ASSUME NEW d \in Comps, NEW i \in DOMAIN N[d], N[d][i].status = "PENDING", N[d][i].name \in Was
          PROVE  N[d][i].name \in RunningNames /\ N[d][i].name # old
      <4>1. i \in DOMAIN M[d] /\ M[d][i] = N[d][i]
        BY <2>7, <3>1
      <4> QED
        BY <1>1, <1>5, <2>5, <2>6, <3>1, <4>1 DEF ReportInv, NothingAgain, Fresh
    <3> QED
      BY <2>5, <2>11, <3>1 DEF NothingAgain
  <2>19. StepsLeft'
    <3>1. \A i \in DOMAIN todo : \E k \in DOMAIN handler.todo : todo[i] = handler.todo[k]
      BY <1>1, <2>12, Worker, Shortened
    <3> QED
      BY <1>1, <2>16, <3>1 DEF ReportInv, StepsLeft
  <2>20. Accounts(handler, RunningNames, Was)
    BY <1>1 DEF ReportInv, Reported, Busy
  <2>21. Accounts(handler', RunningNames', Was')
    BY <1>1, <2>11, <2>13, <2>16, <2>17, <2>20 DEF Accounts
  <2> QED
    BY <2>9, <2>10, <2>18, <2>19, <2>21 DEF ReportInv, Reported
<1> QED
  BY <1>6, <1>7, <1>8

LEMMA StartDeployingReport ==
  ASSUME TypeOK, ReportInv, StartDeploying
  PROVE  ReportInv'
<1>1. /\ handler.at = "acting" /\ handler \in Workers
      /\ app.known /\ app \in Apps /\ app \in AppsOf(Names)
  BY Worker, Basics, KnownApp DEF StartDeploying
<1>2. UNCHANGED <<app_copy, before, pods>> /\ handler' = [handler EXCEPT !.at = "creating"]
  BY DEF StartDeploying, historyVars
<1>3. PICK N : N = [c \in Comps |-> app.manifests[c] \o AdjustedManifests(c)]
  BY Zenon
<1>4. app'.known /\ app'.manifests = N /\ app'.pod_names = app.pod_names
  <2>1. PICK hosts : app' = [app EXCEPT !.manifests = N, !.hosts = hosts]
    BY <1>3, Zenon DEF StartDeploying
  <2> QED
    BY <1>1, <2>1 DEF Apps
<1>5. PICK M : M = app.manifests
  OBVIOUS
<1>6. Fresh(M, app.pod_names) /\ M \in [Comps -> Seq(ManifestsOf(Names))]
  BY <1>1, <1>5, AppFields DEF ReportInv, PendingIsFresh
\* The manifests that are added: with a name each that was never used.
<1>7. ASSUME NEW c \in Comps
      PROVE  \E n, b \in Nat :
               /\ DOMAIN M[c] = 1..n /\ b >= next_pod
               /\ \A i \in DOMAIN N[c] :
                    \/ i \in DOMAIN M[c] /\ N[c][i] = M[c][i]
                    \/ /\ i \notin DOMAIN M[c] /\ i \in Nat /\ i > n
                       /\ ~N[c][i].shared /\ N[c][i].name = PodName(c, b + (i - n) - 1)
  <2>1. PICK s, t : s = M[c] /\ t = AdjustedManifests(c)
    OBVIOUS
  <2>2. PICK n, b, m : n = Len(s) /\ b = next_pod + NamesBefore(c) /\ m = Len(PendingHosts(c))
    OBVIOUS
  <2>3. next_pod \in Nat /\ NamesBefore(c) \in Nat
    BY <1>1, Basics, NewNames
  <2>4. s \in Seq(ManifestsOf(Names)) /\ n \in Nat /\ DOMAIN s = 1..n /\ b \in Nat /\ b >= next_pod
    BY <1>6, <2>1, <2>2, <2>3
  <2>5. m \in Nat /\ DOMAIN PendingHosts(c) = 1..m
    BY <1>1, <2>2, PendingHostsType
  <2>6. /\ DOMAIN t = 1..m
        /\ \A i \in 1..m : ~t[i].shared /\ t[i].name = PodName(c, b + i - 1)
    BY <2>1, <2>2, <2>5 DEF AdjustedManifests, Manifest
  <2>7. t \in Seq(ManifestsOf(Names'))
    BY <1>1, <2>1, AdjustedType DEF StartDeploying
  <2>8. Len(t) = m
    BY <2>5, <2>6, <2>7
  <2>9. PICK S : S = ManifestsOf(Names) \union ManifestsOf(Names')
    OBVIOUS
  <2>10. s \in Seq(S) /\ t \in Seq(S)
    BY <2>4, <2>7, <2>9, SeqGrows
  <2>11. N[c] = s \o t
    BY <1>3, <1>5, <2>1
  <2>12. /\ DOMAIN N[c] = 1..(n + m)
         /\ \A i \in 1..(n + m) : N[c][i] = IF i <= n THEN s[i] ELSE t[i - n]
    <3>1. n = Len(s) /\ m = Len(t)
      BY <2>2, <2>8
    <3> QED
      BY <2>10, <2>11, <3>1, Concatenated
  <2>13. \A i \in DOMAIN N[c] :
           \/ i \in DOMAIN M[c] /\ N[c][i] = M[c][i]
           \/ /\ i \notin DOMAIN M[c] /\ i \in Nat /\ i > n
              /\ ~N[c][i].shared /\ N[c][i].name = PodName(c, b + (i - n) - 1)
    <3> TAKE i \in DOMAIN N[c]
    <3>1. i \in 1..(n + m)
      BY <2>12
    <3>2. CASE i <= n
      BY <2>1, <2>4, <2>5, <2>12, <3>1, <3>2
    <3>3. CASE i > n
      <4>1. i - n \in 1..m
        BY <2>4, <2>5, <3>1, <3>3
      <4>2. N[c][i] = t[i - n]
        BY <2>4, <2>5, <2>12, <3>1, <3>3
      <4>3. ~N[c][i].shared /\ N[c][i].name = PodName(c, b + (i - n) - 1)
        BY <2>6, <4>1, <4>2
      <4> QED
        BY <2>1, <2>4, <2>5, <3>1, <3>3, <4>3
    <3> QED
      BY <2>4, <2>5, <3>1, <3>2, <3>3
  <2> QED
    BY <2>1, <2>4, <2>13
\* Such a name is nowhere else.
<1>8. ASSUME NEW c \in Comps, NEW i \in DOMAIN N[c], i \notin DOMAIN M[c]
      PROVE  /\ ~N[c][i].shared /\ N[c][i].name \notin Was /\ N[c][i].name \notin app.pod_names
             /\ \A d \in Comps : \A j \in DOMAIN N[d] : N[d][j].name = N[c][i].name => d = c /\ j = i
  <2>1. PICK n, b \in Nat :
          /\ DOMAIN M[c] = 1..n /\ b >= next_pod
          /\ \A j \in DOMAIN N[c] :
               \/ j \in DOMAIN M[c] /\ N[c][j] = M[c][j]
               \/ /\ j \notin DOMAIN M[c] /\ j \in Nat /\ j > n
                  /\ ~N[c][j].shared /\ N[c][j].name = PodName(c, b + (j - n) - 1)
    BY <1>7
  <2>2. PICK k : k = b + (i - n) - 1
    OBVIOUS
  <2>3. k \in Nat /\ k >= next_pod /\ i \in Nat /\ ~N[c][i].shared /\ N[c][i].name = PodName(c, k)
    BY <1>8, <2>1, <2>2, Basics
  <2>4. /\ N[c][i].name \notin Was /\ N[c][i].name \notin app.pod_names
        /\ \A d \in Comps : \A j \in DOMAIN M[d] : M[d][j].name # N[c][i].name
    BY <1>1, <1>5, <2>3, NewName
  <2>5. ASSUME NEW d \in Comps, NEW j \in DOMAIN N[d], N[d][j].name = N[c][i].name
        PROVE  d = c /\ j = i
    <3>1. j \notin DOMAIN M[d]
      BY <1>7, <2>4, <2>5
    <3>2. d = c
      <4>1. \E l : N[d][j].name = PodName(d, l)
        BY <1>7, <3>1
      <4> QED
        BY <2>3, <2>5, <4>1 DEF PodName
    <3>3. j \in Nat /\ N[c][j].name = PodName(c, b + (j - n) - 1)
      BY <2>1, <2>5, <3>1, <3>2
    <3>4. b + (j - n) - 1 = k
      BY <2>3, <2>5, <3>2, <3>3 DEF PodName
    <3> QED
      BY <2>1, <2>2, <2>3, <3>2, <3>3, <3>4
  <2> QED
    BY <2>3, <2>4, <2>5
<1>9. \A c \in Comps : \A i \in DOMAIN N[c] : i \in DOMAIN M[c] => N[c][i] = M[c][i]
  BY <1>7
<1>10. Fresh(N, app.pod_names)
  <2>1. PICK P : P = app.pod_names
    OBVIOUS
  <2>2. ASSUME NEW c \in Comps, NEW i \in DOMAIN N[c], N[c][i].status = "PENDING"
        PROVE  /\ N[c][i].name \notin P
               /\ \/ i \in DOMAIN M[c] /\ M[c][i] = N[c][i]
                  \/ i \notin DOMAIN M[c] /\ ~N[c][i].shared
    BY <1>6, <1>8, <1>9, <2>1, <2>2 DEF Fresh
  <2>3. \A c, d \in Comps : \A i \in DOMAIN N[c], j \in DOMAIN N[d] :
          j \notin DOMAIN M[d] /\ N[c][i].status = "PENDING" /\ N[c][i].name = N[d][j].name
            => c = d /\ i = j
    BY <1>8
  <2> QED
    BY <1>6, <2>1, <2>2, <2>3, FreshGrows
<1>11. PendingIsFresh(app') /\ PendingIsFresh(app_copy') /\ NamesAreUnique'
  BY <1>2, <1>4, <1>10, FewerNames, SMTT(30) DEF ReportInv, PendingIsFresh
<1>12. RunningNames' = RunningNames /\ Was' = Was
  BY <1>2 DEF RunningNames, Was
<1>13. Looks(handler', "creating", handler.todo, handler.pod, handler.report)
  BY <1>1, <1>2, WorkerLooks, Zenon
<1>14. /\ handler'.at = "creating" /\ handler'.report = handler.report /\ handler'.steps = handler.steps
  BY <1>13 DEF Looks
<1>15. NothingAgain'
  <2>1. ASSUME NEW c \in Comps, NEW i \in DOMAIN N[c], N[c][i].status = "PENDING", N[c][i].name \in Was
        PROVE  N[c][i].name \in RunningNames
    BY <1>1, <1>5, <1>8, <1>9, <2>1 DEF ReportInv, NothingAgain
  <2> QED
    BY <1>4, <1>12, <2>1 DEF NothingAgain
<1>16. StepsLeft'
  BY <1>14 DEF StepsLeft
<1>17. Accounts(handler', RunningNames', Was')
  BY <1>1, <1>12, <1>14 DEF ReportInv, Reported, Busy, Accounts
<1> QED
  BY <1>11, <1>15, <1>16, <1>17 DEF ReportInv, Reported

LEMMA DeployNewReport ==
  ASSUME TypeOK, ReportInv, DeployNewPod
  PROVE  ReportInv'
<1>1. /\ handler.at = "creating" /\ handler \in Workers
      /\ app.known /\ app \in Apps /\ app \in AppsOf(Names)
  BY Worker, Basics, KnownApp DEF DeployNewPod
<1>2. UNCHANGED <<app_copy, before>>
  BY DEF DeployNewPod, historyVars
<1>3. PICK c \in Comps : \E i \in DOMAIN app.manifests[c] :
        LET m == app.manifests[c][i]
        IN
        /\ IsFirst(<<c, i>>, ToCreate)
        /\ \/ /\ CreateOk([name |-> m.name, host |-> m.host])
              /\ app' = [app EXCEPT !.manifests[c][i].status = "ACTIVE",
                                    !.pod_names = @ \union {m.name}]
              /\ IF Planned(c)
                 THEN /\ handler' = [handler EXCEPT !.report.placed = @ \union {m.name}]
                      /\ UNCHANGED answers
                 ELSE Raise
           \/ CreateFails(m.name) /\ FailAndRestore /\ UNCHANGED answers
  BY Zenon DEF DeployNewPod
<1>4. PICK i \in DOMAIN app.manifests[c] :
        LET m == app.manifests[c][i]
        IN
        /\ IsFirst(<<c, i>>, ToCreate)
        /\ \/ /\ CreateOk([name |-> m.name, host |-> m.host])
              /\ app' = [app EXCEPT !.manifests[c][i].status = "ACTIVE",
                                    !.pod_names = @ \union {m.name}]
              /\ IF Planned(c)
                 THEN /\ handler' = [handler EXCEPT !.report.placed = @ \union {m.name}]
                      /\ UNCHANGED answers
                 ELSE Raise
           \/ CreateFails(m.name) /\ FailAndRestore /\ UNCHANGED answers
  BY Zenon, <1>3
<1>5. PICK m : m = app.manifests[c][i]
  OBVIOUS
<1>6. m.status = "PENDING"
  <2>1. <<c, i>> \in ToCreate
    BY <1>4 DEF IsFirst
  <2> QED
    BY <1>5, <2>1 DEF ToCreate
<1>7. CASE CreateFails(m.name) /\ FailAndRestore
  BY <1>1, <1>2, <1>7, PodsAfter, FailReport
<1>8. CASE /\ CreateOk([name |-> m.name, host |-> m.host])
           /\ app' = [app EXCEPT !.manifests[c][i].status = "ACTIVE", !.pod_names = @ \union {m.name}]
           /\ \/ handler' = [handler EXCEPT !.report.placed = @ \union {m.name}]
              \/ Raise
  <2>1. PICK p : p = [name |-> m.name, host |-> m.host]
    OBVIOUS
  <2>2. p.name = m.name /\ pods' = pods \union {p} /\ m.name \notin RunningNames
    BY <1>8, <2>1, PodsAfter
  <2>3. m.name \notin Was
    BY <1>1, <1>5, <1>6, <2>2 DEF ReportInv, NothingAgain
  <2>4. NamesAreUnique'
    BY <1>2, <2>2, <2>3, MoreNames DEF ReportInv
  <2>5. RunningNames' = RunningNames \union {m.name} /\ Was' = Was
    BY <1>2, <2>2 DEF RunningNames, Was
  <2>6. PICK list, names : /\ list = [app.manifests[c] EXCEPT ![i].status = "ACTIVE"]
                           /\ names = app.pod_names \union {m.name}
    OBVIOUS
  <2>7. app' = [app EXCEPT !.manifests[c] = list, !.pod_names = names]
    BY <1>8, <2>6
  <2>8. /\ app'.known /\ app'.manifests = [app.manifests EXCEPT ![c] = list]
        /\ app'.pod_names = names
    BY <1>1, <2>7 DEF Apps
  <2>9. PICK M, N : M = app.manifests /\ N = app'.manifests
    OBVIOUS
  <2>10. Fresh(M, app.pod_names) /\ M \in [Comps -> Seq(ManifestsOf(Names))]
    BY <1>1, <2>9, AppFields DEF ReportInv, PendingIsFresh
  <2>11. ASSUME NEW d \in Comps, NEW j \in DOMAIN N[d], N[d][j].status = "PENDING"
         PROVE  j \in DOMAIN M[d] /\ M[d][j] = N[d][j] /\ N[d][j].name # m.name
    <3>1. CASE d # c
      <4>1. N[d] = M[d]
        BY <2>8, <2>9, <2>10, <3>1
      <4> QED
        BY <1>5, <1>6, <2>9, <2>10, <2>11, <3>1, <4>1 DEF Fresh
    <3>2. CASE d = c
      <4>1. N[d] = list /\ M[c] = app.manifests[c]
        BY <2>8, <2>9, <2>10, <3>2
      <4>2. M[c] \in Seq(ManifestsOf(Names)) /\ m \in ManifestsOf(Names)
        <5>1. M[c] \in Seq(ManifestsOf(Names))
          BY <2>10
        <5> QED
          BY <1>4, <1>5, <2>9, <5>1
      <4>3. j \in DOMAIN M[c] /\ (j # i => N[d][j] = M[c][j])
        BY <2>6, <2>9, <2>11, <4>1
      <4>4. j # i
        <5>1. CASE j = i
          <6>1. N[d][j] = [m EXCEPT !.status = "ACTIVE"]
            BY <1>4, <1>5, <2>6, <4>1, <5>1
          <6>2. N[d][j].status = "ACTIVE"
            BY <4>2, <6>1 DEF ManifestsOf
          <6> QED
            BY <2>11, <6>2
        <5> QED
          BY <5>1
      <4> QED
        BY <1>5, <1>6, <2>9, <2>10, <2>11, <3>2, <4>3, <4>4 DEF Fresh
    <3> QED
      BY <3>1, <3>2
  <2>12. Fresh(N, names)
    <3>1. ASSUME NEW d \in Comps, NEW j \in DOMAIN N[d], N[d][j].status = "PENDING"
          PROVE  N[d][j].name \notin names
      BY <2>6, <2>10, <2>11, <3>1 DEF Fresh
    <3>2. ASSUME NEW d \in Comps, NEW j \in DOMAIN N[d], N[d][j].status = "PENDING"
          PROVE  j \in DOMAIN M[d] /\ M[d][j] = N[d][j]
      BY <2>11, <3>2
    <3> QED
      BY <2>10, <3>1, <3>2, FreshStays
  <2>13. PendingIsFresh(app') /\ PendingIsFresh(app_copy')
    BY <1>2, <2>8, <2>9, <2>12 DEF ReportInv, PendingIsFresh
  <2>14. CASE Raise
    <3>1. handler'.at = "idle"
      BY <2>14 DEF Raise, Idle
    <3> QED
      BY <2>4, <2>13, <3>1, NotBusy
  <2>15. CASE handler' = [handler EXCEPT !.report.placed = @ \union {m.name}]
    <3>1. PICK report : report = [handler.report EXCEPT !.placed = @ \union {m.name}]
      OBVIOUS
    <3>2. /\ report.placed = handler.report.placed \union {m.name}
          /\ report.modified = handler.report.modified /\ report.removed = handler.report.removed
      BY <1>1, <3>1, Worker DEF Reports
    <3>3. handler' = [handler EXCEPT !.report = report]
      BY <2>15, <3>1
    <3>4. Looks(handler', handler.at, handler.todo, handler.pod, report)
      BY <1>1, <3>3, WorkerLooks, Zenon
    <3>5. handler'.at = "creating" /\ handler'.report = report /\ handler'.steps = handler.steps
      BY <1>1, <3>4 DEF Looks
    <3>6. NothingAgain'
      BY <1>1, <2>5, <2>9, <2>11 DEF ReportInv, NothingAgain
    <3>7. StepsLeft'
      BY <3>5 DEF StepsLeft
    <3>8. Accounts(handler, RunningNames, Was)
      BY <1>1 DEF ReportInv, Reported, Busy
    <3>9. Accounts(handler', RunningNames', Was')
      BY <1>1, <2>3, <2>5, <3>2, <3>5, <3>8 DEF Accounts
    <3> QED
      BY <2>4, <2>13, <3>6, <3>7, <3>9, SMTT(30) DEF ReportInv, Reported
  <2> QED
    BY <1>8, <2>14, <2>15
<1> QED
  BY <1>4, <1>5, <1>7, <1>8

LEMMA DeleteUnusedReport ==
  ASSUME TypeOK, ReportInv, DeleteUnusedPod
  PROVE  ReportInv'
<1>1. /\ handler.at = "deleting" /\ handler \in Workers
      /\ app.known /\ app \in Apps /\ app \in AppsOf(Names)
  BY Worker, Basics, KnownApp DEF DeleteUnusedPod
<1>2. UNCHANGED <<app_copy, before>>
  BY DEF DeleteUnusedPod, historyVars
<1>3. PICK c \in Comps : \E i \in DOMAIN app.manifests[c] :
        LET n == app.manifests[c][i].name
        IN
        \/ /\ DeleteOk(n)
           /\ IF Planned(c)
              THEN /\ app' = [app EXCEPT !.pod_names = @ \ {n}, !.manifests[c] = RemoveAt(@, i)]
                   /\ handler' = [handler EXCEPT !.report.placed = @ \ {n},
                                                 !.report.modified = @ \ {n},
                                                 !.report.removed = @ \union {n}]
                   /\ UNCHANGED answers
              ELSE /\ app' = [app EXCEPT
                        !.pod_names = @ \ {n},
                        !.hosts = [d \in Comps |-> IF d < c THEN RemainingHosts(d) ELSE @[d]]]
                   /\ Raise
        \/ DeleteFails(n) /\ FailAndRestore /\ UNCHANGED answers
  BY Zenon DEF DeleteUnusedPod
<1>4. PICK i \in DOMAIN app.manifests[c] :
        LET n == app.manifests[c][i].name
        IN
        \/ /\ DeleteOk(n)
           /\ IF Planned(c)
              THEN /\ app' = [app EXCEPT !.pod_names = @ \ {n}, !.manifests[c] = RemoveAt(@, i)]
                   /\ handler' = [handler EXCEPT !.report.placed = @ \ {n},
                                                 !.report.modified = @ \ {n},
                                                 !.report.removed = @ \union {n}]
                   /\ UNCHANGED answers
              ELSE /\ app' = [app EXCEPT
                        !.pod_names = @ \ {n},
                        !.hosts = [d \in Comps |-> IF d < c THEN RemainingHosts(d) ELSE @[d]]]
                   /\ Raise
        \/ DeleteFails(n) /\ FailAndRestore /\ UNCHANGED answers
  BY Zenon, <1>3
<1>5. PICK n : n = app.manifests[c][i].name
  OBVIOUS
<1>6. PICK M : M = app.manifests
  OBVIOUS
<1>7. Fresh(M, app.pod_names) /\ M \in [Comps -> Seq(ManifestsOf(Names))]
  BY <1>1, <1>6, AppFields DEF ReportInv, PendingIsFresh
<1>8. PICK names : names = app.pod_names \ {n}
  OBVIOUS
<1>9. PendingIsFresh(app_copy')
  BY <1>2 DEF ReportInv
<1>10. CASE DeleteFails(n) /\ FailAndRestore
  BY <1>1, <1>2, <1>10, PodsAfter, FailReport
<1>11. CASE /\ DeleteOk(n)
            /\ app' = [app EXCEPT !.pod_names = @ \ {n}, !.manifests[c] = RemoveAt(@, i)]
            /\ handler' = [handler EXCEPT !.report.placed = @ \ {n},
                                          !.report.modified = @ \ {n},
                                          !.report.removed = @ \union {n}]
  <2>1. PICK list : list = RemoveAt(app.manifests[c], i)
    OBVIOUS
  <2>2. app' = [app EXCEPT !.pod_names = names, !.manifests[c] = list]
    BY <1>8, <1>11, <2>1
  <2>3. /\ app'.known /\ app'.manifests = [M EXCEPT ![c] = list]
        /\ app'.pod_names = names
    BY <1>1, <1>6, <2>2 DEF Apps
  <2>4. PICK N : N = [M EXCEPT ![c] = list]
    OBVIOUS
  <2>5. PICK g : g = [d \in Comps |-> [j \in DOMAIN N[d] |-> IF d = c /\ j >= i THEN j + 1 ELSE j]]
    OBVIOUS
  <2>6. ASSUME NEW d \in Comps, NEW j \in DOMAIN N[d]
        PROVE  /\ j \in Nat /\ g[d][j] = IF d = c /\ j >= i THEN j + 1 ELSE j
               /\ g[d][j] \in DOMAIN M[d] /\ M[d][g[d][j]] = N[d][j]
    <3>1. g[d][j] = IF d = c /\ j >= i THEN j + 1 ELSE j
      BY <2>5
    <3>2. M[d] \in Seq(ManifestsOf(Names)) /\ i \in DOMAIN M[c]
      BY <1>4, <1>6, <1>7
    <3>3. CASE d # c
      <4>1. N[d] = M[d]
        BY <1>7, <2>4, <3>3
      <4> QED
        BY <3>1, <3>2, <3>3, <4>1
    <3>4. CASE d = c
      <4>1. N[d] = list /\ list = RemoveAt(M[d], i)
        BY <1>6, <1>7, <2>1, <2>4, <3>4
      <4>2. /\ list \in Seq(ManifestsOf(Names)) /\ Len(list) = Len(M[d]) - 1
            /\ \A k \in DOMAIN list : list[k] = IF k < i THEN M[d][k] ELSE M[d][k + 1]
        <5>1. PICK l : l = M[d]
          OBVIOUS
        <5>2. l \in Seq(ManifestsOf(Names)) /\ i \in DOMAIN l /\ list = RemoveAt(l, i)
          BY <3>2, <3>4, <4>1, <5>1
        <5> QED
          BY <5>1, <5>2, Removed
      <4>3. /\ j \in 1..(Len(M[d]) - 1) /\ Len(M[d]) \in Nat /\ DOMAIN M[d] = 1..Len(M[d])
            /\ i \in 1..Len(M[d])
        BY <3>2, <3>4, <4>1, <4>2
      <4>4. CASE j < i
        BY <3>1, <4>1, <4>2, <4>3, <4>4
      <4>5. CASE j >= i
        <5>1. g[d][j] = j + 1 /\ N[d][j] = M[d][j + 1]
          BY <3>1, <3>4, <4>1, <4>2, <4>3, <4>5
        <5> QED
          BY <3>1, <4>3, <5>1
      <4> QED
        BY <4>3, <4>4, <4>5
    <3> QED
      BY <3>3, <3>4
  <2>7. \A d \in Comps : \A j \in DOMAIN N[d] : N[d][j].status = "PENDING" =>
          g[d][j] \in DOMAIN M[d] /\ M[d][g[d][j]] = N[d][j] /\ N[d][j].name \notin names
    BY <1>7, <1>8, <2>6 DEF Fresh
  <2>8. \A d \in Comps : \A j, k \in DOMAIN N[d] : g[d][j] = g[d][k] => j = k
    <3>1. i \in Nat
      <4>1. M[c] \in Seq(ManifestsOf(Names)) /\ i \in DOMAIN M[c]
        BY <1>4, <1>6, <1>7
      <4> QED
        BY <4>1
    <3> QED
      BY <2>6, <3>1
  <2>9. Fresh(N, names)
    <3> SUFFICES ASSUME NEW d \in Comps, NEW j \in DOMAIN N[d], N[d][j].status = "PENDING"
                 PROVE  /\ ~N[d][j].shared /\ N[d][j].name \notin names
                        /\ \A e \in Comps : \A k \in DOMAIN N[e] :
                             N[e][k].status = "PENDING" /\ N[e][k].name = N[d][j].name => e = d /\ k = j
      BY DEF Fresh
    <3>1. PICK l \in DOMAIN M[d] : l = g[d][j] /\ M[d][l] = N[d][j]
      BY <2>7
    <3>2. ASSUME NEW e \in Comps, NEW k \in DOMAIN N[e],
                 N[e][k].status = "PENDING", N[e][k].name = N[d][j].name
          PROVE  e = d /\ k = j
      <4>1. PICK o \in DOMAIN M[e] : o = g[e][k] /\ M[e][o] = N[e][k]
        BY <2>7, <3>2
      <4>2. e = d /\ o = l
        BY <1>7, <3>1, <3>2, <4>1 DEF Fresh
      <4> QED
        BY <2>8, <3>1, <4>1, <4>2
    <3>3. ~N[d][j].shared /\ N[d][j].name \notin names
      BY <1>7, <2>7, <3>1 DEF Fresh
    <3> QED
      BY <3>2, <3>3
  <2>10. PendingIsFresh(app')
    BY <2>3, <2>4, <2>9 DEF PendingIsFresh
  <2>11. NamesAreUnique'
    BY <1>2, <1>11, PodsAfter, FewerNames DEF ReportInv
  <2>12. RunningNames' = RunningNames \ {n} /\ Was' = Was
    BY <1>2, <1>11, CallNames DEF Was
  <2>13. PICK report : report = [handler.report EXCEPT !.placed = @ \ {n}, !.modified = @ \ {n},
                                                       !.removed = @ \union {n}]
    OBVIOUS
  <2>14. /\ report.placed = handler.report.placed \ {n} /\ report.modified = handler.report.modified \ {n}
         /\ report.removed = handler.report.removed \union {n}
    BY <1>1, <2>13, Worker DEF Reports
  <2>15. handler' = [handler EXCEPT !.report = report]
    BY <1>11, <2>13
  <2>16. Looks(handler', handler.at, handler.todo, handler.pod, report)
    BY <1>1, <2>15, WorkerLooks, Zenon
  <2>17. handler'.at = "deleting" /\ handler'.report = report /\ handler'.steps = handler.steps
    BY <1>1, <2>16 DEF Looks
  <2>18. NothingAgain' /\ StepsLeft'
    BY <2>17 DEF NothingAgain, StepsLeft
  <2>19. Accounts(handler, RunningNames, Was)
    BY <1>1 DEF ReportInv, Reported, Busy
  <2>20. Accounts(handler', RunningNames', Was')
    BY <1>1, <2>12, <2>14, <2>17, <2>19 DEF Accounts
  <2> QED
    BY <1>9, <2>10, <2>11, <2>18, <2>20 DEF ReportInv, Reported
<1>12. CASE /\ DeleteOk(n)
            /\ app' = [app EXCEPT
                  !.pod_names = @ \ {n},
                  !.hosts = [d \in Comps |-> IF d < c THEN RemainingHosts(d) ELSE @[d]]]
            /\ Raise
  <2>1. PICK hosts : hosts = [d \in Comps |-> IF d < c THEN RemainingHosts(d) ELSE app.hosts[d]]
    OBVIOUS
  <2>2. app' = [app EXCEPT !.pod_names = names, !.hosts = hosts]
    BY <1>8, <1>12, <2>1
  <2>3. app'.known /\ app'.manifests = M /\ app'.pod_names = names
    BY <1>1, <1>6, <2>2 DEF Apps
  <2>4. Fresh(M, names)
    BY <1>7, <1>8 DEF Fresh
  <2>5. PendingIsFresh(app')
    BY <2>3, <2>4 DEF PendingIsFresh
  <2>6. NamesAreUnique'
    BY <1>2, <1>12, PodsAfter, FewerNames DEF ReportInv
  <2>7. handler'.at = "idle"
    BY <1>12 DEF Raise, Idle
  <2> QED
    BY <1>9, <2>5, <2>6, <2>7, NotBusy
<1> QED
  BY <1>4, <1>5, <1>10, <1>11, <1>12

LEMMA RestartReport ==
  ASSUME TypeOK, ReportInv, Restart
  PROVE  ReportInv'
<1>1. /\ app' = NoApp /\ app_copy' = NoApp /\ handler'.at = "idle"
      /\ pods' \subseteq pods /\ before' = {}
  BY DEF Restart, Idle
<1>2. PendingIsFresh(app') /\ PendingIsFresh(app_copy') /\ NamesAreUnique'
  BY <1>1, NoManifests, FewerNames DEF ReportInv
<1> QED
  BY <1>1, <1>2, NotBusy

LEMMA InitReport == Init => ReportInv
<1> SUFFICES ASSUME Init PROVE ReportInv
  OBVIOUS
<1>1. app = NoApp /\ app_copy = NoApp /\ handler.at = "idle" /\ pods = {} /\ before = {}
  BY DEF Init, Idle
<1> QED
  BY <1>1, NoManifests DEF ReportInv, NamesAreUnique, NothingAgain, Reported, Busy, StepsLeft

LEMMA NextReport ==
  ASSUME TypeOK, ReportInv, [Next]_vars
  PROVE  ReportInv'
<1>1. CASE UNCHANGED vars
  BY <1>1, SameReport DEF vars, historyVars
<1>2. CASE \/ \E where \in {"here", "elsewhere"} : CreateResource(where)
           \/ DeleteResource \/ ModifyResource \/ WatchRepeats
           \/ \E steps \in InitialPlans : Submit(steps, TRUE)
           \/ \E steps \in Plans : Submit(steps, FALSE)
  <2>1. UNCHANGED <<app, app_copy, handler, pods, before>>
    BY <1>2 DEF CreateResource, DeleteResource, ModifyResource, WatchRepeats, Submit, historyVars
  <2> QED
    BY <2>1, SameReport
<1>3. CASE \E p \in pods : PodDies(p)
  BY <1>3, DeathReport
<1>4. CASE AppHandler
  <2>1. CASE AppEvent
    BY <2>1, EventReport
  <2>2. CASE PlanOfUnknownApp \/ StartInitialPlan \/ StartPlan
    BY <2>2, StartReport
  <2>3. CASE \/ Answer \/ FinishInitialPlan \/ ActMove \/ ActDeploy \/ ActRemove
             \/ StartDeleting \/ FinishPlan
    BY <2>3, QuietReport
  <2>4. CASE DeployInstance
    BY <2>4, DeployReport
  <2>5. CASE ActChangeSpec
    BY <2>5, ChangeReport
  <2>6. CASE DeleteOldPod
    BY <2>6, ReplaceReport
  <2>7. CASE StartDeploying
    BY <2>7, StartDeployingReport
  <2>8. CASE DeployNewPod
    BY <2>8, DeployNewReport
  <2>9. CASE DeleteUnusedPod
    BY <2>9, DeleteUnusedReport
  <2> QED
    BY <1>4, <2>1, <2>2, <2>3, <2>4, <2>5, <2>6, <2>7, <2>8, <2>9
    DEF AppHandler, InitialPlan, LaterPlan
<1>5. CASE Restart
  BY <1>5, RestartReport
<1> QED
  BY <1>1, <1>2, <1>3, <1>4, <1>5 DEF Next

\* What PLAN_EXECUTED says of a plan that is COMPLETED is what became of the pods,
\* whatever failed, died or was restarted before: no pod that is reported as placed was
\* there when the plan started, each new one is reported, none that is reported as
\* removed runs, and each one that is gone is reported unless a specification was changed.
THEOREM ReportsAreExact == Spec => []ReportIsExact
<1>1. Init => ReportInv
  BY InitReport
<1>2. TypeOK /\ ReportInv /\ [Next]_vars => ReportInv'
  BY NextReport
<1>3. ReportInv => ReportIsExact
  <2> SUFFICES ASSUME ReportInv, handler.at = "reply", handler.status = "COMPLETED"
               PROVE  ReportIsExact
    BY DEF ReportIsExact
  <2>1. Accounts(handler, RunningNames, Was)
    BY DEF ReportInv, Reported, Busy
  <2> QED
    BY <2>1 DEF ReportIsExact, Accounts, Changes, Was
<1> QED
  BY <1>1, <1>2, <1>3, TypesOK, PTL DEF Spec

-----------------------------------------------------------------------------
(* Every pod can be moved or removed: its pods, its manifests and its hosts  *)
(* belong together, as long as no call failed, no specification was changed, *)
(* the application was not announced twice, and no initial plan came for a   *)
(* component that had hosts.                                                 *)

\* What a plan that is carried out leaves alone.
LEMMA Works ==
  ASSUME \/ Answer \/ DeployInstance \/ FinishInitialPlan
         \/ ActMove \/ ActDeploy \/ ActRemove \/ ActChangeSpec \/ DeleteOldPod
         \/ StartDeploying \/ DeployNewPod \/ StartDeleting \/ DeleteUnusedPod \/ FinishPlan
  PROVE  /\ handler.at \notin {"idle", "removing"}
         /\ UNCHANGED <<notifications, announced, relisted, disordered, replanned>> /\ (api_error => api_error')
<1>1. \A n : DeleteOk(n) \/ DeleteFails(n) \/ CreateFails(n) \/ CreateOk(n) => (api_error => api_error')
  BY DEF DeleteOk, DeleteFails, CreateFails, CreateOk
<1>2. CASE \/ Answer \/ FinishInitialPlan \/ ActMove \/ ActDeploy \/ ActRemove
           \/ StartDeploying \/ StartDeleting \/ FinishPlan
  <2>1. CASE ActMove \/ ActDeploy \/ ActRemove
    <3>1. \E action : Act(action) /\ ActionEnds
      BY <2>1, Zenon DEF ActMove, ActDeploy, ActRemove
    <3> QED
      BY <3>1 DEF Act, ActionEnds, envVars
  <2>2. CASE Answer \/ FinishInitialPlan \/ StartDeploying \/ StartDeleting \/ FinishPlan
    BY <2>2 DEF Answer, FinishInitialPlan, StartDeploying, StartDeleting, FinishPlan,
                envVars, historyVars
  <2> QED
    BY <1>2, <2>1, <2>2
<1>3. CASE DeployInstance
  <2>1. /\ handler.at = "deploying" /\ UNCHANGED <<notifications, announced, relisted, disordered, replanned>>
        /\ \E n : CreateOk(n) \/ CreateFails(n)
    BY <1>3, Zenon DEF DeployInstance, envVars, historyVars
  <2> QED
    BY <1>1, <2>1
<1>4. CASE ActChangeSpec
  BY <1>1, <1>4 DEF ActChangeSpec, envVars
<1>5. CASE DeleteOldPod
  <2>1. /\ handler.at = "changing" /\ UNCHANGED <<notifications, announced, relisted, disordered, replanned>>
        /\ \E n : DeleteOk(n) \/ DeleteFails(n)
    BY <1>5, Zenon DEF DeleteOldPod, envVars, historyVars
  <2> QED
    BY <1>1, <2>1
<1>6. CASE DeployNewPod
  <2>1. /\ handler.at = "creating" /\ UNCHANGED <<notifications, announced, relisted, disordered, replanned>>
        /\ \E n : CreateOk(n) \/ CreateFails(n)
    BY <1>6, Zenon DEF DeployNewPod, envVars, historyVars
  <2> QED
    BY <1>1, <2>1
<1>7. CASE DeleteUnusedPod
  <2>1. /\ handler.at = "deleting" /\ UNCHANGED <<notifications, announced, relisted, disordered, replanned>>
        /\ \E n : DeleteOk(n) \/ DeleteFails(n)
    BY <1>7, Zenon DEF DeleteUnusedPod, envVars, historyVars
  <2> QED
    BY <1>1, <2>1
<1> QED
  BY <1>2, <1>3, <1>4, <1>5, <1>6, <1>7

\* Manifests M, the lists H of hosts, the pods P and the steps of a plan.
OnListed(M, H) ==
  \A c \in Comps : \A i \in DOMAIN M[c] : M[c][i].name.comp = c /\ Listed(H[c], M[c][i].host)
HaveManifests(P, M) ==
  \A p \in P : \E i \in DOMAIN M[p.name.comp] :
    M[p.name.comp][i].name = p.name /\ M[p.name.comp][i].host = p.host
Concerns(steps, c) == \E k \in DOMAIN steps : steps[k].comp = c
OfSteps(M, steps) ==
  \A c \in Comps : Concerns(steps, c) => \A i \in DOMAIN M[c] :
    \E k \in DOMAIN steps : steps[k].comp = c /\ steps[k].host = M[c][i].host
Among(todo, steps) == \A j \in DOMAIN todo : \E k \in DOMAIN steps : steps[k] = todo[j]

Undisturbed == app.known /\ ~disordered /\ ~api_error /\ ~respecified /\ ~replanned

Respecifies == handler.at = "changing" => respecified
InPlace == Undisturbed => OnListed(app.manifests, app.hosts) /\ HaveManifests(pods, app.manifests)
DeploysItsSteps ==
  handler.at = "deploying" /\ Undisturbed =>
    Among(handler.todo, handler.steps) /\ OfSteps(app.manifests, handler.steps)

RemovalInv == Respecifies /\ InPlace /\ DeploysItsSteps

LEMMA Displaced ==
  ASSUME handler'.at # "changing", Undisturbed' => FALSE
  PROVE  RemovalInv'
BY DEF RemovalInv, Respecifies, InPlace, DeploysItsSteps

LEMMA StaysInPlace ==
  ASSUME handler'.at \notin {"changing", "deploying"},
         Undisturbed' => OnListed(app'.manifests, app'.hosts) /\ HaveManifests(pods', app'.manifests)
  PROVE  RemovalInv'
BY DEF RemovalInv, Respecifies, InPlace, DeploysItsSteps

\* The tables stay, and no pod is added.
LEMMA SameTables ==
  ASSUME RemovalInv, UNCHANGED <<app, disordered>>, replanned => replanned',
         api_error => api_error', respecified => respecified',
         pods' \subseteq pods,
         \/ handler' = handler
         \/ handler'.at \notin {"changing", "deploying"}
  PROVE  RemovalInv'
<1>1. Undisturbed' => Undisturbed
  BY DEF Undisturbed
<1>2. InPlace'
  BY <1>1 DEF RemovalInv, InPlace, HaveManifests
<1>3. Respecifies' /\ DeploysItsSteps'
  BY <1>1 DEF RemovalInv, Respecifies, DeploysItsSteps
<1> QED
  BY <1>2, <1>3 DEF RemovalInv

LEMMA ErrorStays ==
  ASSUME api_error, \/ \E n : DeleteOk(n) \/ DeleteFails(n) \/ CreateFails(n) \/ CreateOk(n)
  PROVE  api_error'
BY DEF DeleteOk, DeleteFails, CreateFails, CreateOk

LEMMA EventRemoval ==
  ASSUME TypeOK, OrphanInv, RemovalInv, AppEvent
  PROVE  RemovalInv'
<1>1. CASE HandleAdded
  <2>1. handler.at = "idle"
    BY <1>1 DEF HandleAdded, Take, Idle
  <2>2. /\ UNCHANGED <<handler, pods, replanned, respecified>>
        /\ disordered' = (disordered \/ announced)
        /\ (app' = NewApp(Head(notifications).here) /\ UNCHANGED api_error) \/ api_error'
    BY <1>1 DEF HandleAdded
  <2>3. ASSUME Undisturbed'
        PROVE  app' = NewApp(Head(notifications).here) /\ pods' = {}
    BY <2>1, <2>2, <2>3 DEF Undisturbed, OrphanInv, NothingLeft, RunningNames
  <2>4. \A here, H : OnListed(NewApp(here).manifests, H)
    BY DEF OnListed, NewApp
  <2>5. \A M : HaveManifests({}, M)
    BY DEF HaveManifests
  <2> QED
    BY <2>1, <2>2, <2>3, <2>4, <2>5, StaysInPlace
<1>2. CASE HandleModified
  BY <1>2, SameTables DEF HandleModified, historyVars
<1>3. CASE HandleDeleted
  <2>1. handler'.at \in {"removing", "idle"}
    BY <1>3 DEF HandleDeleted, Idle
  <2>2. /\ UNCHANGED <<app, pods, api_error, respecified, replanned>> /\ (disordered => disordered')
    BY <1>3 DEF HandleDeleted
  <2>3. Undisturbed' => Undisturbed
    BY <2>2 DEF Undisturbed
  <2> QED
    BY <2>1, <2>2, <2>3, StaysInPlace DEF RemovalInv, InPlace
<1>4. CASE RemovePod
  <2>1. handler.at = "removing" /\ UNCHANGED <<app, disordered, replanned, respecified>>
    BY <1>4 DEF RemovePod, historyVars
  <2>2. PICK n : \/ DeleteOk(n) /\ handler' = [handler EXCEPT !.todo = @ \ {n}]
                 \/ DeleteFails(n) /\ handler' = Idle
    BY <1>4, Zenon DEF RemovePod
  <2>3. pods' \subseteq pods /\ (api_error => api_error')
    BY <2>2, PodsAfter, ErrorStays
  <2>4. handler'.at \in {"idle", "removing"}
    BY <2>1, <2>2, Remover DEF Idle
  <2> QED
    BY <2>1, <2>3, <2>4, SameTables
<1>5. CASE ForgetApp
  <2>1. /\ handler'.at = "idle" /\ app' \in {app, NoApp}
        /\ UNCHANGED <<pods, disordered, replanned, api_error, respecified>>
    BY <1>5 DEF ForgetApp, Idle, historyVars
  <2>2. CASE app' = NoApp
    BY <2>1, <2>2, Displaced DEF Undisturbed, NoApp
  <2>3. CASE app' = app
    BY <2>1, <2>3, SameTables
  <2> QED
    BY <2>1, <2>2, <2>3
<1> QED
  BY <1>1, <1>2, <1>3, <1>4, <1>5 DEF AppEvent

LEMMA StartRemoval ==
  ASSUME TypeOK, RemovalInv, PlanOfUnknownApp \/ StartInitialPlan \/ StartPlan
  PROVE  RemovalInv'
<1>1. TakePlan
  BY DEF PlanOfUnknownApp, StartInitialPlan, StartPlan
<1>2. /\ UNCHANGED <<pods, respecified, disordered, api_error>> /\ app' = app
      /\ Take("PLAN_SUBMITTED") /\ (replanned => replanned')
  <2>1. /\ UNCHANGED <<pods, respecified, disordered, api_error>> /\ app' = app
        /\ Take("PLAN_SUBMITTED")
    BY <1>1 DEF TakePlan, PlanOfUnknownApp, StartInitialPlan, StartPlan
  <2>2. CASE PlanOfUnknownApp \/ StartPlan
    BY <2>1, <2>2 DEF PlanOfUnknownApp, StartPlan
  <2>3. CASE StartInitialPlan
    BY <2>1, <2>3 DEF StartInitialPlan
  <2> QED
    BY <2>2, <2>3
<1>3. CASE handler'.at \notin {"changing", "deploying"}
  BY <1>2, <1>3, SameTables
<1>4. CASE handler'.at \in {"changing", "deploying"}
  <2>1. PICK plan : plan = Head(notifications)
    OBVIOUS
  <2>2. /\ StartInitialPlan /\ ValidSteps(plan.steps) /\ plan.initial
        /\ handler' = [Working("deploying", plan) EXCEPT !.todo = IF app.here THEN @ ELSE << >>]
    <3>1. handler.at = "idle"
      BY <1>2 DEF Take, Idle
    <3>2. ~PlanOfUnknownApp
      BY <1>4, <3>1 DEF PlanOfUnknownApp
    <3>3. ~StartPlan
      BY <1>4 DEF StartPlan, Working
    <3>4. /\ StartInitialPlan /\ plan.initial
          /\ handler' = IF ~ValidSteps(plan.steps)
                        THEN [Working("reply", plan) EXCEPT !.status = "FAILED"]
                        ELSE [Working("deploying", plan) EXCEPT !.todo = IF app.here THEN @ ELSE << >>]
      BY <2>1, <3>2, <3>3 DEF StartInitialPlan
    <3>5. [Working("reply", plan) EXCEPT !.status = "FAILED"].at = "reply"
      BY DEF Working
    <3> QED
      BY <1>4, <3>4, <3>5
  <2>3. /\ handler'.at = "deploying" /\ handler'.steps = plan.steps
        /\ handler'.todo = plan.steps \/ handler'.todo = << >>
    BY <2>2 DEF Working
  <2>4. Among(handler'.todo, handler'.steps)
    BY <2>3 DEF Among
  <2>5. Undisturbed' => Undisturbed
    BY <1>2 DEF Undisturbed
  <2>6. ASSUME Undisturbed'
        PROVE  OfSteps(app.manifests, plan.steps)
    <3>1. OnListed(app.manifests, app.hosts)
      BY <2>5, <2>6 DEF RemovalInv, InPlace
    <3>2. \A k \in DOMAIN plan.steps : app.hosts[plan.steps[k].comp] = << >>
      BY <2>1, <2>2, <2>6 DEF Undisturbed, StartInitialPlan
    <3>3. \A c \in Comps : Concerns(plan.steps, c) => ~(\E i \in DOMAIN app.manifests[c] : TRUE)
      BY <3>1, <3>2 DEF OnListed, Concerns, Listed
    <3> QED
      BY <3>3 DEF OfSteps
  <2>8. InPlace'
    BY <1>2, <2>5 DEF RemovalInv, InPlace
  <2>9. Respecifies' /\ DeploysItsSteps'
    BY <1>2, <2>3, <2>4, <2>6 DEF Respecifies, DeploysItsSteps
  <2> QED
    BY <2>8, <2>9 DEF RemovalInv
<1> QED
  BY <1>3, <1>4

\* Steps that leave the tables and the pods alone.
LEMMA QuietRemoval ==
  ASSUME TypeOK, RemovalInv, Answer \/ FinishInitialPlan \/ StartDeleting
  PROVE  RemovalInv'
<1>1. UNCHANGED <<app, pods, disordered, replanned, api_error, respecified>>
  BY DEF Answer, FinishInitialPlan, StartDeleting, historyVars
<1>2. handler.at \notin {"idle", "removing"} /\ handler \in Workers
  <2>1. handler.at \notin {"idle", "removing"}
    BY DEF Answer, FinishInitialPlan, StartDeleting
  <2> QED
    BY <2>1, Worker
<1>3. handler'.at \in {"idle", "reply", "deleting"}
  <2>1. CASE Answer
    BY <2>1 DEF Answer, Idle
  <2>2. CASE FinishInitialPlan
    BY <1>2, <2>2, FinishLooks DEF FinishInitialPlan
  <2>3. CASE StartDeleting
    <3>1. Looks(handler', "deleting", handler.todo, handler.pod, handler.report)
      BY <1>2, <2>3, WorkerLooks, Zenon DEF StartDeleting
    <3> QED
      BY <3>1 DEF Looks
  <2> QED
    BY <2>1, <2>2, <2>3
<1> QED
  BY <1>1, <1>3, SameTables

\* A refused call.
LEMMA FailRemoval ==
  ASSUME TypeOK, handler.at \notin {"idle", "removing"}, api_error',
         FailAndRestore \/ \E status : Finish(status)
  PROVE  RemovalInv'
<1>1. handler'.at = "reply"
  BY Worker, Stopped
<1> QED
  BY <1>1, Displaced DEF Undisturbed

\* Hosts that are listed stay listed when their status changes, or others are added.
LEMMA ListedStays ==
  ASSUME NEW hosts \in Seq(Entries), NEW h, NEW status, NEW x, Listed(hosts, x)
  PROVE  Listed(append_host_to_list(hosts, h, status), x)
<1>1. PICK i \in DOMAIN hosts : hosts[i].host = x
  BY DEF Listed
<1>2. hosts[i] \in Entries
  BY <1>1
<1>3. CASE Listed(hosts, h)
  <2> DEFINE new(j) == IF hosts[j].host = h THEN [hosts[j] EXCEPT !.status = status] ELSE hosts[j]
  <2>1. append_host_to_list(hosts, h, status) = [j \in DOMAIN hosts |-> new(j)]
    BY <1>3 DEF append_host_to_list
  <2>2. new(i).host = x
    BY <1>1, <1>2 DEF Entries
  <2> HIDE DEF new
  <2> QED
    BY <1>1, <2>1, <2>2 DEF Listed
<1>4. CASE ~Listed(hosts, h)
  <2>1. PICK e : e = [host |-> h, status |-> status]
    OBVIOUS
  <2>2. append_host_to_list(hosts, h, status) = Append(hosts, e)
    BY <1>4, <2>1 DEF append_host_to_list
  <2>3. PICK S : S = Entries \union {e}
    OBVIOUS
  <2>4. hosts \in Seq(S) /\ e \in S
    BY <2>3, SeqGrows
  <2>5. i \in DOMAIN Append(hosts, e) /\ Append(hosts, e)[i] = hosts[i]
    BY <1>1, <2>4, Appended
  <2> QED
    BY <1>1, <2>2, <2>5 DEF Listed
<1> QED
  BY <1>3, <1>4

LEMMA ActRemoval ==
  ASSUME TypeOK, RemovalInv, ActMove \/ ActDeploy \/ ActRemove
  PROVE  RemovalInv'
<1>1. /\ handler.at = "acting" /\ handler \in Workers /\ handler.todo \in Seq(Steps) /\ handler.todo # << >>
      /\ app.known /\ app \in Apps /\ app \in AppsOf(Names)
  <2>1. handler.at = "acting" /\ handler.todo # << >>
    BY DEF ActMove, ActDeploy, ActRemove, Act
  <2> QED
    BY <2>1, Worker, Basics, KnownApp
<1>2. UNCHANGED <<pods, disordered, replanned, api_error, respecified>>
  <2>1. \E action : Act(action) /\ ActionEnds
    BY Zenon DEF ActMove, ActDeploy, ActRemove
  <2> QED
    BY <2>1 DEF Act, ActionEnds
<1>3. handler'.at \notin {"changing", "deploying"}
  <2>1. GoOn \/ \E status : Finish(status)
    BY Zenon DEF ActMove, ActDeploy, ActRemove
  <2>2. CASE GoOn
    <3>1. PICK todo : handler' = [handler EXCEPT !.todo = todo]
      BY <2>2 DEF GoOn
    <3>2. Looks(handler', handler.at, todo, handler.pod, handler.report)
      BY <1>1, <3>1, WorkerLooks, Zenon
    <3> QED
      BY <1>1, <3>2 DEF Looks
  <2>3. CASE \E status : Finish(status)
    BY <1>1, <2>3, FinishLooks
  <2> QED
    BY <2>1, <2>2, <2>3
<1>4. PICK s : s = Head(handler.todo)
  OBVIOUS
<1>5. s \in Steps
  BY <1>1, <1>4, Shortened
<1>6. s.comp \in Comps /\ s.host \in Hosts /\ s.src_host \in Hosts
  BY <1>5 DEF Steps
<1>7. PICK l : l = app.hosts[s.comp]
  OBVIOUS
<1>8. app.hosts \in [Comps -> Seq(Entries)] /\ l \in Seq(Entries)
  BY <1>1, <1>6, <1>7, AppFields
<1>9. \/ app' = app
      \/ \E hosts : /\ app' = [app EXCEPT !.hosts[s.comp] = hosts]
                    /\ \A x : Listed(l, x) => Listed(hosts, x)
  <2>1. CASE ActMove
    <3>1. \/ app' = app
          \/ app' = [app EXCEPT !.hosts[s.comp] =
               append_host_to_list(append_host_to_list(l, s.src_host, "INACTIVE"), s.host, "PENDING")]
      BY <1>4, <1>7, <2>1, Zenon DEF ActMove
    <3>2. append_host_to_list(l, s.src_host, "INACTIVE") \in Seq(Entries)
      BY <1>6, <1>8, HostAppended
    <3>3. \A x : Listed(l, x) =>
            Listed(append_host_to_list(append_host_to_list(l, s.src_host, "INACTIVE"), s.host, "PENDING"), x)
      BY <1>8, <3>2, ListedStays
    <3> QED
      BY <3>1, <3>3
  <2>2. CASE ActDeploy
    <3>1. \/ app' = app
          \/ app' = [app EXCEPT !.hosts[s.comp] = append_host_to_list(l, s.host, "PENDING")]
      BY <1>4, <1>7, <2>2 DEF ActDeploy
    <3> QED
      BY <1>8, <3>1, ListedStays
  <2>3. CASE ActRemove
    <3>1. \/ app' = app
          \/ app' = [app EXCEPT !.hosts[s.comp] = append_host_to_list(l, s.host, "INACTIVE")]
      BY <1>4, <1>7, <2>3 DEF ActRemove
    <3> QED
      BY <1>8, <3>1, ListedStays
  <2> QED
    BY <2>1, <2>2, <2>3
<1>10. CASE app' = app
  BY <1>2, <1>3, <1>10, SameTables
<1>11. ASSUME NEW hosts, app' = [app EXCEPT !.hosts[s.comp] = hosts],
              \A x : Listed(l, x) => Listed(hosts, x)
       PROVE  RemovalInv'
  <2>1. /\ app'.manifests = app.manifests /\ app'.known = app.known
        /\ app'.hosts = [app.hosts EXCEPT ![s.comp] = hosts]
    BY <1>1, <1>11 DEF Apps
  <2>2. ASSUME OnListed(app.manifests, app.hosts)
        PROVE  OnListed(app'.manifests, app'.hosts)
    <3>1. \A c \in Comps : \A x : Listed(app.hosts[c], x) => Listed(app'.hosts[c], x)
      BY <1>7, <1>8, <1>11, <2>1
    <3> QED
      BY <2>1, <2>2, <3>1 DEF OnListed
  <2>3. Undisturbed' <=> Undisturbed
    BY <1>2, <2>1 DEF Undisturbed
  <2> QED
    BY <1>2, <1>3, <2>1, <2>2, <2>3, StaysInPlace DEF RemovalInv, InPlace
<1> QED
  BY <1>9, <1>10, <1>11

LEMMA ChangeRemoval ==
  ASSUME TypeOK, RemovalInv, ActChangeSpec
  PROVE  RemovalInv'
<1>1. handler.at = "acting" /\ handler \in Workers
  BY Worker DEF ActChangeSpec
<1>2. UNCHANGED <<disordered, replanned>>
  BY DEF ActChangeSpec
<1>3. CASE respecified'
  BY <1>3 DEF RemovalInv, Respecifies, InPlace, DeploysItsSteps, Undisturbed
<1>4. CASE ~respecified'
  <2>1. PICK name :
          \/ (Finish("FAILED") \/ Raise) /\ UNCHANGED <<app, pods, api_error, respecified>>
          \/ CreateFails(name) /\ FailAndRestore
    BY <1>4 DEF ActChangeSpec
  <2>2. CASE (Finish("FAILED") \/ Raise) /\ UNCHANGED <<app, pods, api_error, respecified>>
    <3>1. handler'.at \in {"reply", "idle"}
      BY <1>1, <2>2, Stopped
    <3> QED
      BY <1>2, <2>2, <3>1, SameTables
  <2>3. CASE CreateFails(name) /\ FailAndRestore
    BY <1>1, <2>3, CallNames, FailRemoval
  <2> QED
    BY <2>1, <2>2, <2>3
<1> QED
  BY <1>3, <1>4

LEMMA ReplaceRemoval ==
  ASSUME TypeOK, RemovalInv, DeleteOldPod
  PROVE  RemovalInv'
<1>1. respecified /\ respecified' = respecified
  BY DEF DeleteOldPod, RemovalInv, Respecifies, historyVars
<1> QED
  BY <1>1 DEF RemovalInv, Respecifies, InPlace, DeploysItsSteps, Undisturbed

LEMMA InitialHostsListed ==
  ASSUME handler.steps \in Seq(Steps), NEW c \in Comps, NEW todo, NEW k \in DOMAIN handler.steps,
         handler.steps[k].comp = c
  PROVE  Listed(InitialHosts(c, todo), handler.steps[k].host)
<1>1. PICK entries, waiting : /\ entries = StepsOf(handler.steps, c)
                              /\ waiting = {todo[i] : i \in DOMAIN todo}
  OBVIOUS
<1>2. PICK j \in DOMAIN entries : entries[j] = handler.steps[k]
  BY <1>1, StepsOfType
<1> DEFINE status(i) == IF entries[i] \in waiting THEN "PENDING" ELSE "ACTIVE"
<1>3. InitialHosts(c, todo) = [i \in DOMAIN entries |-> [host |-> entries[i].host, status |-> status(i)]]
  BY <1>1 DEF InitialHosts
<1> HIDE DEF status
<1>4. j \in DOMAIN InitialHosts(c, todo) /\ InitialHosts(c, todo)[j].host = handler.steps[k].host
  BY <1>2, <1>3
<1> QED
  BY <1>4 DEF Listed

LEMMA DeployRemoval ==
  ASSUME TypeOK, RemovalInv, DeployInstance
  PROVE  RemovalInv'
<1>1. /\ handler.at = "deploying" /\ handler \in Workers
      /\ handler.todo \in Seq(Steps) /\ handler.steps \in Seq(Steps)
      /\ app.known /\ app \in Apps /\ app \in AppsOf(Names)
  BY Worker, Basics, KnownApp DEF DeployInstance
<1>2. UNCHANGED <<disordered, replanned, respecified>>
  BY DEF DeployInstance, historyVars
<1>3. PICK i, c, h, todo, name, hosts, a :
        Deploys(i, c, h, todo, name, hosts, a)
  BY DeployParts
<1>4. /\ i \in DOMAIN handler.todo /\ c = handler.todo[i].comp /\ h = handler.todo[i].host
      /\ todo = RemoveAt(handler.todo, i) /\ hosts = InitialHosts(c, todo)
      /\ name = PodName(c, next_pod)
      /\ a = [app EXCEPT !.hosts[c] = hosts]
  BY <1>3 DEF Deploys
<1>5. c \in Comps
  <2>1. handler.todo[i] \in Steps
    BY <1>1, <1>4
  <2> QED
    BY <1>4, <2>1 DEF Steps
<1>6. CASE CreateFails(name) /\ Finish("FAILED")
  BY <1>1, <1>6, CallNames, FailRemoval
<1>7. CASE /\ CreateOk([name |-> name, host |-> h])
           /\ app' = [a EXCEPT !.manifests[c] = Append(@, Manifest(name, h, "ACTIVE")),
                               !.pod_names = @ \union {name}]
           /\ handler' = [handler EXCEPT !.todo = todo, !.report.placed = @ \union {name}]
  <2>1. PICK m, p, M, N : /\ m = Manifest(name, h, "ACTIVE") /\ p = [name |-> name, host |-> h]
                          /\ M = app.manifests /\ N = app'.manifests
    OBVIOUS
  <2>2. m.name = name /\ m.host = h /\ p.name = name /\ p.host = h /\ name.comp = c
    BY <1>4, <2>1 DEF Manifest, PodName
  <2>3. pods' = pods \union {p} /\ api_error' = api_error
    BY <1>7, <2>1, PodsAfter, CallNames
  <2>4. M \in [Comps -> Seq(ManifestsOf(Names))] /\ app.hosts \in [Comps -> Seq(Entries)]
    BY <1>1, <2>1, AppFields
  <2>5. PICK list, names : list = Append(M[c], m) /\ names = app.pod_names \union {name}
    OBVIOUS
  <2>6. /\ a.known = app.known /\ a.manifests = M /\ a.pod_names = app.pod_names
        /\ a.hosts = [app.hosts EXCEPT ![c] = hosts]
        /\ DOMAIN a = {"known", "here", "hosts", "manifests", "pod_names"}
    BY <1>1, <1>4, <2>1 DEF Apps
  <2>7. app' = [a EXCEPT !.manifests[c] = list, !.pod_names = names]
    BY <1>7, <2>1, <2>5, <2>6
  <2>8. app'.known = app.known /\ N = [M EXCEPT ![c] = list] /\ app'.hosts = [app.hosts EXCEPT ![c] = hosts]
    BY <2>1, <2>6, <2>7
  <2>9. PICK k : k = Len(M[c]) + 1
    OBVIOUS
  <2>10. /\ DOMAIN N[c] = DOMAIN M[c] \union {k} /\ N[c][k] = m
         /\ \A l \in DOMAIN M[c] : N[c][l] = M[c][l]
         /\ \A d \in Comps : d # c => N[d] = M[d]
    <3>1. N[c] = list /\ \A d \in Comps : d # c => N[d] = M[d]
      BY <1>5, <2>4, <2>8
    <3>2. PICK S : S = ManifestsOf(Names) \union {m}
      OBVIOUS
    <3>3. M[c] \in Seq(S) /\ m \in S
      BY <1>5, <2>4, <3>2, SeqGrows
    <3>4. /\ DOMAIN list = DOMAIN M[c] \union {k} /\ list[k] = m
          /\ \A l \in DOMAIN M[c] : list[l] = M[c][l]
      BY <2>5, <2>9, <3>3, Appended
    <3> QED
      BY <3>1, <3>4
  <2>11. handler'.at = "deploying" /\ handler'.todo = todo /\ handler'.steps = handler.steps
    <3>1. PICK report : report = [handler.report EXCEPT !.placed = @ \union {name}]
      OBVIOUS
    <3>2. handler' = [handler EXCEPT !.todo = todo, !.report = report]
      BY <1>7, <3>1
    <3>3. Looks(handler', handler.at, todo, handler.pod, report)
      BY <1>1, <3>2, WorkerLooks, Zenon
    <3> QED
      BY <1>1, <3>3 DEF Looks
  <2>12. Undisturbed' <=> Undisturbed
    BY <1>2, <2>3, <2>8 DEF Undisturbed
  <2>13. ASSUME Undisturbed
         PROVE  /\ OnListed(N, app'.hosts) /\ HaveManifests(pods', N)
                /\ Among(todo, handler.steps) /\ OfSteps(N, handler.steps)
    <3>1. OnListed(M, app.hosts) /\ HaveManifests(pods, M)
      BY <2>1, <2>13 DEF RemovalInv, InPlace
    <3>2. Among(handler.todo, handler.steps) /\ OfSteps(M, handler.steps)
      BY <1>1, <2>1, <2>13 DEF RemovalInv, DeploysItsSteps
    <3>3. OfSteps(N, handler.steps)
      <4>1. PICK j \in DOMAIN handler.steps : handler.steps[j] = handler.todo[i]
        BY <1>4, <3>2 DEF Among
      <4>2. handler.steps[j].comp = c /\ handler.steps[j].host = m.host
        BY <1>4, <2>2, <4>1
      <4>3. ASSUME NEW d \in Comps, Concerns(handler.steps, d), NEW l \in DOMAIN N[d]
            PROVE  \E o \in DOMAIN handler.steps :
                     handler.steps[o].comp = d /\ handler.steps[o].host = N[d][l].host
        <5>1. CASE d = c /\ l = k
          BY <2>10, <4>2, <5>1
        <5>2. CASE ~(d = c /\ l = k)
          <6>1. l \in DOMAIN M[d] /\ N[d][l] = M[d][l]
            BY <2>10, <4>3, <5>2
          <6> QED
            BY <3>2, <4>3, <6>1 DEF OfSteps
        <5> QED
          BY <5>1, <5>2
      <4> QED
        BY <4>3 DEF OfSteps
    <3>4. Among(todo, handler.steps)
      <4>1. \A j \in DOMAIN todo : \E l \in DOMAIN handler.todo : todo[j] = handler.todo[l]
        <5>1. /\ todo \in Seq(Steps) /\ Len(todo) = Len(handler.todo) - 1
              /\ \A j \in DOMAIN todo : todo[j] = IF j < i THEN handler.todo[j] ELSE handler.todo[j + 1]
          BY <1>1, <1>4, Removed
        <5>2. DOMAIN todo = 1..Len(todo) /\ DOMAIN handler.todo = 1..Len(handler.todo)
              /\ Len(handler.todo) \in Nat
          BY <1>1, <5>1
        <5> QED
          BY <5>1, <5>2
      <4> QED
        BY <3>2, <4>1 DEF Among
    <3>5. OnListed(N, app'.hosts)
      <4>1. ASSUME NEW d \in Comps, NEW l \in DOMAIN N[d]
            PROVE  N[d][l].name.comp = d /\ Listed(app'.hosts[d], N[d][l].host)
        <5>1. CASE d = c
          <6>1. N[d][l].name.comp = d
            BY <2>2, <2>10, <3>1, <4>1, <5>1 DEF OnListed
          <6>2. PICK o \in DOMAIN handler.steps :
                  handler.steps[o].comp = d /\ handler.steps[o].host = N[d][l].host
            <7>1. Concerns(handler.steps, d)
              BY <1>4, <3>2, <5>1 DEF Among, Concerns
            <7> QED
              BY <3>3, <4>1, <7>1 DEF OfSteps
          <6>3. app'.hosts[d] = InitialHosts(d, todo)
            BY <1>4, <1>5, <2>4, <2>8, <5>1
          <6> QED
            BY <1>1, <6>1, <6>2, <6>3, InitialHostsListed
        <5>2. CASE d # c
          <6>1. app'.hosts[d] = app.hosts[d] /\ N[d] = M[d]
            BY <1>5, <2>4, <2>8, <2>10, <5>2
          <6> QED
            BY <3>1, <4>1, <6>1 DEF OnListed
        <5> QED
          BY <5>1, <5>2
      <4> QED
        BY <4>1 DEF OnListed
    <3>6. HaveManifests(pods', N)
      <4>1. ASSUME NEW q \in pods
            PROVE  \E l \in DOMAIN N[q.name.comp] :
                     N[q.name.comp][l].name = q.name /\ N[q.name.comp][l].host = q.host
        <5>1. PICK l \in DOMAIN M[q.name.comp] :
                M[q.name.comp][l].name = q.name /\ M[q.name.comp][l].host = q.host
          BY <3>1 DEF HaveManifests
        <5>2. q.name.comp \in Comps
          BY Basics DEF Names
        <5> QED
          BY <2>10, <5>1, <5>2
      <4>2. k \in DOMAIN N[p.name.comp] /\ N[p.name.comp][k].name = p.name
            /\ N[p.name.comp][k].host = p.host
        BY <2>2, <2>10
      <4> QED
        BY <2>3, <4>1, <4>2 DEF HaveManifests
    <3> QED
      BY <3>3, <3>4, <3>5, <3>6
  <2> QED
    BY <1>4, <2>1, <2>11, <2>12, <2>13 DEF RemovalInv, Respecifies, InPlace, DeploysItsSteps
<1> QED
  BY <1>3, <1>6, <1>7 DEF Deploys

LEMMA StartDeployingRemoval ==
  ASSUME TypeOK, RemovalInv, StartDeploying
  PROVE  RemovalInv'
<1>1. /\ handler.at = "acting" /\ handler \in Workers
      /\ app.known /\ app \in Apps /\ app \in AppsOf(Names)
  BY Worker, Basics, KnownApp DEF StartDeploying
<1>2. /\ UNCHANGED <<pods, disordered, replanned, api_error, respecified>>
      /\ handler' = [handler EXCEPT !.at = "creating"]
      /\ next_pod' = next_pod + NamesBefore(NumComps + 1)
  BY DEF StartDeploying, historyVars
<1>3. handler'.at = "creating"
  <2>1. Looks(handler', "creating", handler.todo, handler.pod, handler.report)
    BY <1>1, <1>2, WorkerLooks, Zenon
  <2> QED
    BY <2>1 DEF Looks
<1>4. PICK M, H, N : /\ M = app.manifests /\ H = app.hosts
                     /\ N = [c \in Comps |-> app.manifests[c] \o AdjustedManifests(c)]
  OBVIOUS
<1> DEFINE new(c, i) == IF app.hosts[c][i].status = "PENDING"
                        THEN [app.hosts[c][i] EXCEPT !.status = "ACTIVE"] ELSE app.hosts[c][i]
<1>5. PICK G : G = [c \in Comps |-> [i \in DOMAIN app.hosts[c] |-> new(c, i)]]
  OBVIOUS
<1>6. app' = [app EXCEPT !.manifests = N, !.hosts = G]
  BY <1>4, <1>5 DEF StartDeploying
<1>7. app'.known = app.known /\ app'.manifests = N /\ app'.hosts = G
  BY <1>1, <1>6 DEF Apps
<1>8. M \in [Comps -> Seq(ManifestsOf(Names))] /\ H \in [Comps -> Seq(Entries)]
  BY <1>1, <1>4, AppFields
<1>9. ASSUME NEW c \in Comps, NEW x, Listed(H[c], x)
      PROVE  Listed(G[c], x)
  <2>1. PICK i \in DOMAIN H[c] : H[c][i].host = x
    BY <1>9 DEF Listed
  <2>2. H[c][i] \in Entries
    <3>1. H[c] \in Seq(Entries)
      BY <1>8
    <3> QED
      BY <2>1, <3>1
  <2>3. new(c, i).host = x
    BY <1>4, <2>1, <2>2 DEF Entries
  <2> HIDE DEF new
  <2>4. i \in DOMAIN G[c] /\ G[c][i] = new(c, i)
    BY <1>4, <1>5, <2>1
  <2> QED
    BY <2>3, <2>4 DEF Listed
<1> HIDE DEF new
<1>10. ASSUME NEW c \in Comps, NEW j \in DOMAIN AdjustedManifests(c)
       PROVE  /\ AdjustedManifests(c)[j].name.comp = c
              /\ Listed(H[c], AdjustedManifests(c)[j].host)
  <2>1. PICK T, l : T = {e \in Entries : e.status = "PENDING"} /\ l = PendingHosts(c)
    OBVIOUS
  <2>2. l = Filter(H[c], T) /\ H[c] \in Seq(Entries)
    BY <1>4, <1>8, <2>1 DEF PendingHosts
  <2>3. \A i \in DOMAIN l : \E k \in DOMAIN H[c] : l[i] = H[c][k]
    BY <2>2, Filtered
  <2>4. PICK k : k = next_pod + NamesBefore(c) + j - 1
    OBVIOUS
  <2>5. j \in DOMAIN l /\ AdjustedManifests(c)[j] = Manifest(PodName(c, k), l[j].host, "PENDING")
    BY <1>10, <2>1, <2>4 DEF AdjustedManifests
  <2>6. AdjustedManifests(c)[j].name.comp = c /\ AdjustedManifests(c)[j].host = l[j].host
    BY <2>5 DEF Manifest, PodName
  <2> QED
    BY <2>3, <2>5, <2>6 DEF Listed
<1>11. ASSUME NEW c \in Comps
       PROVE  /\ \A i \in DOMAIN M[c] : i \in DOMAIN N[c] /\ N[c][i] = M[c][i]
              /\ \A i \in DOMAIN N[c] : \/ i \in DOMAIN M[c] /\ N[c][i] = M[c][i]
                                        \/ \E j \in DOMAIN AdjustedManifests(c) :
                                             N[c][i] = AdjustedManifests(c)[j]
  <2>1. PICK s, t : s = M[c] /\ t = AdjustedManifests(c)
    OBVIOUS
  <2>2. s \in Seq(ManifestsOf(Names)) /\ t \in Seq(ManifestsOf(Names'))
    BY <1>1, <1>2, <1>8, <2>1, AdjustedType
  <2>3. PICK S : S = ManifestsOf(Names) \union ManifestsOf(Names')
    OBVIOUS
  <2>4. s \in Seq(S) /\ t \in Seq(S) /\ N[c] = s \o t
    BY <1>4, <2>1, <2>2, <2>3, SeqGrows
  <2>5. /\ DOMAIN N[c] = 1..(Len(s) + Len(t))
        /\ \A i \in 1..(Len(s) + Len(t)) : N[c][i] = IF i <= Len(s) THEN s[i] ELSE t[i - Len(s)]
    BY <2>4, Concatenated
  <2>6. /\ Len(s) \in Nat /\ Len(t) \in Nat /\ DOMAIN s = 1..Len(s) /\ DOMAIN t = 1..Len(t)
    BY <2>2
  <2>7. \A i \in DOMAIN s : i \in DOMAIN N[c] /\ N[c][i] = s[i]
    BY <2>5, <2>6
  <2>8. ASSUME NEW i \in DOMAIN N[c]
        PROVE  \/ i \in DOMAIN s
               \/ \E j \in DOMAIN t : N[c][i] = t[j]
    <3>1. i <= Len(s) \/ (~(i <= Len(s)) /\ i - Len(s) \in DOMAIN t)
      BY <2>5, <2>6, <2>8
    <3> QED
      BY <2>5, <2>6, <2>8, <3>1
  <2> QED
    BY <2>1, <2>7, <2>8
<1>12. Undisturbed' <=> Undisturbed
  BY <1>2, <1>7 DEF Undisturbed
<1>13. ASSUME Undisturbed
       PROVE  OnListed(N, G) /\ HaveManifests(pods, N)
  <2>1. OnListed(M, H) /\ HaveManifests(pods, M)
    BY <1>4, <1>13 DEF RemovalInv, InPlace
  <2>2. OnListed(N, G)
    <3>1. ASSUME NEW c \in Comps, NEW i \in DOMAIN N[c]
          PROVE  N[c][i].name.comp = c /\ Listed(H[c], N[c][i].host)
      <4>1. CASE i \in DOMAIN M[c] /\ N[c][i] = M[c][i]
        BY <2>1, <4>1 DEF OnListed
      <4>2. CASE \E j \in DOMAIN AdjustedManifests(c) : N[c][i] = AdjustedManifests(c)[j]
        BY <1>10, <4>2
      <4> QED
        BY <1>11, <3>1, <4>1, <4>2
    <3> QED
      BY <1>9, <3>1 DEF OnListed
  <2>3. HaveManifests(pods, N)
    <3>1. \A p \in pods : p.name.comp \in Comps
      BY Basics DEF Names
    <3> QED
      BY <1>11, <2>1, <3>1 DEF HaveManifests
  <2> QED
    BY <2>2, <2>3
<1> QED
  BY <1>2, <1>3, <1>7, <1>12, <1>13, StaysInPlace

LEMMA DeployNewRemoval ==
  ASSUME TypeOK, RemovalInv, DeployNewPod
  PROVE  RemovalInv'
<1>1. /\ handler.at = "creating" /\ handler \in Workers
      /\ app.known /\ app \in Apps /\ app \in AppsOf(Names)
  BY Worker, Basics, KnownApp DEF DeployNewPod
<1>2. UNCHANGED <<disordered, replanned, respecified>>
  BY DEF DeployNewPod, historyVars
<1>3. PICK c \in Comps : \E i \in DOMAIN app.manifests[c] :
        LET m == app.manifests[c][i]
        IN
        \/ /\ CreateOk([name |-> m.name, host |-> m.host])
           /\ app' = [app EXCEPT !.manifests[c][i].status = "ACTIVE",
                                 !.pod_names = @ \union {m.name}]
           /\ IF Planned(c)
              THEN /\ handler' = [handler EXCEPT !.report.placed = @ \union {m.name}]
                   /\ UNCHANGED answers
              ELSE Raise
        \/ CreateFails(m.name) /\ FailAndRestore /\ UNCHANGED answers
  BY Zenon DEF DeployNewPod
<1>4. PICK i \in DOMAIN app.manifests[c] :
        LET m == app.manifests[c][i]
        IN
        \/ /\ CreateOk([name |-> m.name, host |-> m.host])
           /\ app' = [app EXCEPT !.manifests[c][i].status = "ACTIVE",
                                 !.pod_names = @ \union {m.name}]
           /\ IF Planned(c)
              THEN /\ handler' = [handler EXCEPT !.report.placed = @ \union {m.name}]
                   /\ UNCHANGED answers
              ELSE Raise
        \/ CreateFails(m.name) /\ FailAndRestore /\ UNCHANGED answers
  BY Zenon, <1>3
<1>5. PICK m : m = app.manifests[c][i]
  OBVIOUS
<1>6. CASE CreateFails(m.name) /\ FailAndRestore
  BY <1>1, <1>6, CallNames, FailRemoval
<1>7. CASE /\ CreateOk([name |-> m.name, host |-> m.host])
           /\ app' = [app EXCEPT !.manifests[c][i].status = "ACTIVE", !.pod_names = @ \union {m.name}]
           /\ \/ handler' = [handler EXCEPT !.report.placed = @ \union {m.name}]
              \/ Raise
  <2>1. PICK p, M, N : /\ p = [name |-> m.name, host |-> m.host]
                       /\ M = app.manifests /\ N = app'.manifests
    OBVIOUS
  <2>2. /\ p.name = m.name /\ p.host = m.host /\ pods' = pods \union {p}
        /\ api_error' = api_error
    BY <1>7, <2>1, PodsAfter, CallNames
  <2>3. M \in [Comps -> Seq(ManifestsOf(Names))]
    BY <1>1, <2>1, AppFields
  <2>4. M[c] \in Seq(ManifestsOf(Names))
    BY <2>3
  <2>5. PICK list, names : /\ list = [M[c] EXCEPT ![i].status = "ACTIVE"]
                           /\ names = app.pod_names \union {m.name}
    OBVIOUS
  <2>6. app' = [app EXCEPT !.manifests[c] = list, !.pod_names = names]
    BY <1>7, <2>1, <2>5
  <2>7. app'.known = app.known /\ N = [M EXCEPT ![c] = list] /\ app'.hosts = app.hosts
    BY <1>1, <2>1, <2>6 DEF Apps
  <2>8. /\ DOMAIN list = DOMAIN M[c]
        /\ \A j \in DOMAIN M[c] : list[j].name = M[c][j].name /\ list[j].host = M[c][j].host
    <3>1. \A j \in DOMAIN M[c] : M[c][j] \in ManifestsOf(Names)
      BY <2>4
    <3>2. \A e \in ManifestsOf(Names) :
            [e EXCEPT !.status = "ACTIVE"].name = e.name /\ [e EXCEPT !.status = "ACTIVE"].host = e.host
      BY DEF ManifestsOf
    <3>3. \A j \in DOMAIN M[c] : list[j] = IF j = i THEN [M[c][j] EXCEPT !.status = "ACTIVE"] ELSE M[c][j]
      BY <2>5
    <3> QED
      BY <2>5, <3>1, <3>2, <3>3
  <2>9. \A d \in Comps :
          /\ DOMAIN N[d] = DOMAIN M[d]
          /\ \A j \in DOMAIN M[d] : N[d][j].name = M[d][j].name /\ N[d][j].host = M[d][j].host
    BY <2>3, <2>7, <2>8
  <2>10. handler'.at \notin {"changing", "deploying"}
    <3>1. CASE Raise
      BY <3>1 DEF Raise, Idle
    <3>2. CASE handler' = [handler EXCEPT !.report.placed = @ \union {m.name}]
      <4>1. PICK report : report = [handler.report EXCEPT !.placed = @ \union {m.name}]
        OBVIOUS
      <4>2. handler' = [handler EXCEPT !.report = report]
        BY <3>2, <4>1
      <4>3. Looks(handler', handler.at, handler.todo, handler.pod, report)
        BY <1>1, <4>2, WorkerLooks, Zenon
      <4> QED
        BY <1>1, <4>3 DEF Looks
    <3> QED
      BY <1>7, <3>1, <3>2
  <2>11. Undisturbed' <=> Undisturbed
    BY <1>2, <2>2, <2>7 DEF Undisturbed
  <2>12. ASSUME Undisturbed
         PROVE  OnListed(N, app.hosts) /\ HaveManifests(pods', N)
    <3>1. OnListed(M, app.hosts) /\ HaveManifests(pods, M)
      BY <2>1, <2>12 DEF RemovalInv, InPlace
    <3>2. OnListed(N, app.hosts)
      BY <2>9, <3>1 DEF OnListed
    <3>3. m.name.comp = c
      BY <1>4, <1>5, <2>1, <3>1 DEF OnListed
    <3>4. \A q \in pods : q.name.comp \in Comps
      BY Basics DEF Names
    <3>5. HaveManifests(pods, N)
      <4>1. ASSUME NEW q \in pods
            PROVE  \E j \in DOMAIN N[q.name.comp] : N[q.name.comp][j].name = q.name
                                                    /\ N[q.name.comp][j].host = q.host
        <5>1. PICK j \in DOMAIN M[q.name.comp] : M[q.name.comp][j].name = q.name
                                                  /\ M[q.name.comp][j].host = q.host
          BY <3>1, <4>1 DEF HaveManifests
        <5>2. q.name.comp \in Comps
          BY <3>4, <4>1
        <5> QED
          BY <2>9, <5>1, <5>2
      <4> QED
        BY <4>1 DEF HaveManifests
    <3>6. i \in DOMAIN N[p.name.comp] /\ N[p.name.comp][i].name = p.name /\ N[p.name.comp][i].host = p.host
      <4>1. p.name.comp = c /\ i \in DOMAIN M[c] /\ m = M[c][i]
        BY <1>4, <1>5, <2>1, <2>2, <3>3
      <4>2. i \in DOMAIN N[c] /\ N[c][i].name = m.name /\ N[c][i].host = m.host
        BY <2>9, <4>1
      <4> QED
        BY <2>2, <4>1, <4>2
    <3>7. HaveManifests(pods', N)
      BY <2>2, <3>5, <3>6 DEF HaveManifests
    <3> QED
      BY <3>2, <3>7
  <2> QED
    BY <2>1, <2>7, <2>10, <2>11, <2>12, StaysInPlace
<1> QED
  BY <1>4, <1>5, <1>6, <1>7

\* A manifest whose pod is not to be deleted keeps its host in the list.
LEMMA HostKept ==
  ASSUME TypeOK, app.known, NEW c \in Comps, NEW i \in DOMAIN app.manifests[c],
         <<c, i>> \notin ToDelete, Listed(app.hosts[c], app.manifests[c][i].host)
  PROVE  Listed(RemainingHosts(c), app.manifests[c][i].host)
<1>1. PICK h, l, T : /\ h = app.manifests[c][i].host /\ l = app.hosts[c]
                     /\ T = {e \in Entries : e.status # "INACTIVE"}
  OBVIOUS
<1>2. PICK k \in DOMAIN l : l[k].host = h
  BY <1>1 DEF Listed
<1>3. l \in Seq(Entries) /\ RemainingHosts(c) = Filter(l, T)
  BY <1>1, KnownApp, AppFields DEF RemainingHosts
<1>4. l[k] \in Entries
  BY <1>2, <1>3
<1>5. <<c, i>> \in AllManifests
  <2>1. <<c, i>> \in {c} \X DOMAIN app.manifests[c]
    OBVIOUS
  <2>2. \E S \in {{d} \X DOMAIN app.manifests[d] : d \in Comps} : <<c, i>> \in S
    BY <2>1, Zenon
  <2> QED
    BY <2>2, Zenon DEF AllManifests
<1>6. l[k] # [host |-> h, status |-> "INACTIVE"]
  BY <1>1, <1>2, <1>5 DEF ToDelete
<1>7. l[k] \in T
  BY <1>1, <1>2, <1>4, <1>6 DEF Entries
<1>8. \E j \in DOMAIN Filter(l, T) : Filter(l, T)[j] = l[k]
  BY <1>2, <1>3, <1>7, Filtered
<1> QED
  BY <1>1, <1>2, <1>3, <1>8 DEF Listed

LEMMA FinishRemoval ==
  ASSUME TypeOK, RemovalInv, FinishPlan
  PROVE  RemovalInv'
<1>1. /\ handler.at = "deleting" /\ handler \in Workers /\ ToDelete = {}
      /\ app.known /\ app \in Apps /\ app \in AppsOf(Names)
  BY Worker, Basics, KnownApp DEF FinishPlan
<1>2. /\ UNCHANGED <<pods, disordered, replanned, api_error, respecified>> /\ Finish("COMPLETED")
      /\ app' = [app EXCEPT !.hosts = [c \in Comps |-> RemainingHosts(c)]]
  BY DEF FinishPlan, historyVars
<1>3. handler'.at = "reply"
  BY <1>1, <1>2, FinishLooks
<1>4. /\ app'.known = app.known /\ app'.manifests = app.manifests
      /\ app'.hosts = [c \in Comps |-> RemainingHosts(c)]
  <2>1. PICK H : H = [c \in Comps |-> RemainingHosts(c)]
    OBVIOUS
  <2>2. app' = [app EXCEPT !.hosts = H]
    BY <1>2, <2>1
  <2>3. app'.known = app.known /\ app'.manifests = app.manifests /\ app'.hosts = H
    BY <1>1, <2>2 DEF Apps
  <2> QED
    BY <2>1, <2>3
<1>5. ASSUME OnListed(app.manifests, app.hosts)
      PROVE  OnListed(app'.manifests, app'.hosts)
  <2>1. ASSUME NEW c \in Comps, NEW i \in DOMAIN app.manifests[c]
        PROVE  Listed(RemainingHosts(c), app.manifests[c][i].host)
    <3>1. Listed(app.hosts[c], app.manifests[c][i].host) /\ <<c, i>> \notin ToDelete
      BY <1>1, <1>5 DEF OnListed
    <3> QED
      BY <1>1, <3>1, HostKept
  <2>2. \A c \in Comps : app'.hosts[c] = RemainingHosts(c)
    BY <1>4
  <2> QED
    BY <1>4, <1>5, <2>1, <2>2 DEF OnListed
<1>6. Undisturbed' <=> Undisturbed
  BY <1>2, <1>4 DEF Undisturbed
<1> QED
  BY <1>2, <1>3, <1>4, <1>5, <1>6, StaysInPlace DEF RemovalInv, InPlace

LEMMA DeleteUnusedRemoval ==
  ASSUME TypeOK, RemovalInv, DeleteUnusedPod
  PROVE  RemovalInv'
<1>1. /\ handler.at = "deleting" /\ handler \in Workers
      /\ app.known /\ app \in Apps /\ app \in AppsOf(Names)
  BY Worker, Basics, KnownApp DEF DeleteUnusedPod
<1>2. UNCHANGED <<disordered, replanned, respecified>>
  BY DEF DeleteUnusedPod, historyVars
<1>3. PICK c \in Comps : \E i \in DOMAIN app.manifests[c] :
        LET n == app.manifests[c][i].name
        IN
        /\ IsFirst(<<c, i>>, ToDelete)
        /\ \/ /\ DeleteOk(n)
              /\ IF Planned(c)
                 THEN /\ app' = [app EXCEPT !.pod_names = @ \ {n}, !.manifests[c] = RemoveAt(@, i)]
                      /\ handler' = [handler EXCEPT !.report.placed = @ \ {n},
                                                    !.report.modified = @ \ {n},
                                                    !.report.removed = @ \union {n}]
                      /\ UNCHANGED answers
                 ELSE /\ app' = [app EXCEPT
                           !.pod_names = @ \ {n},
                           !.hosts = [d \in Comps |-> IF d < c THEN RemainingHosts(d) ELSE @[d]]]
                      /\ Raise
           \/ DeleteFails(n) /\ FailAndRestore /\ UNCHANGED answers
  BY Zenon DEF DeleteUnusedPod
<1>4. PICK i \in DOMAIN app.manifests[c] :
        LET n == app.manifests[c][i].name
        IN
        /\ IsFirst(<<c, i>>, ToDelete)
        /\ \/ /\ DeleteOk(n)
              /\ IF Planned(c)
                 THEN /\ app' = [app EXCEPT !.pod_names = @ \ {n}, !.manifests[c] = RemoveAt(@, i)]
                      /\ handler' = [handler EXCEPT !.report.placed = @ \ {n},
                                                    !.report.modified = @ \ {n},
                                                    !.report.removed = @ \union {n}]
                      /\ UNCHANGED answers
                 ELSE /\ app' = [app EXCEPT
                           !.pod_names = @ \ {n},
                           !.hosts = [d \in Comps |-> IF d < c THEN RemainingHosts(d) ELSE @[d]]]
                      /\ Raise
           \/ DeleteFails(n) /\ FailAndRestore /\ UNCHANGED answers
  BY Zenon, <1>3
<1>5. PICK n, M, H, names : /\ n = app.manifests[c][i].name /\ M = app.manifests /\ H = app.hosts
                            /\ names = app.pod_names \ {n}
  OBVIOUS
<1>6. M \in [Comps -> Seq(ManifestsOf(Names))]
  BY <1>1, <1>5, AppFields
<1>7. \A p \in pods : p.name.comp \in Comps
  BY Basics DEF Names
<1>8. CASE DeleteFails(n) /\ FailAndRestore
  BY <1>1, <1>8, CallNames, FailRemoval
<1>9. CASE /\ DeleteOk(n)
           /\ app' = [app EXCEPT !.pod_names = @ \ {n}, !.manifests[c] = RemoveAt(@, i)]
           /\ handler' = [handler EXCEPT !.report.placed = @ \ {n},
                                         !.report.modified = @ \ {n},
                                         !.report.removed = @ \union {n}]
  <2>1. PICK list, N : list = RemoveAt(M[c], i) /\ N = app'.manifests
    OBVIOUS
  <2>2. app' = [app EXCEPT !.pod_names = names, !.manifests[c] = list]
    BY <1>5, <1>9, <2>1
  <2>3. app'.known = app.known /\ N = [M EXCEPT ![c] = list] /\ app'.hosts = H
    BY <1>1, <1>5, <2>1, <2>2 DEF Apps
  <2>4. pods' = {p \in pods : p.name # n} /\ api_error' = api_error
    BY <1>9 DEF DeleteOk
  <2>5. handler'.at = "deleting"
    <3>1. PICK report : report = [handler.report EXCEPT !.placed = @ \ {n}, !.modified = @ \ {n},
                                                        !.removed = @ \union {n}]
      OBVIOUS
    <3>2. handler' = [handler EXCEPT !.report = report]
      BY <1>9, <3>1
    <3>3. Looks(handler', handler.at, handler.todo, handler.pod, report)
      BY <1>1, <3>2, WorkerLooks, Zenon
    <3> QED
      BY <1>1, <3>3 DEF Looks
  <2>6. /\ \A j \in DOMAIN list : \E k \in DOMAIN M[c] : list[j] = M[c][k]
        /\ \A k \in DOMAIN M[c] : k # i => \E j \in DOMAIN list : list[j] = M[c][k]
    <3>1. PICK l : l = M[c]
      OBVIOUS
    <3>2. l \in Seq(ManifestsOf(Names)) /\ i \in DOMAIN l /\ list = RemoveAt(l, i)
      BY <1>4, <1>5, <1>6, <2>1, <3>1
    <3>3. /\ list \in Seq(ManifestsOf(Names)) /\ Len(list) = Len(l) - 1
          /\ \A j \in DOMAIN list : list[j] = IF j < i THEN l[j] ELSE l[j + 1]
      BY <3>2, Removed
    <3>4. /\ Len(l) \in Nat /\ DOMAIN l = 1..Len(l) /\ DOMAIN list = 1..(Len(l) - 1)
      BY <3>2, <3>3
    <3>5. \A j \in DOMAIN list : \E k \in DOMAIN l : list[j] = l[k]
      BY <3>2, <3>3, <3>4
    <3>6. ASSUME NEW k \in DOMAIN l, k # i
          PROVE  \E j \in DOMAIN list : list[j] = l[k]
      <4>1. CASE k < i
        <5>1. k \in DOMAIN list /\ list[k] = l[k]
          BY <3>2, <3>3, <3>4, <4>1
        <5> QED
          BY <5>1
      <4>2. CASE ~(k < i)
        <5>1. k - 1 \in DOMAIN list /\ ~(k - 1 < i) /\ k - 1 + 1 = k
          BY <3>2, <3>4, <3>6, <4>2
        <5>2. list[k - 1] = l[k]
          BY <3>3, <5>1
        <5> QED
          BY <5>1, <5>2
      <4> QED
        BY <4>1, <4>2
    <3> QED
      BY <3>1, <3>5, <3>6
  <2>7. N[c] = list /\ \A d \in Comps : d # c => N[d] = M[d]
    BY <1>6, <2>3
  <2>8. Undisturbed' <=> Undisturbed
    BY <1>2, <2>3, <2>4 DEF Undisturbed
  <2>9. ASSUME Undisturbed
        PROVE  OnListed(N, H) /\ HaveManifests(pods', N)
    <3>1. OnListed(M, H) /\ HaveManifests(pods, M)
      BY <1>5, <2>9 DEF RemovalInv, InPlace
    <3>2. OnListed(N, H)
      BY <2>6, <2>7, <3>1 DEF OnListed
    <3>3. ASSUME NEW p \in pods, p.name # n
          PROVE  \E j \in DOMAIN N[p.name.comp] :
                   N[p.name.comp][j].name = p.name /\ N[p.name.comp][j].host = p.host
      <4>1. PICK k \in DOMAIN M[p.name.comp] :
              M[p.name.comp][k].name = p.name /\ M[p.name.comp][k].host = p.host
        BY <3>1 DEF HaveManifests
      <4>2. CASE p.name.comp # c
        BY <1>7, <2>7, <4>1, <4>2
      <4>3. CASE p.name.comp = c
        <5>1. k # i
          BY <1>5, <3>3, <4>1, <4>3
        <5> QED
          BY <2>6, <2>7, <4>1, <4>3, <5>1
      <4> QED
        BY <4>2, <4>3
    <3>4. HaveManifests(pods', N)
      BY <2>4, <3>3 DEF HaveManifests
    <3> QED
      BY <3>2, <3>4
  <2> QED
    BY <2>1, <2>3, <2>5, <2>8, <2>9, StaysInPlace
<1>10. CASE /\ DeleteOk(n)
            /\ app' = [app EXCEPT
                  !.pod_names = @ \ {n},
                  !.hosts = [d \in Comps |-> IF d < c THEN RemainingHosts(d) ELSE @[d]]]
            /\ Raise
  <2>1. PICK G : G = [d \in Comps |-> IF d < c THEN RemainingHosts(d) ELSE H[d]]
    OBVIOUS
  <2>2. app' = [app EXCEPT !.pod_names = names, !.hosts = G]
    BY <1>5, <1>10, <2>1
  <2>3. app'.known = app.known /\ app'.manifests = M /\ app'.hosts = G
    BY <1>1, <1>5, <2>2 DEF Apps
  <2>4. pods' \subseteq pods /\ api_error' = api_error
    BY <1>10 DEF DeleteOk
  <2>5. handler'.at = "idle"
    BY <1>10 DEF Raise, Idle
  <2>6. Undisturbed' <=> Undisturbed
    BY <1>2, <2>3, <2>4 DEF Undisturbed
  <2>7. ASSUME Undisturbed
        PROVE  OnListed(M, G) /\ HaveManifests(pods', M)
    <3>1. OnListed(M, H) /\ HaveManifests(pods, M)
      BY <1>5, <2>7 DEF RemovalInv, InPlace
    <3>2. ASSUME NEW d \in Comps, NEW k \in DOMAIN M[d]
          PROVE  M[d][k].name.comp = d /\ Listed(G[d], M[d][k].host)
      <4>1. M[d][k].name.comp = d /\ Listed(H[d], M[d][k].host)
        BY <3>1 DEF OnListed
      <4>2. CASE ~(d < c)
        <5>1. G[d] = H[d]
          BY <2>1, <4>2
        <5> QED
          BY <4>1, <5>1
      <4>3. CASE d < c
        <5>1. <<d, k>> \notin ToDelete
          <6>1. IsFirst(<<c, i>>, ToDelete)
            BY <1>4
          <6>2. c \in Nat /\ d \in Nat
            BY DEF Comps
          <6> QED
            BY <4>3, <6>1, <6>2 DEF IsFirst
        <5>2. G[d] = RemainingHosts(d)
          BY <2>1, <4>3
        <5> QED
          BY <1>1, <1>5, <4>1, <5>1, <5>2, HostKept
      <4> QED
        BY <4>2, <4>3
    <3> QED
      BY <2>4, <3>1, <3>2 DEF OnListed, HaveManifests
  <2> QED
    BY <2>3, <2>5, <2>6, <2>7, StaysInPlace
<1> QED
  BY <1>4, <1>5, <1>8, <1>9, <1>10

LEMMA NextRemoval ==
  ASSUME TypeOK, OrphanInv, RemovalInv, [Next]_vars
  PROVE  RemovalInv'
<1>1. CASE UNCHANGED vars
  BY <1>1, SameTables DEF vars, historyVars
<1>2. CASE \/ \E where \in {"here", "elsewhere"} : CreateResource(where)
           \/ DeleteResource \/ ModifyResource \/ WatchRepeats
           \/ \E steps \in InitialPlans : Submit(steps, TRUE)
           \/ \E steps \in Plans : Submit(steps, FALSE)
           \/ \E p \in pods : PodDies(p)
  <2>1. UNCHANGED <<app, disordered, replanned, api_error, respecified, handler>> /\ pods' \subseteq pods
    BY <1>2 DEF CreateResource, DeleteResource, ModifyResource, WatchRepeats, Submit, PodDies, historyVars
  <2> QED
    BY <2>1, SameTables
<1>3. CASE AppHandler
  <2>1. CASE AppEvent
    BY <2>1, EventRemoval
  <2>2. CASE PlanOfUnknownApp \/ StartInitialPlan \/ StartPlan
    BY <2>2, StartRemoval
  <2>3. CASE Answer \/ FinishInitialPlan \/ StartDeleting
    BY <2>3, QuietRemoval
  <2>4. CASE ActMove \/ ActDeploy \/ ActRemove
    BY <2>4, ActRemoval
  <2>5. CASE DeployInstance
    BY <2>5, DeployRemoval
  <2>6. CASE ActChangeSpec
    BY <2>6, ChangeRemoval
  <2>7. CASE DeleteOldPod
    BY <2>7, ReplaceRemoval
  <2>8. CASE StartDeploying
    BY <2>8, StartDeployingRemoval
  <2>9. CASE DeployNewPod
    BY <2>9, DeployNewRemoval
  <2>10. CASE DeleteUnusedPod
    BY <2>10, DeleteUnusedRemoval
  <2>11. CASE FinishPlan
    BY <2>11, FinishRemoval
  <2> QED
    BY <1>3, <2>1, <2>2, <2>3, <2>4, <2>5, <2>6, <2>7, <2>8, <2>9, <2>10, <2>11
    DEF AppHandler, InitialPlan, LaterPlan
<1>4. CASE Restart
  <2>1. app' = NoApp /\ handler'.at = "idle"
    BY <1>4 DEF Restart, Idle
  <2> QED
    BY <2>1, Displaced DEF Undisturbed, NoApp
<1> QED
  BY <1>1, <1>2, <1>3, <1>4 DEF Next

LEMMA InitRemoval == Init => RemovalInv
BY DEF Init, Idle, RemovalInv, Respecifies, InPlace, DeploysItsSteps, Undisturbed, NoApp

\* As long as Kubernetes refuses no call, no pod specification is changed, the application is
\* not announced again, and no initial plan comes for a component that has hosts, every pod
\* has a manifest on the node it runs on, and that node is in the list of its component:
\* whatever plans fail or raise half-way, a later one can move or remove it.
THEOREM PodsStayRemovable == Spec => []PodsCanBeRemoved
<1>1. Init => OrphanInv /\ RemovalInv
  BY InitOrphans, InitRemoval
<1>2. TypeOK /\ OrphanInv /\ RemovalInv /\ [Next]_vars => OrphanInv' /\ RemovalInv'
  BY NextOrphans, NextRemoval
<1>3. TypeOK /\ RemovalInv => PodsCanBeRemoved
  <2> SUFFICES ASSUME TypeOK, RemovalInv, Undisturbed, NEW p \in pods
               PROVE  LET c == p.name.comp IN
                      /\ Listed(app.hosts[c], p.host)
                      /\ \E i \in DOMAIN app.manifests[c] :
                           app.manifests[c][i].name = p.name /\ app.manifests[c][i].host = p.host
    BY DEF PodsCanBeRemoved, Undisturbed
  <2>1. OnListed(app.manifests, app.hosts) /\ HaveManifests(pods, app.manifests)
    BY DEF RemovalInv, InPlace
  <2>2. p.name.comp \in Comps
    BY Basics DEF Names
  <2> QED
    BY <2>1, <2>2 DEF OnListed, HaveManifests
<1> QED
  BY <1>1, <1>2, <1>3, TypesOK, PTL DEF Spec
=============================================================================
