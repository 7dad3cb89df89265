-------------------------- MODULE ThreadServerProofs --------------------------
(***************************************************************************)
(* Proofs about ThreadServer and what it is made of, RequestHandler and    *)
(* RouteTable: for every size of the table and of its index, every hash    *)
(* function, and any number of connections and threads.                    *)
(***************************************************************************)
EXTENDS ThreadServer, FiniteSetTheorems, WellFoundedInduction, TLAPS

(* Every set of natural numbers has a smallest member.                     *)
LEMMA SmallestIs ==
  ASSUME NEW S \in SUBSET Nat, S # {}
  PROVE  \E x \in S : \A y \in S : x <= y
<1> DEFINE Below == {0 .. x : x \in S}
<1>1. Below \subseteq FiniteSubsetsOf(Nat) /\ Below # {}
  <2>1. ASSUME NEW x \in S
        PROVE  0 .. x \in FiniteSubsetsOf(Nat)
    <3>1. IsFiniteSet(0 .. x)
      BY FS_Interval, 0 \in Int, x \in Int
    <3>2. 0 .. x \subseteq Nat
      OBVIOUS
    <3> QED
      BY <3>1, <3>2 DEF FiniteSubsetsOf
  <2> QED
    BY <2>1
<1>2. PICK B \in Below :
        \A C \in Below : ~ (<<C, B>> \in StrictSubsetOrdering(Nat))
  BY <1>1, FS_StrictSubsetOrderingWellFounded, WFMin
<1>3. PICK x \in S : B = 0 .. x
  BY <1>2
<1>4. ASSUME NEW y \in S, y < x
      PROVE  FALSE
  <2>1. 0 .. y \in Below /\ 0 .. y \subseteq Nat /\ 0 .. x \subseteq Nat
    OBVIOUS
  <2>2. 0 .. y \subseteq 0 .. x /\ x \in 0 .. x /\ x \notin 0 .. y
    BY <1>4
  <2>3. <<0 .. y, 0 .. x>> \in StrictSubsetOrdering(Nat)
    BY <2>1, <2>2 DEF StrictSubsetOrdering
  <2> QED
    BY <1>2, <1>3, <2>1, <2>3
<1>5. \A y \in S : x <= y
  BY <1>4
<1> QED
  BY <1>5

LEMMA MinOfNaturals ==
  ASSUME NEW S \in SUBSET Nat, S # {}
  PROVE  Min(S) \in S /\ \A y \in S : Min(S) <= y
BY SmallestIs DEF Min

(* A function on 0 .. N is defined by its first value and a step.          *)
Steps(N, V) == [1 .. N -> [V -> V]]
Follows(f, N, V, v, T) ==
  /\ f \in [0 .. N -> V] /\ f[0] = v
  /\ \A n \in 1 .. N : f[n] = T[n][f[n - 1]]

LEMMA StepsDefine ==
  ASSUME NEW N \in Nat, NEW V, NEW v \in V, NEW T \in Steps(N, V)
  PROVE  \E f : Follows(f, N, V, v, T)
<1> DEFINE Up(n, f) == Follows(f, n, V, v, T)
           Bad == {n \in 0 .. N : ~ \E f : Up(n, f)}
<1>1. ASSUME Bad # {} PROVE FALSE
  <2>1. Bad \in SUBSET Nat
    OBVIOUS
  <2>2. PICK n \in Bad : \A y \in Bad : n <= y
    BY <1>1, <2>1, SmallestIs
  <2>3. CASE n = 0
    <3>1. Up(0, [k \in 0 .. 0 |-> v])
      BY DEF Follows
    <3> QED
      BY <2>2, <2>3, <3>1
  <2>4. CASE n # 0
    <3>1. n - 1 \in 0 .. N /\ n \in 1 .. N /\ ~(n <= n - 1)
      BY <2>2, <2>4
    <3>2. PICK f : Up(n - 1, f)
      BY <2>2, <3>1
    <3> DEFINE g == [k \in 0 .. n |-> IF k = n THEN T[n][f[n - 1]] ELSE f[k]]
    <3>3. f \in [0 .. n - 1 -> V] /\ f[0] = v
          /\ \A k \in 1 .. n - 1 : f[k] = T[k][f[k - 1]]
      BY <3>2 DEF Follows
    <3>4. f[n - 1] \in V
      BY <3>1, <3>3
    <3>5. T[n][f[n - 1]] \in V
      BY <3>1, <3>4 DEF Steps
    <3>6. g \in [0 .. n -> V] /\ g[0] = v
      BY <3>1, <3>3, <3>5
    <3>7. ASSUME NEW k \in 1 .. n PROVE g[k] = T[k][g[k - 1]]
      <4>1. k - 1 \in 0 .. n - 1 /\ k - 1 # n /\ k \in 0 .. n
        BY <3>1
      <4>2. g[k - 1] = f[k - 1]
        BY <4>1, <3>1
      <4>3. CASE k = n
        BY <4>1, <4>2, <4>3
      <4>4. CASE k # n
        <5>1. k \in 1 .. n - 1
          BY <3>1, <4>4
        <5> QED
          BY <3>3, <4>1, <4>2, <4>4, <5>1
      <4> QED
        BY <4>3, <4>4
    <3> HIDE DEF g
    <3>8. Up(n, g)
      BY <3>6, <3>7 DEF Follows
    <3> QED
      BY <2>2, <3>8
  <2> QED
    BY <2>3, <2>4
<1>2. N \in 0 .. N
  OBVIOUS
<1>3. PICK f : Up(N, f)
  BY <1>1, <1>2
<1> QED
  BY <1>3

-----------------------------------------------------------------------------
(* Probing.                                                                *)

LEMMA SlotsAre == HashSize \in Nat /\ HashSize > 0 /\ Slots = 0 .. HashSize - 1
BY RouteAssumption DEF Slots

(* The i-th slot of a probe that begins at h.                              *)
LEMMA WrapAround ==
  ASSUME NEW h \in Slots, NEW i \in Slots
  PROVE  /\ (h + i) % HashSize = IF h + i < HashSize THEN h + i
                                                     ELSE h + i - HashSize
         /\ (h + i) % HashSize \in Slots
BY SlotsAre

LEMMA EverySlotIsMet ==
  ASSUME NEW h \in Slots, NEW s \in Slots
  PROVE  \E i \in Slots : (h + i) % HashSize = s
<1>1. CASE s >= h
  <2>1. s - h \in Slots /\ h + (s - h) = s /\ s < HashSize
    BY <1>1, SlotsAre
  <2> QED
    BY <2>1, WrapAround
<1>2. CASE s < h
  <2> DEFINE i == s - h + HashSize
  <2>1. /\ i \in Slots /\ ~(h + i < HashSize) /\ h + i - HashSize = s
    BY <1>2, SlotsAre
  <2> HIDE DEF i
  <2>2. (h + i) % HashSize = s
    BY <2>1, WrapAround
  <2> QED
    BY <2>1, <2>2
<1>3. s >= h \/ s < h
  BY SlotsAre
<1> QED
  BY <1>1, <1>2, <1>3

(* Where a probe stops.                                                    *)
LEMMA NearestIs ==
  ASSUME NEW h \in Slots, NEW S \in SUBSET Slots, S # {}
  PROVE  \E d \in Slots :
           /\ Nearest(h, S) = (h + d) % HashSize /\ Nearest(h, S) \in S
           /\ \A i \in Slots : i < d => (h + i) % HashSize \notin S
<1> DEFINE Stop == {i \in Slots : (h + i) % HashSize \in S}
<1>1. Stop \in SUBSET Nat /\ Stop # {}
  <2>1. PICK s \in S : s \in Slots
    OBVIOUS
  <2>2. PICK i \in Slots : (h + i) % HashSize = s
    BY EverySlotIsMet
  <2>3. i \in Stop
    BY <2>2
  <2>4. Slots \subseteq Nat /\ Stop \subseteq Slots
    BY SlotsAre
  <2> HIDE DEF Stop
  <2> QED
    BY <2>3, <2>4
<1> DEFINE d == Min(Stop)
<1> HIDE DEF Stop
<1>2. d \in Stop /\ \A y \in Stop : d <= y
  BY <1>1, MinOfNaturals
<1>3. Nearest(h, S) = (h + d) % HashSize
  BY DEF Nearest, Stop
<1> HIDE DEF d
<1>4. d \in Slots /\ (h + d) % HashSize \in S
  BY <1>2 DEF Stop
<1>5. ASSUME NEW i \in Slots, i < d PROVE (h + i) % HashSize \notin S
  <2>1. ~(d <= i)
    BY <1>4, <1>5, SlotsAre
  <2> QED
    BY <1>2, <2>1 DEF Stop
<1> QED
  BY <1>3, <1>4, <1>5

-----------------------------------------------------------------------------
(* The index.                                                              *)

Vacant(g) == {s \in Slots : g[s] = 0}

(* A probe for route r meets entry n, and before it earlier entries only.  *)
Meets(g, r, n) ==
  \E d \in Slots :
    /\ g[(hash_key[r] + d) % HashSize] = n
    /\ \A i \in Slots : i < d => g[(hash_key[r] + i) % HashSize] \in 1 .. n - 1

(* g is an index of the first n routes of seq.                             *)
Indexes(g, seq, n) ==
  /\ g \in [Slots -> 0 .. n]
  /\ \A s, t \in Slots : g[s] = g[t] /\ g[s] # 0 => s = t
  /\ \A k \in 1 .. n : Meets(g, seq[k], k)

(* There are more slots than routes.                                       *)
LEMMA SomeAreFree ==
  ASSUME NEW g, NEW seq, NEW n \in Nat, n < HashSize, Indexes(g, seq, n)
  PROVE  Vacant(g) # {}
<1> SUFFICES ASSUME Vacant(g) = {} PROVE FALSE
  OBVIOUS
<1>1. g \in [Slots -> 1 .. n]
  BY DEF Vacant, Indexes
<1>2. IsFiniteSet(Slots) /\ Cardinality(Slots) = HashSize
  <2>1. 0 \in Int /\ HashSize - 1 \in Int /\ ~(0 > HashSize - 1)
        /\ HashSize - 1 - 0 + 1 = HashSize
    BY SlotsAre
  <2> QED
    BY <2>1, SlotsAre, FS_Interval
<1>3. IsFiniteSet(1 .. n) /\ Cardinality(1 .. n) = n
  <2>1. 1 \in Int /\ n \in Int /\ n - 1 + 1 = n /\ (1 > n => n = 0)
    OBVIOUS
  <2> QED
    BY <2>1, FS_Interval
<1>4. \E s, t \in Slots : s # t /\ g[s] = g[t]
  BY <1>1, <1>2, <1>3, FS_PigeonHole
<1> QED
  BY <1>1, <1>4 DEF Indexes

KeysOK == hash_key \in [Route(Paths) -> Slots]

LEMMA InsertKeeps ==
  ASSUME KeysOK, NEW seq \in Seq(Route(Paths)), NEW n \in 1 .. Len(seq),
         n < HashSize, NEW g, Indexes(g, seq, n - 1)
  PROVE  Indexes([g EXCEPT ![Nearest(hash_key[seq[n]], Vacant(g))] = n], seq, n)
<1> DEFINE h == hash_key[seq[n]]
           at == Nearest(h, Vacant(g))
           new == [g EXCEPT ![at] = n]
<1>1. n \in Nat /\ n - 1 \in Nat /\ n - 1 < HashSize /\ n # 0
  BY SlotsAre
<1>2. Vacant(g) \in SUBSET Slots /\ Vacant(g) # {}
  BY <1>1, SomeAreFree DEF Vacant
<1>3. h \in Slots
  BY DEF KeysOK
<1>4. PICK d \in Slots :
        /\ at = (h + d) % HashSize /\ at \in Vacant(g)
        /\ \A i \in Slots : i < d => (h + i) % HashSize \notin Vacant(g)
  BY <1>2, <1>3, NearestIs
<1>5. at \in Slots /\ g[at] = 0
  BY <1>4 DEF Vacant
<1>6. g \in [Slots -> 0 .. n - 1]
  BY DEF Indexes
<1>7. /\ new[at] = n /\ \A s \in Slots : s # at => new[s] = g[s]
      /\ new \in [Slots -> 0 .. n]
  BY <1>1, <1>5, <1>6
<1>8. \A s \in Slots : g[s] # n
  BY <1>1, <1>6
<1>9. \A s, t \in Slots : new[s] = new[t] /\ new[s] # 0 => s = t
  BY <1>7, <1>8 DEF Indexes
<1>10. \A s \in Slots : g[s] # 0 => new[s] # 0 /\ new[s] = g[s]
  BY <1>5, <1>7
<1>11. Meets(new, seq[n], n)
  <2>1. new[(h + d) % HashSize] = n
    BY <1>4, <1>7
  <2>2. ASSUME NEW i \in Slots, i < d
        PROVE  new[(h + i) % HashSize] \in 1 .. n - 1
    <3>1. (h + i) % HashSize \in Slots
      BY <1>3, WrapAround
    <3>2. g[(h + i) % HashSize] # 0
      BY <1>4, <2>2, <3>1 DEF Vacant
    <3>3. g[(h + i) % HashSize] \in 1 .. n - 1
      BY <1>1, <1>6, <3>1, <3>2
    <3> QED
      BY <1>10, <3>1, <3>2, <3>3
  <2> QED
    BY <2>1, <2>2 DEF Meets
<1> HIDE DEF new, at, h
<1>12. ASSUME NEW k \in 1 .. n - 1 PROVE Meets(new, seq[k], k)
  <2>1. seq[k] \in Route(Paths) /\ k # 0 /\ Meets(g, seq[k], k)
    BY DEF Indexes
  <2>2. hash_key[seq[k]] \in Slots
    BY <2>1 DEF KeysOK
  <2>3. PICK e \in Slots :
          /\ g[(hash_key[seq[k]] + e) % HashSize] = k
          /\ \A i \in Slots : i < e =>
               g[(hash_key[seq[k]] + i) % HashSize] \in 1 .. k - 1
    BY <2>1 DEF Meets
  <2>4. \A i \in Slots : (hash_key[seq[k]] + i) % HashSize \in Slots
    BY <2>2, WrapAround
  <2>5. new[(hash_key[seq[k]] + e) % HashSize] = k
    BY <1>10, <2>1, <2>3, <2>4
  <2>6. ASSUME NEW i \in Slots, i < e
        PROVE  new[(hash_key[seq[k]] + i) % HashSize] \in 1 .. k - 1
    <3>1. g[(hash_key[seq[k]] + i) % HashSize] \in 1 .. k - 1
      BY <2>3, <2>6
    <3>2. g[(hash_key[seq[k]] + i) % HashSize] # 0
      BY <3>1
    <3> QED
      BY <1>10, <2>4, <3>1, <3>2
  <2> QED
    BY <2>5, <2>6 DEF Meets
<1>13. \A k \in 1 .. n : k = n \/ k \in 1 .. n - 1
  BY <1>1
<1>14. Indexes(new, seq, n)
  BY <1>7, <1>9, <1>11, <1>12, <1>13 DEF Indexes
<1> QED
  BY <1>14 DEF new, at, h

(* Rebuilding after every addition gives an index of all routes.           *)
LEMMA RebuiltIndexes ==
  ASSUME KeysOK, NEW seq \in Seq(Route(Paths)), Len(seq) <= MaxRoutes
  PROVE  Indexes(Rebuilt(seq), seq, Len(seq))
<1> DEFINE N == Len(seq)
           V == [Slots -> 0 .. N]
           Builds(f) ==
             f = [n \in 0 .. Len(seq) |->
                    IF n = 0 THEN Empty
                    ELSE LET free == {s \in Slots : f[n - 1][s] = 0}
                         IN  [f[n - 1] EXCEPT
                                ![Nearest(hash_key[seq[n]], free)] = n]]
<1>1. N \in Nat /\ N < HashSize /\ N = Len(seq)
  BY RouteAssumption
<1> HIDE DEF N
<1>2. \E f : Builds(f)
  <2> DEFINE T == [n \in 1 .. N |-> [g \in V |->
                     [g EXCEPT ![Nearest(hash_key[seq[n]], Vacant(g))] = n]]]
  <2>1. Empty \in V
    BY <1>1 DEF Empty
  <2>2. T \in Steps(N, V)
    <3>1. ASSUME NEW n \in 1 .. N, NEW g \in V, NEW a
          PROVE  [g EXCEPT ![a] = n] \in V
      <4>1. n \in 0 .. N /\ g \in [Slots -> 0 .. N]
        BY <1>1
      <4> QED
        BY <4>1
    <3> HIDE DEF V
    <3> QED
      BY <3>1 DEF Steps
  <2> HIDE DEF T, V
  <2>3. PICK f : Follows(f, N, V, Empty, T)
    BY <1>1, <2>1, <2>2, StepsDefine
  <2>4. /\ f \in [0 .. N -> V] /\ f[0] = Empty
        /\ \A n \in 1 .. N : f[n] = T[n][f[n - 1]]
    BY <2>3 DEF Follows
  <2>5. ASSUME NEW n \in 1 .. N
        PROVE  f[n] = [f[n - 1] EXCEPT
                         ![Nearest(hash_key[seq[n]], Vacant(f[n - 1]))] = n]
    <3>1. n - 1 \in 0 .. N
      BY <1>1
    <3>2. f[n - 1] \in V
      BY <2>4, <3>1
    <3> QED
      BY <2>4, <3>2 DEF T
  <2>6. \A n \in 0 .. N : n = 0 \/ n \in 1 .. N
    BY <1>1
  <2>7. Builds(f)
    BY <1>1, <2>4, <2>5, <2>6 DEF Vacant
  <2> QED
    BY <2>7
<1> DEFINE index == CHOOSE f : Builds(f)
<1>3. Builds(index)
  BY <1>2
<1>4. Rebuilt(seq) = index[N]
  BY <1>1 DEF Rebuilt
<1> HIDE DEF index
<1>5. /\ index[0] = Empty
      /\ \A n \in 1 .. N :
           index[n] = [index[n - 1] EXCEPT
                         ![Nearest(hash_key[seq[n]], Vacant(index[n - 1]))] = n]
  <2>1. index[0] = Empty
    BY <1>1, <1>3
  <2>2. ASSUME NEW n \in 1 .. N
        PROVE  index[n] = [index[n - 1] EXCEPT
                             ![Nearest(hash_key[seq[n]], Vacant(index[n - 1]))] = n]
    <3>1. n \in 0 .. Len(seq) /\ n # 0
      BY <1>1
    <3> QED
      BY <1>3, <3>1 DEF Vacant
  <2> QED
    BY <2>1, <2>2
<1> HIDE DEF Builds, V
<1> DEFINE Bad == {n \in 0 .. N : ~Indexes(index[n], seq, n)}
<1>6. ASSUME Bad # {} PROVE FALSE
  <2>1. Bad \in SUBSET Nat
    BY <1>1
  <2>2. PICK n \in Bad : \A y \in Bad : n <= y
    BY <1>6, <2>1, SmallestIs
  <2>3. CASE n = 0
    <3>1. Indexes(Empty, seq, 0)
      BY DEF Indexes, Empty
    <3> QED
      BY <1>5, <2>2, <2>3, <3>1
  <2>4. CASE n # 0
    <3>1. n - 1 \in 0 .. N /\ n \in 1 .. N /\ ~(n <= n - 1) /\ n < HashSize
      BY <1>1, <2>2, <2>4, SlotsAre
    <3>2. Indexes(index[n - 1], seq, n - 1)
      BY <2>2, <3>1
    <3> DEFINE at == Nearest(hash_key[seq[n]], Vacant(index[n - 1]))
    <3>3. n \in 1 .. Len(seq)
      BY <1>1, <3>1
    <3>4. Indexes([index[n - 1] EXCEPT ![at] = n], seq, n)
      BY <3>1, <3>2, <3>3, InsertKeeps
    <3>5. Indexes(index[n], seq, n)
      BY <1>5, <3>1, <3>4
    <3> QED
      BY <2>2, <3>5
  <2> QED
    BY <2>3, <2>4
<1>7. N \in 0 .. N
  BY <1>1
<1>8. Indexes(index[N], seq, N)
  BY <1>6, <1>7
<1> QED
  BY <1>1, <1>4, <1>8

-----------------------------------------------------------------------------
(* Looking up.                                                             *)

TableOK ==
  /\ KeysOK
  /\ exact \in Seq(Route(Paths)) /\ Len(exact) <= MaxRoutes
  /\ prefix \in Seq(Route(Patterns))
  /\ g_hash = Rebuilt(exact)

LEMMA SeqFacts ==
  ASSUME NEW S, NEW seq \in Seq(S)
  PROVE  /\ Len(seq) \in Nat /\ DOMAIN seq = 1 .. Len(seq)
         /\ \A i \in DOMAIN seq : seq[i] \in S
OBVIOUS

(* A probe ends at the route, if it is there, or at an earlier one with    *)
(* its path.                                                               *)
LEMMA ProbeFinds ==
  ASSUME TableOK, NEW r \in Route(Paths)
  PROVE  LET at == g_hash[Probe(r)]
         IN  /\ at = 0 \/ (at \in DOMAIN exact /\ exact[at].path = r.path)
             /\ \A i \in DOMAIN exact : exact[i] = r => at \in 1 .. i
<1> DEFINE S == {s \in Slots : g_hash[s] = 0 \/ exact[g_hash[s]].path = r.path}
           h == hash_key[r]
           at == g_hash[Probe(r)]
<1>1. /\ Indexes(g_hash, exact, Len(exact)) /\ Len(exact) \in Nat
      /\ Len(exact) < HashSize /\ DOMAIN exact = 1 .. Len(exact)
  BY RebuiltIndexes, RouteAssumption, SeqFacts DEF TableOK
<1>2. S \in SUBSET Slots /\ S # {}
  <2>1. PICK s \in Vacant(g_hash) : TRUE
    BY <1>1, SomeAreFree
  <2>2. s \in S
    BY <2>1 DEF Vacant
  <2> QED
    BY <2>2
<1>3. h \in Slots
  BY DEF TableOK, KeysOK
<1> HIDE DEF S, h
<1>4. PICK d \in Slots :
        /\ Nearest(h, S) = (h + d) % HashSize /\ Nearest(h, S) \in S
        /\ \A i \in Slots : i < d => (h + i) % HashSize \notin S
  BY <1>2, <1>3, NearestIs
<1>5. at = g_hash[Nearest(h, S)]
  BY DEF Probe, S, h
<1> HIDE DEF at
<1>6. at = 0 \/ (at \in DOMAIN exact /\ exact[at].path = r.path)
  <2>1. g_hash \in [Slots -> 0 .. Len(exact)]
    BY <1>1 DEF Indexes
  <2>2. at \in 0 .. Len(exact)
    BY <1>2, <1>4, <1>5, <2>1
  <2>3. at = 0 \/ at \in 1 .. Len(exact)
    BY <1>1, <2>2
  <2> QED
    BY <1>1, <1>4, <1>5, <2>3 DEF S
<1>7. ASSUME NEW i \in DOMAIN exact, exact[i] = r PROVE at \in 1 .. i
  <2>1. Meets(g_hash, r, i) /\ i \in Nat /\ i # 0
    BY <1>1, <1>7 DEF Indexes
  <2>2. PICK e \in Slots :
          /\ g_hash[(h + e) % HashSize] = i
          /\ \A k \in Slots : k < e => g_hash[(h + k) % HashSize] \in 1 .. i - 1
    BY <2>1 DEF Meets, h
  <2>3. (h + e) % HashSize \in S
    BY <1>3, <1>7, <2>2, WrapAround DEF S
  <2>4. ~(e < d)
    BY <1>4, <2>3
  <2>5. CASE d < e
    <3>1. at \in 1 .. i - 1
      BY <1>4, <1>5, <2>2, <2>5
    <3> QED
      BY <2>1, <3>1
  <2>6. CASE d = e
    BY <1>4, <1>5, <2>1, <2>2, <2>6
  <2>7. d < e \/ d = e
    BY <2>4, SlotsAre
  <2> QED
    BY <2>5, <2>6, <2>7
<1> QED
  BY <1>6, <1>7 DEF at

LEMMA RouteIsPair ==
  ASSUME NEW P, NEW q \in Route(P), NEW r \in Route(P),
         q.method = r.method, q.path = r.path
  PROVE  q = r
BY DEF Route

LEMMA KindsDiffer ==
  /\ None \notin Route(Paths) /\ None \notin Route(Patterns)
  /\ \A r \in Route(Patterns) : r \notin Route(Paths)
BY RouteAssumption DEF Route

LEMMA TableIsSeen == TableOK => RoutesAreSeen
<1> SUFFICES ASSUME TableOK, NEW r \in Route(Paths)
    PROVE  /\ \A i \in DOMAIN exact : exact[i] = r =>
                \/ Find(r) = Hit(r)
                \/ /\ Find(r) = Refusal(Allow(exact, r.path))
                   /\ \E j \in 1 .. i - 1 : exact[j].path = r.path
           /\ r \notin Range(exact) =>
                \/ Find(r) = FindPrefix(r)
                \/ /\ Find(r) = Refusal(Allow(exact, r.path))
                   /\ Allow(exact, r.path) # {}
  BY DEF RoutesAreSeen
<1> DEFINE at == g_hash[Probe(r)]
<1>1. /\ at = 0 \/ (at \in DOMAIN exact /\ exact[at].path = r.path)
      /\ \A i \in DOMAIN exact : exact[i] = r => at \in 1 .. i
  BY ProbeFinds
<1>2. Find(r) = IF at = 0 THEN FindPrefix(r)
                ELSE IF exact[at].method = r.method THEN Hit(exact[at])
                ELSE Refusal(Allow(exact, r.path))
  BY DEF Find
<1>3. DOMAIN exact = 1 .. Len(exact) /\ Len(exact) \in Nat
  BY SeqFacts DEF TableOK
<1> HIDE DEF at
<1>4. CASE at = 0
  <2>1. ~ \E i \in DOMAIN exact : exact[i] = r
    BY <1>1, <1>4
  <2> QED
    BY <1>2, <1>4, <2>1
<1>5. CASE at # 0 /\ exact[at].method = r.method
  <2>1. at \in DOMAIN exact /\ exact[at] = r
    BY <1>1, <1>5, RouteIsPair, SeqFacts DEF TableOK
  <2>2. r \in Range(exact)
    BY <2>1 DEF Range
  <2> QED
    BY <1>2, <1>5, <2>1, <2>2
<1>6. CASE at # 0 /\ exact[at].method # r.method
  <2>1. at \in DOMAIN exact /\ exact[at].path = r.path
    BY <1>1, <1>6
  <2>2. Find(r) = Refusal(Allow(exact, r.path)) /\ Allow(exact, r.path) # {}
    BY <1>2, <1>6, <2>1 DEF Allow
  <2>3. ASSUME NEW i \in DOMAIN exact, exact[i] = r
        PROVE  at \in 1 .. i - 1
    <3>1. at \in 1 .. i /\ at # i /\ i \in Nat
      BY <1>1, <1>3, <1>6, <2>3
    <3> QED
      BY <3>1
  <2> QED
    BY <2>1, <2>2, <2>3
<1> QED
  BY <1>4, <1>5, <1>6

-----------------------------------------------------------------------------
(* The invariant of the servers.                                           *)

Labels == {"none", "recv", "table", "fill", "find", "save", "redirect",
           "print", "restore", "read", "body", "direct", "build", "send",
           "close", "done"}

(* A thread that has looked its route up.                                  *)
Looked == {"save", "redirect", "print", "restore", "read", "body", "direct",
           "build", "send"}

Texts == Conns \cup {Console, None}
Descriptors == Conns \cup {Console, Broken, None}
Hits == [route : Route(Paths) \cup Route(Patterns) \cup {None}, status : Nat]

Types ==
  /\ pc \in [Conns -> Labels]
  /\ req \in [Conns -> Requests \cup {None}]
  /\ hit \in [Conns -> Hits \cup {None}]
  /\ turn \in [Conns -> 0 .. Len(DefaultTable)]
  /\ stdout \in Descriptors /\ saved \in [Conns -> Descriptors]
  /\ lines \in SUBSET Texts /\ pipe \in [Conns -> SUBSET Texts]
  /\ g_compare_ctx \in Conns \cup {None}

(* What a thread is at says how far the table is.                          *)
Control ==
  /\ main = "config" =>
       /\ \A c \in Conns : pc[c] = "none" /\ turn[c] = 0
       /\ default_rt = "unused" /\ undisturbed = None
  /\ Gone => \A c \in Conns : pc[c] = "none"
  /\ default_rt \in {"unused", "empty", "ready"}
  /\ \A c \in Conns :
       /\ turn[c] # 0 => pc[c] = "fill" \/ Gone
       /\ Busy(c) => req[c] \in Requests
       /\ default_rt = "empty" => pc[c] \notin Looked \cup {"find"}
       /\ pc[c] = "find" => default_rt = "ready"
       /\ pc[c] \in Looked => hit[c] \in Hits
       /\ pc[c] \in Captured \cup {"save"} => hit[c].status = 200

(* The first n routes of the default table are in the table.               *)
Filled(n) ==
  /\ Len(exact) <= n /\ Len(prefix) <= n
  /\ Range(exact) = {DefaultTable[i].route :
                       i \in {j \in 1 .. n : DefaultTable[j].match = "exact"}}
  /\ Range(prefix) = {DefaultTable[i].route :
                        i \in {j \in 1 .. n : DefaultTable[j].match = "prefix"}}

(* One thread fills the default table, unless two did at the same time.    *)
FillInv ==
  "fill" \notin raced =>
    /\ default_rt = "ready" => Filled(Len(DefaultTable))
    /\ \A c \in Conns : pc[c] = "fill" =>
         /\ default_rt = "empty"
         /\ turn[c] # 0 => Filled(turn[c] - 1)
         /\ turn[c] # 0 => \A d \in Conns \ {c} : pc[d] = "fill" => turn[d] = 0

(* The page of the route that was found may answer the request.            *)
IsRouteOf(q, route) ==
  \/ route = q.route
  \/ /\ q.route \notin GivenTo("exact")
     /\ route \in GivenTo("prefix")
     /\ route.method = q.route.method
     /\ q.route.path \in Covered[route.path]

Unknown(q) ==
  /\ q.route \notin GivenTo("exact")
  /\ \A r \in GivenTo("prefix") : q.route.path \notin Covered[r.path]

IsHitOf(q, h) ==
  /\ h.route # None => /\ IsRouteOf(q, h.route)
                       /\ h.status = Authorized(q, RequiredFor(h.route))
                       /\ h.status # 404
  /\ h.route = None => h.status \in {404, 405}
  /\ h.status = 404 => Unknown(q)

HitInv ==
  "fill" \notin raced =>
    \A c \in Conns : pc[c] \in Looked => IsHitOf(req[c], hit[c])

(* Only a thread that captures has text in its pipe, or a descriptor of it.*)
PipeInv ==
  ~buffered =>
    /\ lines = {}
    /\ \A c \in Conns : pc[c] \notin {"print", "restore", "read"} =>
         pipe[c] = {} /\ ~HasWriter(c)

(* What the thread has that nobody disturbed.                              *)
Own(c) ==
  /\ Busy(c) /\ req[c].host # None =>
       g_current_root = RootFor(req[c].host, g_current_root)
  /\ pc[c] \in {"redirect", "print"} => g_compare_ctx = c
  /\ pc[c] = "print" => stdout = c /\ pipe[c] = {}
  /\ pc[c] \in {"restore", "read"} => pipe[c] = {c}
  /\ pc[c] = "build" => IsAnswerTo(c, req[c], g_body_buf)
  /\ pc[c] = "send" => IsAnswerTo(c, req[c], resp_buf)

Fair(c) == undisturbed = c /\ "fill" \notin raced /\ ~buffered
OwnInv == \A c \in Conns : Fair(c) => Own(c)

IInv ==
  /\ Types /\ TableOK /\ Control
  /\ FillInv /\ HitInv /\ PipeInv /\ OwnInv

LEMMA NamesDiffer ==
  /\ None \notin Conns /\ Console \notin Conns /\ Broken \notin Conns
  /\ None \notin Requests
BY HandlerAssumption

LEMMA EmptyIsBuilt ==
  ASSUME KeysOK
  PROVE  Rebuilt(<<>>) = Empty /\ <<>> \in Seq(Route(Paths))
         /\ Len(<<>>) <= MaxRoutes
<1>1. <<>> \in Seq(Route(Paths)) /\ Len(<<>>) = 0 /\ 0 <= MaxRoutes
  BY RouteAssumption
<1>2. Indexes(Rebuilt(<<>>), <<>>, 0)
  BY <1>1, RebuiltIndexes
<1>3. Rebuilt(<<>>) \in [Slots -> 0 .. 0]
  BY <1>2 DEF Indexes
<1> QED
  BY <1>1, <1>3 DEF Empty

LEMMA InitOK == ServerInit => IInv
<1> SUFFICES ASSUME ServerInit PROVE IInv
  OBVIOUS
<1> USE DEF ServerInit, Init, HandlerInit
<1>1. Types
  <2>1. 0 \in 0 .. Len(DefaultTable)
    BY HandlerAssumption, SeqFacts
  <2> QED
    BY <2>1 DEF Types, Labels, Texts, Descriptors
<1>2. TableOK
  <2>1. KeysOK
    BY DEF KeysOK
  <2> QED
    BY <2>1, EmptyIsBuilt DEF TableOK
<1>3. Control
  BY DEF Control, Gone, Busy, Looked, Captured
<1>4. FillInv /\ HitInv
  BY DEF FillInv, HitInv, Looked
<1>5. PipeInv
  BY NamesDiffer DEF PipeInv, HasWriter
<1>6. OwnInv
  BY NamesDiffer DEF OwnInv, Fair
<1> QED
  BY <1>1, <1>2, <1>3, <1>4, <1>5, <1>6 DEF IInv

-----------------------------------------------------------------------------
(* Looking a request up.                                                   *)

LEMMA AuthorizedIs ==
  ASSUME NEW q, NEW required
  PROVE  Authorized(q, required) \in {200, 302, 400, 401, 403}
BY DEF Authorized

LEMMA RangeIs ==
  ASSUME NEW S, NEW seq \in Seq(S)
  PROVE  /\ \A i \in DOMAIN seq : seq[i] \in Range(seq)
         /\ \A r : r \in Range(seq) <=> \E i \in DOMAIN seq : seq[i] = r
BY DEF Range

(* What the look-up says of each request.                                  *)
LEMMA FindIsOf ==
  ASSUME TableOK, NEW r \in Route(Paths)
  PROVE  LET found == Find(r)
         IN  /\ found.entry \in Route(Paths) \cup Route(Patterns) \cup {None}
             /\ found.entry # None =>
                  \/ found.entry = r
                  \/ /\ r \notin Range(exact) /\ found.entry \in Range(prefix)
                     /\ found.entry.method = r.method
                     /\ r.path \in Covered[found.entry.path]
             /\ found.entry = None /\ found.allow = {} =>
                  /\ r \notin Range(exact)
                  /\ \A p \in Range(prefix) : r.path \notin Covered[p.path]
<1> DEFINE at == g_hash[Probe(r)]
           found == Find(r)
<1>1. /\ at = 0 \/ (at \in DOMAIN exact /\ exact[at].path = r.path)
      /\ \A i \in DOMAIN exact : exact[i] = r => at \in 1 .. i
  BY ProbeFinds
<1>2. found = IF at = 0 THEN FindPrefix(r)
              ELSE IF exact[at].method = r.method THEN Hit(exact[at])
              ELSE Refusal(Allow(exact, r.path))
  BY DEF Find
<1> HIDE DEF at, found
<1>3. CASE at = 0
  <2> DEFINE covering == {i \in DOMAIN prefix : r.path \in Covered[prefix[i].path]}
             right == {i \in covering : prefix[i].method = r.method}
  <2>1. r \notin Range(exact)
    BY <1>1, <1>3, RangeIs DEF TableOK
  <2>2. /\ DOMAIN prefix \subseteq Nat
        /\ \A i \in DOMAIN prefix : prefix[i] \in Route(Patterns)
    BY SeqFacts DEF TableOK
  <2>3. found = IF right # {} THEN Hit(prefix[Min(right)])
                ELSE IF covering # {}
                THEN Refusal(Allow(prefix, prefix[Min(covering)].path))
                ELSE Refusal({})
    BY <1>2, <1>3 DEF FindPrefix
  <2>4. CASE right # {}
    <3>1. right \in SUBSET Nat
      BY <2>2
    <3>2. Min(right) \in right
      BY <2>4, <3>1, MinOfNaturals
    <3>3. found.entry = prefix[Min(right)]
      BY <2>3, <2>4 DEF Hit
    <3>4. /\ found.entry \in Range(prefix) /\ found.entry \in Route(Patterns)
          /\ found.entry.method = r.method
          /\ r.path \in Covered[found.entry.path]
      BY <2>2, <3>2, <3>3, RangeIs DEF TableOK
    <3> QED
      BY <2>1, <3>4, KindsDiffer DEF found
  <2>5. CASE right = {} /\ covering # {}
    <3>1. covering \in SUBSET Nat
      BY <2>2
    <3>2. Min(covering) \in covering
      BY <2>5, <3>1, MinOfNaturals
    <3> DEFINE m == Min(covering)
    <3>3. prefix[m].method \in Allow(prefix, prefix[m].path)
      BY <3>2 DEF Allow
    <3>4. found.entry = None /\ found.allow # {}
      BY <2>3, <2>5, <3>3 DEF Refusal
    <3> QED
      BY <3>4 DEF found
  <2>6. CASE right = {} /\ covering = {}
    <3>1. found.entry = None
      BY <2>3, <2>6 DEF Refusal
    <3>2. \A p \in Range(prefix) : r.path \notin Covered[p.path]
      BY <2>6, RangeIs DEF TableOK
    <3> QED
      BY <2>1, <3>1, <3>2 DEF found
  <2> QED
    BY <2>4, <2>5, <2>6
<1>4. CASE at # 0 /\ exact[at].method = r.method
  <2>1. exact[at] = r
    BY <1>1, <1>4, RouteIsPair, SeqFacts DEF TableOK
  <2>2. found.entry = r
    BY <1>2, <1>4, <2>1 DEF Hit
  <2> QED
    BY <2>2, KindsDiffer DEF found
<1>5. CASE at # 0 /\ exact[at].method # r.method
  <2>1. exact[at].method \in Allow(exact, r.path)
    BY <1>1, <1>5 DEF Allow
  <2>2. found.entry = None /\ found.allow # {}
    BY <1>2, <1>5, <2>1 DEF Refusal
  <2> QED
    BY <2>2 DEF found
<1> QED
  BY <1>3, <1>4, <1>5

LEMMA DefaultIs ==
  ASSUME NEW n \in 1 .. Len(DefaultTable)
  PROVE  /\ DefaultTable[n].match = "exact" => DefaultTable[n].route \in Route(Paths)
         /\ DefaultTable[n].match # "exact" =>
              /\ DefaultTable[n].match = "prefix"
              /\ DefaultTable[n].route \in Route(Patterns)
BY HandlerAssumption, SeqFacts

(* What a look-up can find in the table.                                   *)
LEMMA FindingsAre ==
  ASSUME IInv, NEW q \in Requests, NEW found \in Findings(q.route)
  PROVE  /\ found.entry \in Route(Paths) \cup Route(Patterns) \cup {None}
         /\ "fill" \notin raced => found = Find(q.route)
<1>1. q.route \in Route(Paths) /\ TableOK
  BY HandlerAssumption DEF IInv
<1>2. CASE found = Find(q.route)
  BY <1>1, <1>2, FindIsOf
<1>3. CASE "fill" \in raced
  <2>1. CASE \E i \in DOMAIN DefaultTable : found = Hit(DefaultTable[i].route)
    <3>1. PICK i \in DOMAIN DefaultTable : found = Hit(DefaultTable[i].route)
      BY <2>1
    <3>2. i \in 1 .. Len(DefaultTable)
      BY HandlerAssumption, SeqFacts
    <3>3. found.entry = DefaultTable[i].route
      BY <3>1 DEF Hit
    <3> QED
      BY <1>3, <3>2, <3>3, DefaultIs
  <2>2. CASE \E methods \in SUBSET Methods : found = Refusal(methods)
    BY <1>3, <2>2 DEF Refusal
  <2> QED
    BY <1>3, <2>1, <2>2 DEF Findings
<1> QED
  BY <1>2, <1>3 DEF Findings

LEMMA LookupFinds ==
  ASSUME IInv, NEW q \in Requests, NEW found \in Findings(q.route)
  PROVE  LET h == [route |-> found.entry, status |-> StatusOf(q, found)]
         IN  /\ h \in Hits
             /\ "fill" \notin raced /\ default_rt \in {"unused", "ready"}
                  => IsHitOf(q, h)
<1> DEFINE h == [route |-> found.entry, status |-> StatusOf(q, found)]
<1>1. q.route \in Route(Paths) /\ TableOK
  BY HandlerAssumption DEF IInv
<1>2. StatusOf(q, found) = IF found.entry # None
                           THEN Authorized(q, RequiredFor(found.entry))
                           ELSE IF found.allow # {} THEN 405 ELSE 404
  BY DEF StatusOf
<1>3. Authorized(q, RequiredFor(found.entry)) \in {200, 302, 400, 401, 403}
  BY AuthorizedIs
<1>4. StatusOf(q, found) \in Nat /\ h \in Hits
  BY <1>2, <1>3, FindingsAre DEF Hits
<1>5. ASSUME "fill" \notin raced, default_rt \in {"unused", "ready"}
      PROVE  IsHitOf(q, h)
  <2>1. found = Find(q.route)
    BY <1>5, FindingsAre
  <2>2. /\ found.entry # None =>
             \/ found.entry = q.route
             \/ /\ q.route \notin Range(exact) /\ found.entry \in Range(prefix)
                /\ found.entry.method = q.route.method
                /\ q.route.path \in Covered[found.entry.path]
        /\ found.entry = None /\ found.allow = {} =>
             /\ q.route \notin Range(exact)
             /\ \A p \in Range(prefix) : q.route.path \notin Covered[p.path]
    BY <1>1, <2>1, FindIsOf
  <2>3. GivenTo("exact") = Range(exact) /\ GivenTo("prefix") = Range(prefix)
    <3>1. CASE default_rt = "unused"
      BY <3>1 DEF GivenTo
    <3>2. CASE default_rt = "ready"
      <4>1. Filled(Len(DefaultTable))
        BY <1>5, <3>2 DEF IInv, FillInv
      <4>2. DOMAIN DefaultTable = 1 .. Len(DefaultTable)
        BY HandlerAssumption, SeqFacts
      <4> QED
        BY <3>2, <4>1, <4>2 DEF GivenTo, Filled
    <3> QED
      BY <1>5, <3>1, <3>2
  <2>4. h.route = found.entry /\ h.status = StatusOf(q, found)
    OBVIOUS
  <2> HIDE DEF h
  <2>5. h.route # None => /\ IsRouteOf(q, h.route)
                          /\ h.status = Authorized(q, RequiredFor(h.route))
                          /\ h.status # 404
    BY <1>2, <1>3, <2>2, <2>3, <2>4 DEF IsRouteOf
  <2>6. h.route = None => h.status \in {404, 405}
    BY <1>2, <2>4
  <2>7. h.status = 404 => Unknown(q)
    BY <1>2, <1>3, <2>2, <2>3, <2>4 DEF Unknown
  <2> QED
    BY <2>5, <2>6, <2>7 DEF IsHitOf
<1> QED
  BY <1>4, <1>5

-----------------------------------------------------------------------------
(* Answers depend on the tables, on nothing else.                          *)

Given == <<exact, prefix, default_rt, g_servers>>

LEMMA RootSame ==
  ASSUME UNCHANGED g_servers, NEW host, NEW root
  PROVE  RootFor(host, root)' = RootFor(host, root)
BY DEF RootFor, FindServer

LEMMA GivenSame ==
  ASSUME UNCHANGED Given
  PROVE  /\ \A match : GivenTo(match)' = GivenTo(match)
         /\ \A route : RequiredFor(route)' = RequiredFor(route)
BY DEF Given, GivenTo, RequiredFor

LEMMA BodySame ==
  ASSUME UNCHANGED Given, NEW c, NEW q, NEW page, IsAnswerTo(c, q, page),
         req'[c] = q, g_body_buf' = page
  PROVE  IsAnswerTo(c, req[c], g_body_buf)'
<1>1. UNCHANGED g_servers
  BY DEF Given
<1>2. RootFor(q.host, page.root)' = RootFor(q.host, page.root)
  BY <1>1, RootSame
<1> QED
  BY <1>2, GivenSame DEF IsAnswerTo

LEMMA ResponseSame ==
  ASSUME UNCHANGED Given, NEW c, NEW q, NEW page, IsAnswerTo(c, q, page),
         req'[c] = q, resp_buf' = page
  PROVE  IsAnswerTo(c, req[c], resp_buf)'
<1>1. UNCHANGED g_servers
  BY DEF Given
<1>2. RootFor(q.host, page.root)' = RootFor(q.host, page.root)
  BY <1>1, RootSame
<1> QED
  BY <1>2, GivenSame DEF IsAnswerTo

LEMMA HitSame ==
  ASSUME UNCHANGED Given, NEW c, NEW q, NEW h, IsHitOf(q, h),
         req'[c] = q, hit'[c] = h
  PROVE  IsHitOf(req[c], hit[c])'
BY GivenSame DEF IsHitOf, IsRouteOf, Unknown

-----------------------------------------------------------------------------
(* What a step that leaves most of the state alone keeps.                  *)

LEMMA FillKeeps ==
  ASSUME FillInv, UNCHANGED <<exact, prefix, default_rt, turn>>,
         "fill" \notin raced' => "fill" \notin raced,
         \A c \in Conns : pc'[c] = "fill" =>
           pc[c] = "fill" \/ (default_rt = "empty" /\ turn[c] = 0)
  PROVE  FillInv'
BY DEF FillInv, Filled

LEMMA HitKeeps ==
  ASSUME HitInv, UNCHANGED Given,
         "fill" \notin raced' => "fill" \notin raced,
         \A c \in Conns : pc'[c] \in Looked =>
           pc[c] \in Looked /\ req'[c] = req[c] /\ hit'[c] = hit[c]
  PROVE  HitInv'
<1> SUFFICES ASSUME "fill" \notin raced', NEW c \in Conns, pc'[c] \in Looked
             PROVE  IsHitOf(req[c], hit[c])'
  BY DEF HitInv, Looked
<1>1. IsHitOf(req[c], hit[c])
  BY DEF HitInv
<1> QED
  BY <1>1, HitSame

LEMMA PipeKeeps ==
  ASSUME PipeInv, UNCHANGED <<buffered, output>>,
         \A c \in Conns : pc[c] \in {"print", "restore", "read"} => pc'[c] = pc[c]
  PROVE  PipeInv'
BY DEF PipeInv, HasWriter, output

OwnVars == <<undisturbed, buffered, g_current_root, g_compare_ctx, stdout, pipe,
             g_body_buf, resp_buf, Given>>

LEMMA RootKeeps ==
  ASSUME UNCHANGED g_servers, NEW c, NEW q, NEW root, req'[c] = q,
         g_current_root' = root, q.host # None => root = RootFor(q.host, root)
  PROVE  (req[c].host # None =>
            g_current_root = RootFor(req[c].host, g_current_root))'
BY RootSame

LEMMA OwnKeeps ==
  ASSUME OwnInv, UNCHANGED <<OwnVars, req>>, raced \subseteq raced',
         \A c \in Conns : pc'[c] = pc[c] \/ pc'[c] \in {"none", "recv", "close", "done"}
  PROVE  OwnInv'
<1> SUFFICES ASSUME NEW c \in Conns, Fair(c)' PROVE Own(c)'
  BY DEF OwnInv
<1>1. Own(c)
  BY DEF OwnInv, Fair, OwnVars
<1>2. UNCHANGED <<g_servers, Given>>
  BY DEF OwnVars, Given
<1>3. ASSUME Busy(c)'
      PROVE  (req[c].host # None =>
                g_current_root = RootFor(req[c].host, g_current_root))'
  <2>1. Busy(c)
    BY <1>3 DEF Busy
  <2> QED
    BY <1>1, <1>2, <2>1, RootKeeps DEF Own, OwnVars
<1>4. pc'[c] = "build" => IsAnswerTo(c, req[c], g_body_buf)'
  BY <1>1, <1>2, BodySame DEF Own, OwnVars
<1>5. pc'[c] = "send" => IsAnswerTo(c, req[c], resp_buf)'
  BY <1>1, <1>2, ResponseSame DEF Own, OwnVars
<1> QED
  BY <1>1, <1>3, <1>4, <1>5 DEF Own, OwnVars

(* A step of thread c: only c may be undisturbed after it.                 *)
LEMMA OwnActs ==
  ASSUME OwnInv, NEW c \in Conns, Acts(c), UNCHANGED buffered,
         raced \subseteq raced',
         (/\ ~buffered /\ "fill" \notin raced'
          /\ pc[c] = "recv" \/ Own(c)) => Own(c)'
  PROVE  OwnInv'
<1> SUFFICES ASSUME NEW d \in Conns, Fair(d)' PROVE Own(d)'
  BY DEF OwnInv
<1>1. d = c
  BY NamesDiffer DEF Fair, Acts
<1>2. pc[c] = "recv" \/ Fair(c)
  BY <1>1, NamesDiffer DEF Fair, Acts
<1> QED
  BY <1>1, <1>2 DEF OwnInv, Fair

(* A step of thread c that leaves the table and the main thread alone.     *)
Moves(c, label) ==
  /\ Goto(c, label) /\ Acts(c) /\ UNCHANGED <<fixed, default_table, turn, main>>
  /\ raced \subseteq raced' /\ ("fill" \in raced' => "fill" \in raced)
  /\ \A d \in Conns \ {c} : req'[d] = req[d] /\ hit'[d] = hit[d]
  /\ req' \in [Conns -> Requests \cup {None}]
  /\ hit' \in [Conns -> Hits \cup {None}]

OutputTyped ==
  /\ stdout \in Descriptors /\ saved \in [Conns -> Descriptors]
  /\ lines \in SUBSET Texts /\ pipe \in [Conns -> SUBSET Texts]
  /\ g_compare_ctx \in Conns \cup {None}

Idle == {"none", "recv", "close", "done"}

LEMMA TableKeeps ==
  ASSUME TableOK, UNCHANGED <<hash_key, exact, prefix, g_hash>>
  PROVE  TableOK'
<1>1. ASSUME NEW seq PROVE Rebuilt(seq)' = Rebuilt(seq)
  BY DEF Rebuilt
<1>2. Rebuilt(exact)' = Rebuilt(exact)
  BY <1>1
<1> QED
  BY <1>2 DEF TableOK, KeysOK

LEMMA MovesKeep ==
  ASSUME IInv, NEW c \in Conns, NEW label \in Labels \ {"find"},
         Moves(c, label), OutputTyped',
         pc[c] # "none", pc[c] # "fill",
         label \notin Idle => req'[c] \in Requests,
         label = "fill" => default_rt = "empty",
         label \in Looked =>
           \/ /\ pc[c] \in Looked /\ label # "save"
              /\ req'[c] = req[c] /\ hit'[c] = hit[c]
           \/ /\ default_rt # "empty" /\ hit'[c] \in Hits
              /\ label \in Captured \cup {"save"} => hit'[c].status = 200
              /\ "fill" \notin raced =>
                   \E q, h : IsHitOf(q, h) /\ req'[c] = q /\ hit'[c] = h,
         label \in Captured => pc[c] \in Captured \cup {"save"}
                               /\ hit'[c] = hit[c]
  PROVE  Types' /\ TableOK' /\ Control' /\ FillInv' /\ HitInv'
<1>1. /\ pc' = [pc EXCEPT ![c] = label] /\ pc \in [Conns -> Labels]
      /\ UNCHANGED <<vars, Given, default_rt, turn, main, buffered>>
      /\ UNCHANGED <<hash_key, exact, prefix, g_hash>>
  BY DEF Moves, Goto, fixed, default_table, vars, Given, IInv, Types
<1>2. pc' \in [Conns -> Labels] /\ pc'[c] = label
      /\ \A d \in Conns \ {c} : pc'[d] = pc[d]
  BY <1>1
<1>3. /\ ~Gone /\ main # "config" /\ turn[c] = 0
      /\ turn \in [Conns -> 0 .. Len(DefaultTable)]
  BY DEF IInv, Control, Types
<1>4. Types'
  BY <1>1, <1>2, <1>3 DEF Types, Moves, OutputTyped
<1>5. TableOK'
  BY <1>1, TableKeeps DEF IInv
<1>6. Control'
  <2>1. \A d \in Conns \ {c} :
          /\ turn'[d] # 0 => pc'[d] = "fill" \/ Gone'
          /\ Busy(d)' => req'[d] \in Requests
          /\ default_rt' = "empty" => pc'[d] \notin Looked \cup {"find"}
          /\ pc'[d] = "find" => default_rt' = "ready"
          /\ pc'[d] \in Looked => hit'[d] \in Hits
          /\ pc'[d] \in Captured \cup {"save"} => hit'[d].status = 200
    BY <1>1, <1>2, <1>3 DEF IInv, Control, Busy, Moves
  <2>2. /\ turn'[c] # 0 => pc'[c] = "fill" \/ Gone'
        /\ Busy(c)' => req'[c] \in Requests
        /\ pc'[c] = "find" => default_rt' = "ready"
    BY <1>1, <1>2, <1>3 DEF Busy, Idle
  <2>3. /\ default_rt' = "empty" => pc'[c] \notin Looked \cup {"find"}
        /\ pc'[c] \in Looked => hit'[c] \in Hits
        /\ pc'[c] \in Captured \cup {"save"} => hit'[c].status = 200
    <3>1. CASE label \notin Looked
      BY <1>2, <3>1 DEF Looked, Captured
    <3>2. CASE /\ label \in Looked /\ pc[c] \in Looked /\ label # "save"
               /\ req'[c] = req[c] /\ hit'[c] = hit[c]
      <4>1. default_rt # "empty" /\ hit[c] \in Hits
        BY <3>2 DEF IInv, Control
      <4>2. label \in Captured \cup {"save"} => hit[c].status = 200
        BY <3>2 DEF IInv, Control, Moves
      <4> QED
        BY <1>1, <1>2, <3>2, <4>1, <4>2
    <3>3. CASE label \in Looked /\ default_rt # "empty" /\ hit'[c] \in Hits
               /\ (label \in Captured \cup {"save"} => hit'[c].status = 200)
      BY <1>1, <1>2, <3>3
    <3> QED
      BY <3>1, <3>2, <3>3
  <2>4. main' # "config" /\ ~Gone' /\ default_rt' \in {"unused", "empty", "ready"}
    BY <1>1, <1>3 DEF Gone, IInv, Control
  <2> QED
    BY <2>1, <2>2, <2>3, <2>4 DEF Control
<1>7. FillInv'
  <2>1. \A d \in Conns : pc'[d] = "fill" =>
          pc[d] = "fill" \/ (default_rt = "empty" /\ turn[d] = 0)
    BY <1>2, <1>3
  <2>2. "fill" \notin raced' => "fill" \notin raced
    BY DEF Moves
  <2> QED
    BY <1>1, <2>1, <2>2, FillKeeps DEF IInv
<1>8. HitInv'
  <2> SUFFICES ASSUME "fill" \notin raced', NEW d \in Conns, pc'[d] \in Looked
               PROVE  IsHitOf(req[d], hit[d])'
    BY DEF HitInv, Looked
  <2>1. "fill" \notin raced
    BY DEF Moves
  <2>2. ASSUME pc[d] \in Looked, req'[d] = req[d], hit'[d] = hit[d]
        PROVE  IsHitOf(req[d], hit[d])'
    <3>1. IsHitOf(req[d], hit[d])
      BY <2>1, <2>2 DEF IInv, HitInv
    <3> QED
      BY <1>1, <2>2, <3>1, HitSame
  <2>3. CASE d # c
    BY <1>2, <2>2, <2>3 DEF Moves
  <2>4. CASE d = c
    <3>1. CASE \E q, h : IsHitOf(q, h) /\ req'[c] = q /\ hit'[c] = h
      BY <1>1, <2>4, <3>1, HitSame
    <3> QED
      BY <1>2, <2>1, <2>2, <2>4, <3>1
  <2> QED
    BY <2>3, <2>4
<1> QED
  BY <1>4, <1>5, <1>6, <1>7, <1>8

(* The types as they are needed step by step.                              *)
LEMMA TypesAre ==
  ASSUME IInv
  PROVE  /\ pc \in [Conns -> Labels] /\ OutputTyped
         /\ req \in [Conns -> Requests \cup {None}]
         /\ hit \in [Conns -> Hits \cup {None}]
BY DEF IInv, Types, OutputTyped

(* A step that leaves requests and standard output alone, too.             *)
LEMMA QuietKeeps ==
  ASSUME IInv, NEW c \in Conns, NEW label \in Labels \ {"find"},
         Goto(c, label), Acts(c),
         UNCHANGED <<fixed, default_table, turn, main, raced, req, hit, output,
                     g_compare_ctx>>,
         pc[c] \notin {"none", "fill", "print", "restore", "read"},
         label \notin Idle => req[c] \in Requests,
         label = "fill" => default_rt = "empty",
         label \in Looked => pc[c] \in Looked /\ label \notin Captured \cup {"save"}
  PROVE  Types' /\ TableOK' /\ Control' /\ FillInv' /\ HitInv' /\ PipeInv'
<1>1. Moves(c, label)
  BY TypesAre DEF Moves
<1>2. OutputTyped'
  BY TypesAre DEF OutputTyped, output
<1>3. Types' /\ TableOK' /\ Control' /\ FillInv' /\ HitInv'
  BY <1>1, <1>2, MovesKeep DEF Looked, Captured
<1>4. PipeInv'
  <2>1. \A d \in Conns : pc[d] \in {"print", "restore", "read"} => pc'[d] = pc[d]
    BY TypesAre DEF Goto
  <2>2. UNCHANGED <<buffered, output>>
    BY DEF fixed
  <2> QED
    BY <2>1, <2>2, PipeKeeps DEF IInv
<1> QED
  BY <1>3, <1>4

LEMMA RootIsRoot ==
  ASSUME NEW host, NEW root
  PROVE  RootFor(host, root) = RootFor(host, RootFor(host, root))
BY DEF RootFor

LEMMA ReceiveOK ==
  ASSUME IInv, NEW c \in Conns, Receive(c), UNCHANGED main_vars
  PROVE  IInv'
<1> DEFINE q == inbox[c]
<1>1. q \in Requests /\ req' = [req EXCEPT ![c] = q] /\ pc[c] = "recv"
      /\ Goto(c, "table") /\ Acts(c)
      /\ g_current_root' = RootFor(q.host, g_current_root)
      /\ UNCHANGED <<fixed, default_table, turn, main, raced, hit, output,
                     g_compare_ctx, buffered, g_servers>>
  BY DEF Receive, main_vars, fixed
<1> HIDE DEF q
<1>2. pc'[c] = "table" /\ req'[c] = q
  BY <1>1, TypesAre DEF Goto
<1>3. Moves(c, "table")
  BY <1>1, TypesAre DEF Moves
<1>4. OutputTyped'
  BY <1>1, TypesAre DEF OutputTyped, output
<1>5. Types' /\ TableOK' /\ Control' /\ FillInv' /\ HitInv'
  BY <1>1, <1>2, <1>3, <1>4, MovesKeep DEF Looked, Captured, Labels
<1>6. PipeInv'
  BY <1>1, PipeKeeps, TypesAre DEF IInv, Goto
<1>7. OwnInv'
  <2>1. (req[c].host # None =>
           g_current_root = RootFor(req[c].host, g_current_root))'
    BY <1>1, <1>2, RootIsRoot, RootKeeps
  <2>2. Own(c)'
    BY <1>2, <2>1 DEF Own
  <2> QED
    BY <1>1, <2>2, OwnActs DEF IInv
<1> QED
  BY <1>5, <1>6, <1>7 DEF IInv

LEMMA ReceiveMalformedOK ==
  ASSUME IInv, NEW c \in Conns, ReceiveMalformed(c), UNCHANGED main_vars
  PROVE  IInv'
<1>1. pc[c] = "recv" /\ Goto(c, "close") /\ Acts(c)
      /\ UNCHANGED <<fixed, default_table, turn, main, raced, req, hit, output,
                     g_compare_ctx, buffered>>
  BY DEF ReceiveMalformed, main_vars, fixed
<1>2. pc'[c] = "close"
  BY <1>1, TypesAre DEF Goto
<1>3. Types' /\ TableOK' /\ Control' /\ FillInv' /\ HitInv' /\ PipeInv'
  BY <1>1, QuietKeeps DEF Labels, Looked, Idle
<1>4. Own(c)'
  BY <1>2 DEF Own, Busy
<1>5. OwnInv'
  BY <1>1, <1>4, OwnActs DEF IInv
<1> QED
  BY <1>3, <1>5 DEF IInv

(* Steps that touch no request: some threads leave their loop.             *)
Runs == {"accept", "handle", "leave", "return"}
Rests == {"config", "exit", "failed", "killed"}

LEMMA RestsKeep ==
  ASSUME IInv, UNCHANGED <<vars, statics, turn, default_rt, raced, req, hit,
                           output, g_servers, buffered, undisturbed>>,
         pc' \in [Conns -> Labels],
         \A d \in Conns : \/ pc'[d] = pc[d]
                          \/ pc[d] \in {"recv", "close"} /\ pc'[d] \in {"close", "done"},
         main' = main \/ (main \notin Rests /\ main' \in Runs)
  PROVE  IInv'
<1>1. UNCHANGED <<hash_key, exact, prefix, g_hash, Given, stdout, saved, lines,
                  pipe, g_compare_ctx, g_current_root, g_body_buf, resp_buf>>
  BY DEF vars, statics, output, Given
<1>2. Types'
  BY <1>1 DEF IInv, Types
<1>3. TableOK'
  BY <1>1, TableKeeps DEF IInv
<1>4. Control'
  <2>1. main' = "config" => main = "config"
    BY DEF Runs, Rests
  <2>2. Gone' => Gone
    BY DEF Runs, Rests, Gone
  <2>3. Gone => Gone'
    BY DEF Runs, Rests, Gone
  <2>4. \A d \in Conns : Busy(d)' => Busy(d)
    BY DEF Busy
  <2> QED
    BY <1>1, <2>1, <2>2, <2>3, <2>4 DEF IInv, Control, Looked, Captured
<1>5. FillInv'
  BY <1>1, FillKeeps DEF IInv
<1>6. HitInv'
  BY <1>1, HitKeeps DEF IInv, Looked
<1>7. PipeInv'
  BY PipeKeeps DEF IInv
<1>8. OwnInv'
  BY <1>1, OwnKeeps DEF IInv, OwnVars
<1> QED
  BY <1>2, <1>3, <1>4, <1>5, <1>6, <1>7, <1>8 DEF IInv

LEMMA ReceiveNothingOK ==
  ASSUME IInv, NEW c \in Conns, ReceiveNothing(c), UNCHANGED main_vars
  PROVE  IInv'
<1>1. pc[c] = "recv" /\ Goto(c, "close")
      /\ UNCHANGED <<vars, statics, turn, default_rt, raced, req, hit, output,
                     g_servers, buffered, undisturbed, main>>
  BY DEF ReceiveNothing, main_vars, fixed, default_table, vars
<1>2. pc' \in [Conns -> Labels]
  BY <1>1, TypesAre DEF Goto, Labels
<1> QED
  BY <1>1, <1>2, RestsKeep, TypesAre DEF Goto

-----------------------------------------------------------------------------
(* From the look-up to the answer.                                         *)

LEMMA LookupMoves ==
  ASSUME IInv, NEW c \in Conns, pc[c] \in {"table", "find"},
         default_rt # "empty", Lookup(c), Acts(c),
         UNCHANGED <<fixed, default_table, turn, main, raced, req, output,
                     g_current_root, g_compare_ctx, resp_buf>>
  PROVE  IInv'
<1> DEFINE q == req[c]
<1>0. PICK found \in Findings(q.route) :
        /\ hit' = [hit EXCEPT ![c] = [route |-> found.entry,
                                      status |-> StatusOf(q, found)]]
        /\ Goto(c, IF StatusOf(q, found) = 200 /\ found.entry \in Capturing
                   THEN "save"
                   ELSE IF StatusOf(q, found) \in {200, 404} THEN "body"
                   ELSE "direct")
  BY DEF Lookup
<1> DEFINE h == [route |-> found.entry, status |-> StatusOf(q, found)]
<1>1. q \in Requests
  BY DEF IInv, Control, Busy
<1>2. h \in Hits /\ ("fill" \notin raced => IsHitOf(q, h))
  <2>1. default_rt \in {"unused", "ready"}
    BY DEF IInv, Control
  <2> QED
    BY <1>1, <2>1, LookupFinds
<1>3. hit' = [hit EXCEPT ![c] = h]
  BY <1>0
<1>4. PICK label \in {"save", "body", "direct"} :
        Goto(c, label) /\ (label = "save" => h.status = 200)
  BY <1>0
<1> HIDE DEF h
<1>5. hit'[c] = h /\ pc'[c] = label /\ req'[c] = q
  BY <1>3, <1>4, TypesAre DEF Goto
<1> HIDE DEF q
<1>6. Moves(c, label)
  BY <1>2, <1>3, <1>4, TypesAre DEF Moves
<1>7. OutputTyped'
  BY TypesAre DEF OutputTyped, output
<1>8. label \in Labels \ {"find"} /\ label \notin Captured
  BY DEF Labels, Captured
<1>9. "fill" \notin raced =>
        \E p, g : IsHitOf(p, g) /\ req'[c] = p /\ hit'[c] = g
  BY <1>2, <1>5
<1>10. Types' /\ TableOK' /\ Control' /\ FillInv' /\ HitInv'
  BY <1>1, <1>2, <1>4, <1>5, <1>6, <1>7, <1>8, <1>9, MovesKeep
<1>11. PipeInv'
  <2>1. UNCHANGED buffered
    BY DEF fixed
  <2> QED
    BY <1>4, <2>1, PipeKeeps, TypesAre DEF IInv, Goto
<1>12. OwnInv'
  <2>1. UNCHANGED <<g_servers, buffered>>
    BY DEF fixed
  <2>2. ASSUME Own(c) PROVE Own(c)'
    <3>1. q.host # None => g_current_root = RootFor(q.host, g_current_root)
      BY <2>2 DEF Own, Busy, q
    <3>2. (req[c].host # None =>
             g_current_root = RootFor(req[c].host, g_current_root))'
      BY <1>5, <2>1, <3>1, RootKeeps
    <3> QED
      BY <1>5, <3>2 DEF Own
  <2> QED
    BY <2>1, <2>2, OwnActs DEF IInv
<1> QED
  BY <1>10, <1>11, <1>12 DEF IInv

LEMMA DispatchOK ==
  ASSUME IInv, NEW c \in Conns, Dispatch(c), UNCHANGED main_vars
  PROVE  IInv'
<1>1. pc[c] = "table" /\ Acts(c)
      /\ UNCHANGED <<fixed, default_table, turn, main, raced, req, output,
                     g_current_root, g_compare_ctx, resp_buf, g_servers, buffered>>
  BY DEF Dispatch, main_vars, fixed
<1>2. CASE default_rt = "empty" /\ Goto(c, "fill") /\ UNCHANGED hit
  <2>1. pc'[c] = "fill" /\ req[c] \in Requests
    BY <1>1, <1>2, TypesAre DEF Goto, IInv, Control, Busy
  <2>2. Types' /\ TableOK' /\ Control' /\ FillInv' /\ HitInv' /\ PipeInv'
    BY <1>1, <1>2, <2>1, QuietKeeps DEF Labels, Looked
  <2>3. ASSUME Own(c) PROVE Own(c)'
    <3>1. (req[c].host # None =>
             g_current_root = RootFor(req[c].host, g_current_root))'
      BY <1>1, <2>3, RootKeeps DEF Own, Busy
    <3> QED
      BY <2>1, <3>1 DEF Own
  <2>4. OwnInv'
    BY <1>1, <2>3, OwnActs DEF IInv
  <2> QED
    BY <2>2, <2>4 DEF IInv
<1>3. CASE default_rt # "empty" /\ Lookup(c)
  BY <1>1, <1>3, LookupMoves
<1> QED
  BY <1>2, <1>3 DEF Dispatch

LEMMA DispatchFilledOK ==
  ASSUME IInv, NEW c \in Conns, DispatchFilled(c), UNCHANGED main_vars
  PROVE  IInv'
<1>1. pc[c] = "find" /\ default_rt # "empty"
  BY DEF DispatchFilled, IInv, Control
<1>2. Lookup(c) /\ Acts(c)
      /\ UNCHANGED <<fixed, default_table, turn, main, raced, req, output,
                     g_current_root, g_compare_ctx, resp_buf>>
  BY DEF DispatchFilled, main_vars, statics
<1> QED
  BY <1>1, <1>2, LookupMoves

(* What the handler of the right route makes is an answer.                 *)
LEMMA PageAnswers ==
  ASSUME NEW c \in Conns, IsHitOf(req[c], hit[c]),
         req[c].host # None => g_current_root = RootFor(req[c].host, g_current_root)
  PROVE  /\ IsAnswerTo(c, req[c], Page(c, {c}))
         /\ hit[c].status = 200 /\ hit[c].route \in Rooted
              => IsAnswerTo(c, req[c], Missing(c))
<1>1. IsAnswerTo(c, req[c], Page(c, {c}))
  BY DEF IsAnswerTo, Page, IsHitOf, IsRouteOf, Unknown
<1>2. ASSUME hit[c].status = 200, hit[c].route \in Rooted
      PROVE  IsAnswerTo(c, req[c], Missing(c))
  <2>1. /\ Missing(c).route = hit[c].route /\ Missing(c).status = 404
    BY DEF Missing, NoPage
  <2>2. hit[c].route # None
    BY <1>2 DEF IsHitOf
  <2> QED
    BY <1>2, <2>1, <2>2 DEF IsAnswerTo, IsHitOf, IsRouteOf
<1> QED
  BY <1>1, <1>2

LEMMA HitIsOf ==
  ASSUME IInv, NEW c \in Conns, pc[c] \in Looked, "fill" \notin raced
  PROVE  IsHitOf(req[c], hit[c])
BY DEF IInv, HitInv

LEMMA FormatBodyOK ==
  ASSUME IInv, NEW c \in Conns, FormatBody(c), UNCHANGED main_vars
  PROVE  IInv'
<1>1. pc[c] = "body" /\ Goto(c, "build") /\ Acts(c)
      /\ UNCHANGED <<fixed, default_table, turn, main, raced, req, hit, output,
                     g_current_root, g_compare_ctx, g_servers, buffered, Given>>
  BY DEF FormatBody, main_vars, fixed, default_table, Given
<1>2. pc'[c] = "build" /\ req[c] \in Requests
  BY <1>1, TypesAre DEF Goto, IInv, Control, Busy
<1>3. Types' /\ TableOK' /\ Control' /\ FillInv' /\ HitInv' /\ PipeInv'
  BY <1>1, <1>2, QuietKeeps DEF Labels, Looked, Captured
<1>4. ASSUME "fill" \notin raced, Own(c) PROVE Own(c)'
  <2>1. req[c].host # None => g_current_root = RootFor(req[c].host, g_current_root)
    BY <1>1, <1>4 DEF Own, Busy
  <2>2. (req[c].host # None =>
           g_current_root = RootFor(req[c].host, g_current_root))'
    BY <1>1, <2>1, RootKeeps
  <2>3. IsHitOf(req[c], hit[c])
    BY <1>1, <1>4, HitIsOf DEF Looked
  <2>4. PICK page : g_body_buf' = page /\ IsAnswerTo(c, req[c], page)
    BY <2>1, <2>3, PageAnswers DEF FormatBody
  <2>5. IsAnswerTo(c, req[c], g_body_buf)'
    BY <1>1, <2>4, BodySame
  <2> QED
    BY <1>2, <2>2, <2>5 DEF Own
<1>5. OwnInv'
  BY <1>1, <1>4, OwnActs DEF IInv
<1> QED
  BY <1>3, <1>5 DEF IInv

LEMMA BuildResponseOK ==
  ASSUME IInv, NEW c \in Conns, BuildResponse(c), UNCHANGED main_vars
  PROVE  IInv'
<1>1. pc[c] = "build" /\ Goto(c, "send") /\ Acts(c) /\ resp_buf' = g_body_buf
      /\ UNCHANGED <<fixed, default_table, turn, main, raced, req, hit, output,
                     g_current_root, g_compare_ctx, g_servers, buffered, Given>>
  BY DEF BuildResponse, main_vars, fixed, default_table, Given
<1>2. pc'[c] = "send" /\ req[c] \in Requests
  BY <1>1, TypesAre DEF Goto, IInv, Control, Busy
<1>3. Types' /\ TableOK' /\ Control' /\ FillInv' /\ HitInv' /\ PipeInv'
  BY <1>1, <1>2, QuietKeeps DEF Labels, Looked, Captured
<1>4. ASSUME Own(c) PROVE Own(c)'
  <2>1. (req[c].host # None =>
           g_current_root = RootFor(req[c].host, g_current_root))'
    BY <1>1, <1>4, RootKeeps DEF Own, Busy
  <2>2. IsAnswerTo(c, req[c], resp_buf)'
    BY <1>1, <1>4, ResponseSame DEF Own
  <2> QED
    BY <1>2, <2>1, <2>2 DEF Own
<1>5. OwnInv'
  BY <1>1, <1>4, OwnActs DEF IInv
<1> QED
  BY <1>3, <1>5 DEF IInv

LEMMA WriteDirectOK ==
  ASSUME IInv, NEW c \in Conns, WriteDirect(c), UNCHANGED main_vars
  PROVE  IInv'
<1>1. pc[c] = "direct" /\ Goto(c, "send") /\ Acts(c) /\ resp_buf' = Page(c, {c})
      /\ UNCHANGED <<fixed, default_table, turn, main, raced, req, hit, output,
                     g_current_root, g_compare_ctx, g_servers, buffered, Given>>
  BY DEF WriteDirect, main_vars, fixed, default_table, Given
<1>2. pc'[c] = "send" /\ req[c] \in Requests
  BY <1>1, TypesAre DEF Goto, IInv, Control, Busy
<1>3. Types' /\ TableOK' /\ Control' /\ FillInv' /\ HitInv' /\ PipeInv'
  BY <1>1, <1>2, QuietKeeps DEF Labels, Looked, Captured
<1>4. ASSUME "fill" \notin raced, Own(c) PROVE Own(c)'
  <2>1. req[c].host # None => g_current_root = RootFor(req[c].host, g_current_root)
    BY <1>1, <1>4 DEF Own, Busy
  <2>2. (req[c].host # None =>
           g_current_root = RootFor(req[c].host, g_current_root))'
    BY <1>1, <2>1, RootKeeps
  <2>3. IsHitOf(req[c], hit[c])
    BY <1>1, <1>4, HitIsOf DEF Looked
  <2>4. PICK page : resp_buf' = page /\ IsAnswerTo(c, req[c], page)
    BY <1>1, <2>1, <2>3, PageAnswers
  <2>5. IsAnswerTo(c, req[c], resp_buf)'
    BY <1>1, <2>4, ResponseSame
  <2> QED
    BY <1>2, <2>2, <2>5 DEF Own
<1>5. OwnInv'
  BY <1>1, <1>4, OwnActs DEF IInv
<1> QED
  BY <1>3, <1>5 DEF IInv

-----------------------------------------------------------------------------
(* Standard output.                                                        *)

(* A step of a thread that captures.                                       *)
LEMMA CaptureKeeps ==
  ASSUME IInv, NEW c \in Conns, NEW label \in Captured \cup {"build"},
         pc[c] \in Captured \cup {"save"},
         Goto(c, label), Acts(c),
         UNCHANGED <<fixed, default_table, turn, main, req, hit>>,
         raced \subseteq raced', "fill" \in raced' => "fill" \in raced,
         OutputTyped'
  PROVE  Types' /\ TableOK' /\ Control' /\ FillInv' /\ HitInv'
<1>1. Moves(c, label)
  BY TypesAre DEF Moves
<1>2. req[c] \in Requests
  BY DEF IInv, Control, Busy, Captured
<1>3. label \in Labels \ {"find", "save"} /\ pc[c] \in Looked
  BY DEF Labels, Captured, Looked
<1> QED
  BY <1>1, <1>2, <1>3, MovesKeep DEF Captured

(* Own of a thread that keeps its request and its root.                    *)
LEMMA RootStays ==
  ASSUME NEW c \in Conns, Busy(c), Own(c),
         UNCHANGED <<fixed, req, g_current_root>>
  PROVE  (req[c].host # None =>
            g_current_root = RootFor(req[c].host, g_current_root))'
BY RootKeeps DEF Own, fixed

LEMMA SaveStdoutOK ==
  ASSUME IInv, NEW c \in Conns, SaveStdout(c), UNCHANGED main_vars
  PROVE  IInv'
<1>1. /\ pc[c] = "save" /\ Goto(c, "redirect") /\ Acts(c)
      /\ g_compare_ctx' = c /\ saved' = [saved EXCEPT ![c] = stdout]
      /\ UNCHANGED <<fixed, default_table, turn, main, req, hit, g_current_root,
                     stdout, lines, pipe, raced, buffered>>
  BY DEF SaveStdout, main_vars, fixed
<1>2. pc'[c] = "redirect" /\ \A d \in Conns \ {c} : pc'[d] = pc[d]
  BY <1>1, TypesAre DEF Goto
<1>3. OutputTyped'
  BY <1>1, TypesAre DEF OutputTyped
<1>4. Types' /\ TableOK' /\ Control' /\ FillInv' /\ HitInv'
  BY <1>1, <1>3, CaptureKeeps DEF Captured
<1>5. PipeInv'
  <2> SUFFICES ASSUME ~buffered, NEW d \in Conns,
                      pc'[d] \notin {"print", "restore", "read"}
               PROVE  pipe'[d] = {} /\ ~HasWriter(d)'
    BY <1>1 DEF IInv, PipeInv
  <2>1. pipe[d] = {} /\ ~HasWriter(d)
    BY <1>1, <1>2 DEF IInv, PipeInv
  <2> QED
    BY <1>1, <2>1, TypesAre DEF HasWriter, OutputTyped
<1>6. ASSUME Own(c) PROVE Own(c)'
  BY <1>1, <1>2, <1>6, RootStays DEF Own, Busy
<1>7. OwnInv'
  BY <1>1, <1>6, OwnActs DEF IInv
<1> QED
  BY <1>4, <1>5, <1>7 DEF IInv

LEMMA RedirectOK ==
  ASSUME IInv, NEW c \in Conns, Redirect(c), UNCHANGED main_vars
  PROVE  IInv'
<1>1. /\ pc[c] = "redirect" /\ Goto(c, "print") /\ Acts(c)
      /\ stdout' = c
      /\ UNCHANGED <<fixed, default_table, turn, main, req, hit, g_current_root,
                     g_compare_ctx, lines, saved, pipe, buffered>>
      /\ raced \subseteq raced' /\ ("fill" \in raced' => "fill" \in raced)
  BY DEF Redirect, main_vars, fixed, statics
<1>2. pc'[c] = "print" /\ \A d \in Conns \ {c} : pc'[d] = pc[d]
  BY <1>1, TypesAre DEF Goto
<1>3. OutputTyped'
  BY <1>1, TypesAre DEF OutputTyped, Descriptors
<1>4. Types' /\ TableOK' /\ Control' /\ FillInv' /\ HitInv'
  BY <1>1, <1>3, CaptureKeeps DEF Captured
<1>5. PipeInv'
  <2> SUFFICES ASSUME ~buffered, NEW d \in Conns,
                      pc'[d] \notin {"print", "restore", "read"}
               PROVE  pipe'[d] = {} /\ ~HasWriter(d)'
    BY <1>1 DEF IInv, PipeInv
  <2>1. pipe[d] = {} /\ ~HasWriter(d) /\ d # c
    BY <1>1, <1>2 DEF IInv, PipeInv
  <2> QED
    BY <1>1, <2>1 DEF HasWriter
<1>6. ASSUME ~buffered, Own(c) PROVE Own(c)'
  <2>1. pipe[c] = {}
    BY <1>1, <1>6 DEF IInv, PipeInv
  <2> QED
    BY <1>1, <1>2, <1>6, <2>1, RootStays DEF Own, Busy
<1>7. OwnInv'
  BY <1>1, <1>6, OwnActs DEF IInv
<1> QED
  BY <1>4, <1>5, <1>7 DEF IInv

LEMMA PrintCapturedOK ==
  ASSUME IInv, NEW c \in Conns, PrintCaptured(c), UNCHANGED main_vars
  PROVE  IInv'
<1>1. /\ pc[c] = "print" /\ Goto(c, "restore") /\ Acts(c)
      /\ pipe' = Piped(lines \cup {g_compare_ctx}) /\ lines' = {}
      /\ UNCHANGED <<fixed, default_table, turn, main, req, hit, g_current_root,
                     g_compare_ctx, stdout, saved, raced, buffered>>
  BY DEF PrintCaptured, SayNow, main_vars, fixed, statics
<1>2. pc'[c] = "restore" /\ \A d \in Conns \ {c} : pc'[d] = pc[d]
  BY <1>1, TypesAre DEF Goto
<1>3. OutputTyped'
  <2>1. lines \cup {g_compare_ctx} \in SUBSET Texts
    BY TypesAre DEF OutputTyped, Texts
  <2>2. pipe' \in [Conns -> SUBSET Texts]
    BY <1>1, <2>1, TypesAre DEF OutputTyped, Piped
  <2> QED
    BY <1>1, <2>2, TypesAre DEF OutputTyped
<1>4. Types' /\ TableOK' /\ Control' /\ FillInv' /\ HitInv'
  BY <1>1, <1>3, CaptureKeeps DEF Captured
<1>5. PipeInv'
  <2> SUFFICES ASSUME ~buffered, NEW d \in Conns,
                      pc'[d] \notin {"print", "restore", "read"}
               PROVE  pipe'[d] = {} /\ ~HasWriter(d)'
    BY <1>1 DEF IInv, PipeInv
  <2>1. pipe[d] = {} /\ ~HasWriter(d)
    BY <1>1, <1>2 DEF IInv, PipeInv
  <2> QED
    BY <1>1, <2>1 DEF HasWriter, Piped
<1>6. ASSUME ~buffered, Own(c) PROVE Own(c)'
  <2>1. lines = {} /\ g_compare_ctx = c /\ stdout = c /\ pipe[c] = {}
    BY <1>1, <1>6 DEF IInv, PipeInv, Own
  <2>2. pipe'[c] = {c}
    BY <1>1, <2>1 DEF Piped
  <2> QED
    BY <1>1, <1>2, <1>6, <2>2, RootStays DEF Own, Busy
<1>7. OwnInv'
  BY <1>1, <1>6, OwnActs DEF IInv
<1> QED
  BY <1>4, <1>5, <1>7 DEF IInv

LEMMA RestoreStdoutOK ==
  ASSUME IInv, NEW c \in Conns, RestoreStdout(c), UNCHANGED main_vars
  PROVE  IInv'
<1>1. /\ pc[c] = "restore" /\ Goto(c, "read") /\ Acts(c)
      /\ stdout' = saved[c] /\ saved' = [saved EXCEPT ![c] = None]
      /\ UNCHANGED <<fixed, default_table, turn, main, req, hit, g_current_root,
                     g_compare_ctx, lines, pipe, raced, buffered>>
  BY DEF RestoreStdout, main_vars, fixed, statics
<1>2. pc'[c] = "read" /\ \A d \in Conns \ {c} : pc'[d] = pc[d]
  BY <1>1, TypesAre DEF Goto
<1>3. OutputTyped'
  BY <1>1, TypesAre DEF OutputTyped, Descriptors
<1>4. Types' /\ TableOK' /\ Control' /\ FillInv' /\ HitInv'
  BY <1>1, <1>3, CaptureKeeps DEF Captured
<1>5. PipeInv'
  <2> SUFFICES ASSUME ~buffered, NEW d \in Conns,
                      pc'[d] \notin {"print", "restore", "read"}
               PROVE  pipe'[d] = {} /\ ~HasWriter(d)'
    BY <1>1 DEF IInv, PipeInv
  <2>1. pipe[d] = {} /\ ~HasWriter(d)
    BY <1>1, <1>2 DEF IInv, PipeInv
  <2> QED
    BY <1>1, <2>1, NamesDiffer, TypesAre DEF HasWriter, OutputTyped
<1>6. ASSUME Own(c) PROVE Own(c)'
  BY <1>1, <1>2, <1>6, RootStays DEF Own, Busy
<1>7. OwnInv'
  BY <1>1, <1>6, OwnActs DEF IInv
<1> QED
  BY <1>4, <1>5, <1>7 DEF IInv

LEMMA ReadCapturedOK ==
  ASSUME IInv, NEW c \in Conns, ReadCaptured(c), UNCHANGED main_vars
  PROVE  IInv'
<1>1. /\ pc[c] = "read" /\ Goto(c, "build") /\ Acts(c)
      /\ g_body_buf' = Page(c, pipe[c])
      /\ pipe' = [pipe EXCEPT ![c] = {}]
      /\ stdout' = Unread(c, stdout)
      /\ saved' = [d \in Conns |-> Unread(c, saved[d])]
      /\ UNCHANGED <<fixed, default_table, turn, main, req, hit, g_current_root,
                     g_compare_ctx, lines, raced, buffered, Given>>
  BY DEF ReadCaptured, main_vars, fixed, default_table, Given
<1>2. pc'[c] = "build" /\ \A d \in Conns \ {c} : pc'[d] = pc[d]
  BY <1>1, TypesAre DEF Goto
<1>3. OutputTyped'
  BY <1>1, TypesAre DEF OutputTyped, Descriptors, Unread
<1>4. Types' /\ TableOK' /\ Control' /\ FillInv' /\ HitInv'
  BY <1>1, <1>3, CaptureKeeps DEF Captured
<1>5. PipeInv'
  <2> SUFFICES ASSUME ~buffered, NEW d \in Conns,
                      pc'[d] \notin {"print", "restore", "read"}
               PROVE  pipe'[d] = {} /\ ~HasWriter(d)'
    BY <1>1 DEF IInv, PipeInv
  <2>1. CASE d = c
    BY <1>1, <2>1, NamesDiffer, TypesAre DEF HasWriter, Unread, OutputTyped
  <2>2. CASE d # c
    <3>1. pipe[d] = {} /\ ~HasWriter(d)
      BY <1>1, <1>2, <2>2 DEF IInv, PipeInv
    <3> QED
      BY <1>1, <2>2, <3>1, NamesDiffer, TypesAre DEF HasWriter, Unread, OutputTyped
  <2> QED
    BY <2>1, <2>2
<1>6. ASSUME "fill" \notin raced, Own(c) PROVE Own(c)'
  <2>1. req[c].host # None => g_current_root = RootFor(req[c].host, g_current_root)
    BY <1>1, <1>6 DEF Own, Busy
  <2>2. (req[c].host # None =>
           g_current_root = RootFor(req[c].host, g_current_root))'
    BY <1>1, <2>1, RootKeeps DEF fixed
  <2>3. IsHitOf(req[c], hit[c])
    BY <1>1, <1>6, HitIsOf DEF Looked
  <2>4. pipe[c] = {c}
    BY <1>1, <1>6 DEF Own
  <2>5. PICK page : g_body_buf' = page /\ IsAnswerTo(c, req[c], page)
    BY <1>1, <2>1, <2>3, <2>4, PageAnswers
  <2>6. UNCHANGED req
    BY <1>1
  <2>7. IsAnswerTo(c, req[c], g_body_buf)'
    BY <1>1, <2>5, <2>6, BodySame
  <2> QED
    BY <1>2, <2>2, <2>7 DEF Own
<1>7. OwnInv'
  BY <1>1, <1>6, OwnActs DEF IInv
<1> QED
  BY <1>4, <1>5, <1>7 DEF IInv

(* A line for the console goes into the pipe of a thread that captures.    *)
Speaks ==
  /\ lines' \in SUBSET Texts /\ pipe' \in [Conns -> SUBSET Texts]
  /\ ~buffered => lines' = {} /\ pipe' = Piped({Console})

LEMMA SayIs ==
  ASSUME IInv, Say(Console) \/ SayNow(Console)
  PROVE  Speaks
<1>1. Console \in Texts /\ OutputTyped
  BY TypesAre DEF Texts
<1>2. ~buffered => lines = {}
  BY DEF IInv, PipeInv
<1>3. \A texts \in SUBSET Texts : Piped(texts) \in [Conns -> SUBSET Texts]
  BY <1>1 DEF OutputTyped, Piped
<1>4. CASE Say(Console)
  <2>1. CASE buffered
    <3>1. lines' = lines \cup {Console} /\ pipe' = pipe
      BY <1>4, <2>1 DEF Say
    <3> QED
      BY <1>1, <2>1, <3>1 DEF OutputTyped, Speaks
  <2>2. CASE ~buffered
    <3>1. lines' = lines /\ pipe' = Piped({Console})
      BY <1>4, <2>2 DEF Say
    <3> QED
      BY <1>1, <1>2, <1>3, <2>2, <3>1 DEF OutputTyped, Speaks
  <2> QED
    BY <2>1, <2>2
<1>5. CASE SayNow(Console)
  <2>1. lines' = {} /\ pipe' = Piped(lines \cup {Console})
    BY <1>5 DEF SayNow
  <2>2. lines \cup {Console} \in SUBSET Texts
    BY <1>1 DEF OutputTyped
  <2>3. ~buffered => lines \cup {Console} = {Console}
    BY <1>2
  <2>4. pipe' \in [Conns -> SUBSET Texts]
    BY <1>3, <2>1, <2>2
  <2> QED
    BY <2>1, <2>3, <2>4 DEF Speaks
<1> QED
  BY <1>4, <1>5

LEMMA SpeaksKeeps ==
  ASSUME IInv, Speaks, UNCHANGED <<buffered, stdout, saved>>,
         \A c \in Conns : pc[c] \in {"print", "restore", "read"} => pc'[c] = pc[c]
  PROVE  PipeInv'
<1> SUFFICES ASSUME ~buffered, NEW d \in Conns,
                    pc'[d] \notin {"print", "restore", "read"}
             PROVE  pipe'[d] = {} /\ ~HasWriter(d)'
  BY DEF PipeInv, Speaks
<1>1. pipe[d] = {} /\ ~HasWriter(d)
  BY DEF IInv, PipeInv
<1> QED
  BY <1>1 DEF Speaks, HasWriter, Piped

(* The line and the answer, or the line and EPIPE.                         *)
LEMMA SendMoves ==
  ASSUME IInv, NEW c \in Conns, NEW label \in {"recv", "close"},
         pc[c] = "send", Say(Console), Goto(c, label), Forget(c), Acts(c),
         UNCHANGED <<fixed, turn, statics, default_table, stdout, saved, raced,
                     main>>
  PROVE  IInv'
<1>1. pc'[c] = label /\ (\A d \in Conns \ {c} : pc'[d] = pc[d]) /\ Speaks
  BY SayIs, TypesAre DEF Goto
<1>2. UNCHANGED <<buffered, g_compare_ctx>>
  BY DEF fixed, statics
<1>3. Moves(c, label)
  BY TypesAre DEF Moves, Forget
<1>4. OutputTyped'
  BY <1>1, <1>2, TypesAre DEF OutputTyped, Speaks
<1>5. Types' /\ TableOK' /\ Control' /\ FillInv' /\ HitInv'
  BY <1>3, <1>4, MovesKeep DEF Labels, Looked, Idle, Captured
<1>6. PipeInv'
  BY <1>1, <1>2, SpeaksKeeps
<1>7. Own(c)'
  BY <1>1 DEF Own, Busy
<1>8. OwnInv'
  BY <1>2, <1>7, OwnActs DEF IInv
<1> QED
  BY <1>5, <1>6, <1>8 DEF IInv

LEMMA SendOK ==
  ASSUME IInv, NEW c \in Conns, Send(c), UNCHANGED main_vars
  PROVE  IInv'
BY SendMoves DEF Send, main_vars

LEMMA SendFailsOK ==
  ASSUME IInv, NEW c \in Conns, SendFails(c), UNCHANGED main_vars
  PROVE  IInv'
BY SendMoves DEF SendFails, main_vars

-----------------------------------------------------------------------------
(* The default table.                                                      *)

LEMMA RangeOfAppend ==
  ASSUME NEW S, NEW seq \in Seq(S), NEW r \in S
  PROVE  /\ Append(seq, r) \in Seq(S) /\ Len(Append(seq, r)) = Len(seq) + 1
         /\ Range(Append(seq, r)) = Range(seq) \cup {r}
<1> DEFINE longer == Append(seq, r)
<1>1. /\ longer \in Seq(S) /\ Len(longer) = Len(seq) + 1
      /\ DOMAIN longer = 1 .. Len(longer) /\ DOMAIN seq = 1 .. Len(seq)
      /\ longer[Len(longer)] = r /\ \A i \in 1 .. Len(seq) : longer[i] = seq[i]
      /\ Len(seq) \in Nat
  OBVIOUS
<1> HIDE DEF longer
<1>2. ASSUME NEW x PROVE x \in Range(longer) <=> x \in Range(seq) \cup {r}
  <2>1. x \in Range(longer) <=> \E i \in 1 .. Len(seq) + 1 : longer[i] = x
    BY <1>1, RangeIs
  <2>2. x \in Range(seq) <=> \E i \in 1 .. Len(seq) : seq[i] = x
    BY <1>1, RangeIs
  <2>3. \A i \in 1 .. Len(seq) + 1 : i \in 1 .. Len(seq) \/ i = Len(seq) + 1
    BY <1>1
  <2>4. \A i \in 1 .. Len(seq) : i \in 1 .. Len(seq) + 1
    BY <1>1
  <2>5. Len(seq) + 1 \in 1 .. Len(seq) + 1
    BY <1>1
  <2> QED
    BY <1>1, <2>1, <2>2, <2>3, <2>4, <2>5
<1> QED
  BY <1>1, <1>2 DEF longer

(* One route_table_add by one thread.                                      *)
LEMMA AddIs ==
  ASSUME NEW S, NEW seq \in Seq(S), NEW r \in S, NEW longer,
         longer = Added(seq, r)
  PROVE  /\ longer \in Seq(S)
         /\ Len(seq) <= MaxRoutes => Len(longer) <= MaxRoutes
         /\ Len(longer) <= Len(seq) + 1
         /\ Len(seq) < MaxRoutes => Range(longer) = Range(seq) \cup {r}
<1>1. Len(seq) \in Nat /\ MaxRoutes \in Nat
  BY SeqFacts, RouteAssumption
<1>2. CASE longer = Append(seq, r) /\ Accepted(seq, r)
  BY <1>1, <1>2, RangeOfAppend DEF Accepted
<1>3. CASE longer = seq /\ ~Accepted(seq, r)
  <2>1. Len(seq) < MaxRoutes => \E i \in DOMAIN seq : seq[i] = r
    BY <1>3 DEF Accepted
  <2>2. Len(seq) < MaxRoutes => r \in Range(seq)
    BY <2>1, RangeIs
  <2> QED
    BY <1>1, <1>3, <2>2
<1> QED
  BY <1>2, <1>3 DEF Added

(* The first n - 1 routes, and the next.                                   *)
LEMMA OneMore ==
  ASSUME NEW n \in 1 .. Len(DefaultTable), NEW match
  PROVE  LET First(k) == {DefaultTable[i].route :
                            i \in {j \in 1 .. k : DefaultTable[j].match = match}}
         IN  /\ DefaultTable[n].match = match =>
                  First(n) = First(n - 1) \cup {DefaultTable[n].route}
             /\ DefaultTable[n].match # match => First(n) = First(n - 1)
<1>1. Len(DefaultTable) \in Nat
  BY HandlerAssumption, SeqFacts
<1>2. \A j : j \in 1 .. n <=> j \in 1 .. n - 1 \/ j = n
  BY <1>1
<1>3. CASE DefaultTable[n].match = match
  <2>1. {j \in 1 .. n : DefaultTable[j].match = match}
        = {j \in 1 .. n - 1 : DefaultTable[j].match = match} \cup {n}
    BY <1>2, <1>3
  <2> QED
    BY <1>3, <2>1
<1>4. CASE DefaultTable[n].match # match
  <2>1. {j \in 1 .. n : DefaultTable[j].match = match}
        = {j \in 1 .. n - 1 : DefaultTable[j].match = match}
    BY <1>2, <1>4
  <2> QED
    BY <1>4, <2>1
<1> QED
  BY <1>3, <1>4

LEMMA FillTableFills ==
  ASSUME IInv, NEW c \in Conns, FillTable(c), NEW n, n = turn[c]
  PROVE  /\ TableOK'
         /\ "fill" \notin raced' => Filled(n)'
<1> DEFINE add == DefaultTable[n]
           First(match, k) ==
             {DefaultTable[i].route :
                i \in {j \in 1 .. k : DefaultTable[j].match = match}}
<1>1. /\ n \in 0 .. Len(DefaultTable) /\ Len(DefaultTable) \in Nat
      /\ Len(DefaultTable) <= MaxRoutes /\ MaxRoutes \in Nat
  BY HandlerAssumption, RouteAssumption, SeqFacts DEF IInv, Types
<1>2. /\ KeysOK /\ exact \in Seq(Route(Paths)) /\ Len(exact) <= MaxRoutes
      /\ prefix \in Seq(Route(Patterns)) /\ g_hash = Rebuilt(exact)
      /\ Len(exact) \in Nat /\ Len(prefix) \in Nat
  BY DEF IInv, TableOK
<1>3. hash_key' = hash_key /\ KeysOK' /\ pc[c] = "fill"
  BY <1>2 DEF FillTable, fixed, KeysOK
<1>4. ASSUME NEW seq PROVE Rebuilt(seq)' = Rebuilt(seq)
  BY <1>3 DEF Rebuilt
<1>5. "fill" \notin raced' => "fill" \notin raced
  BY DEF FillTable
<1>6. CASE "fill" \in raced'
  <2>1. UNCHANGED <<exact, prefix, g_hash>>
    BY <1>6 DEF FillTable
  <2>2. TableOK'
    BY <1>2, <1>3, <1>4, <2>1 DEF TableOK
  <2> QED
    BY <1>6, <2>2
<1>7. CASE "fill" \notin raced' /\ n = 0
  <2>1. exact' = <<>> /\ prefix' = <<>> /\ g_hash' = Empty
    BY <1>7 DEF FillTable
  <2>2. <<>> \in Seq(Route(Patterns)) /\ Len(<<>>) = 0
    OBVIOUS
  <2>3. Rebuilt(exact)' = Rebuilt(exact')
    BY <1>4, <2>1
  <2>4. TableOK'
    BY <1>2, <1>3, <1>4, <2>1, <2>2, EmptyIsBuilt DEF TableOK
  <2>5. Range(<<>>) = {}
    BY DEF Range
  <2>6. \A match : {DefaultTable[i].route :
                      i \in {j \in 1 .. 0 : DefaultTable[j].match = match}} = {}
    OBVIOUS
  <2>7. Filled(n)'
    BY <1>7, <2>1, <2>2, <2>5, <2>6 DEF Filled
  <2> QED
    BY <2>4, <2>7
<1>8. CASE "fill" \notin raced' /\ n # 0
  <2>1. n \in 1 .. Len(DefaultTable) /\ n - 1 \in Nat
    BY <1>1, <1>8
  <2>2. Filled(n - 1)
    BY <1>3, <1>5, <1>8 DEF IInv, FillInv
  <2>3. Len(exact) < MaxRoutes /\ Len(prefix) < MaxRoutes
    BY <1>1, <1>2, <2>1, <2>2 DEF Filled
  <2>4. CASE add.match = "exact"
    <3>1. /\ exact' = Added(exact, add.route)
          /\ g_hash' = Rebuilt(exact') /\ prefix' = prefix
      BY <1>8, <2>4 DEF FillTable
    <3>2. add.route \in Route(Paths)
      BY <2>1, <2>4, DefaultIs
    <3> HIDE DEF add
    <3>3. /\ exact' \in Seq(Route(Paths)) /\ Len(exact') <= MaxRoutes
          /\ Len(exact') <= Len(exact) + 1
          /\ Range(exact') = Range(exact) \cup {add.route}
      BY <1>2, <2>3, <3>1, <3>2, AddIs
    <3>4. TableOK'
      BY <1>2, <1>3, <1>4, <3>1, <3>3 DEF TableOK
    <3>5. /\ Range(exact') = First("exact", n)
          /\ Range(prefix) = First("prefix", n)
      <4>1. Range(exact) = First("exact", n - 1) /\ Range(prefix) = First("prefix", n - 1)
        BY <2>2 DEF Filled, First
      <4>2. DefaultTable[n].match = "exact" /\ "exact" # "prefix"
        BY <2>4 DEF add
      <4>3. /\ First("exact", n) = First("exact", n - 1) \cup {DefaultTable[n].route}
            /\ First("prefix", n) = First("prefix", n - 1)
        BY <2>1, <4>2, OneMore DEF First
      <4> QED
        BY <3>1, <3>3, <4>1, <4>3 DEF add
    <3>6. Len(exact') \in Nat
      BY <3>3, SeqFacts
    <3>7. Len(exact') <= n /\ Len(prefix') <= n
      BY <1>2, <2>1, <2>2, <3>1, <3>3, <3>6 DEF Filled
    <3>8. Filled(n)'
      BY <3>1, <3>5, <3>7 DEF Filled, First
    <3> QED
      BY <3>4, <3>8
  <2>5. CASE add.match # "exact"
    <3>1. /\ prefix' = Added(prefix, add.route)
          /\ g_hash' = g_hash /\ exact' = exact
      BY <1>8, <2>5 DEF FillTable
    <3>2. add.route \in Route(Patterns) /\ add.match = "prefix"
      BY <2>1, <2>5, DefaultIs
    <3> HIDE DEF add
    <3>3. /\ prefix' \in Seq(Route(Patterns)) /\ Len(prefix') <= Len(prefix) + 1
          /\ Range(prefix') = Range(prefix) \cup {add.route}
      BY <1>2, <2>3, <3>1, <3>2, AddIs
    <3>4. TableOK'
      BY <1>2, <1>3, <1>4, <3>1, <3>3 DEF TableOK
    <3>5. /\ Range(exact) = First("exact", n)
          /\ Range(prefix') = First("prefix", n)
      <4>1. Range(exact) = First("exact", n - 1) /\ Range(prefix) = First("prefix", n - 1)
        BY <2>2 DEF Filled, First
      <4>2. DefaultTable[n].match = "prefix" /\ "exact" # "prefix"
        BY <3>2 DEF add
      <4>3. /\ First("prefix", n) = First("prefix", n - 1) \cup {DefaultTable[n].route}
            /\ First("exact", n) = First("exact", n - 1)
        BY <2>1, <4>2, OneMore DEF First
      <4> QED
        BY <3>1, <3>3, <4>1, <4>3 DEF add
    <3>6. Len(prefix') \in Nat
      BY <3>3, SeqFacts
    <3>7. Len(exact') <= n /\ Len(prefix') <= n
      BY <1>2, <2>1, <2>2, <3>1, <3>3, <3>6 DEF Filled
    <3>8. Filled(n)'
      BY <3>1, <3>5, <3>7 DEF Filled, First
    <3> QED
      BY <3>4, <3>8
  <2> QED
    BY <2>4, <2>5
<1> QED
  BY <1>6, <1>7, <1>8

LEMMA FillTableOK ==
  ASSUME IInv, NEW c \in Conns, FillTable(c), UNCHANGED main_vars
  PROVE  IInv'
<1> DEFINE N == Len(DefaultTable)
<1>1. PICK n : n = turn[c]
  OBVIOUS
<1>2. /\ n \in 0 .. N /\ N \in Nat
      /\ turn \in [Conns -> 0 .. N]
  BY <1>1, HandlerAssumption, SeqFacts DEF IInv, Types
<1>3. /\ pc[c] = "fill" /\ Acts(c)
      /\ raced' = IF ~Together(c, {"fill"}) THEN raced ELSE raced \cup {"fill"}
      /\ turn' = [turn EXCEPT ![c] = IF n = N THEN 0 ELSE n + 1]
      /\ UNCHANGED <<fixed, req, hit, statics, output, main, buffered, g_servers,
                     g_current_root, g_compare_ctx>>
  BY <1>1 DEF FillTable, main_vars, fixed, statics
<1>4. IF n = N THEN default_rt' = "ready" /\ Goto(c, "find")
               ELSE UNCHANGED <<default_rt, pc>>
  BY <1>1 DEF FillTable
<1>5. TableOK' /\ ("fill" \notin raced' => Filled(n)')
  BY <1>1, FillTableFills
<1> HIDE DEF N
<1>6. /\ pc' \in [Conns -> Labels]
      /\ \A d \in Conns \ {c} : pc'[d] = pc[d] /\ turn'[d] = turn[d]
      /\ pc'[c] = IF n = N THEN "find" ELSE "fill"
      /\ turn'[c] = IF n = N THEN 0 ELSE n + 1
  BY <1>2, <1>3, <1>4, TypesAre DEF Goto, Labels
<1>7. ~Gone /\ main # "config"
  BY <1>3 DEF IInv, Control
<1>8. turn' \in [Conns -> 0 .. N]
  BY <1>2, <1>3
<1>9. Types'
  BY <1>3, <1>6, <1>8, TypesAre DEF Types, OutputTyped, output, statics, N
<1>10. Control'
  <2>1. main' # "config" /\ ~Gone'
    BY <1>3, <1>7 DEF Gone
  <2>2. default_rt' \in {"unused", "empty", "ready"}
        /\ (default_rt' = "empty" => default_rt = "empty")
        /\ (default_rt = "ready" => default_rt' = "ready")
    BY <1>4 DEF IInv, Control
  <2>3. ASSUME NEW d \in Conns \ {c}
        PROVE  /\ turn'[d] # 0 => pc'[d] = "fill" \/ Gone'
               /\ Busy(d)' => req'[d] \in Requests
               /\ default_rt' = "empty" => pc'[d] \notin Looked \cup {"find"}
               /\ pc'[d] = "find" => default_rt' = "ready"
               /\ pc'[d] \in Looked => hit'[d] \in Hits
               /\ pc'[d] \in Captured \cup {"save"} => hit'[d].status = 200
    BY <1>3, <1>6, <1>7, <2>2 DEF IInv, Control, Busy
  <2>4. /\ turn'[c] # 0 => pc'[c] = "fill" \/ Gone'
        /\ Busy(c)' => req'[c] \in Requests
        /\ default_rt' = "empty" => pc'[c] \notin Looked \cup {"find"}
        /\ pc'[c] = "find" => default_rt' = "ready"
        /\ pc'[c] \notin Looked /\ pc'[c] \notin Captured \cup {"save"}
    BY <1>3, <1>4, <1>6 DEF IInv, Control, Busy, Looked, Captured
  <2> QED
    BY <2>1, <2>2, <2>3, <2>4 DEF Control
<1>11. ASSUME "fill" \notin raced'
       PROVE  /\ "fill" \notin raced /\ default_rt = "empty"
              /\ \A d \in Conns \ {c} : pc[d] # "fill"
  BY <1>3, <1>11 DEF Together, IInv, FillInv
<1>12. FillInv'
  <2> SUFFICES ASSUME "fill" \notin raced'
               PROVE  /\ default_rt' = "ready" => Filled(Len(DefaultTable))'
                      /\ \A d \in Conns : pc'[d] = "fill" =>
                           /\ default_rt' = "empty"
                           /\ turn'[d] # 0 => Filled(turn[d] - 1)'
                           /\ turn'[d] # 0 => \A e \in Conns \ {d} :
                                                pc'[e] = "fill" => turn'[e] = 0
    BY DEF FillInv, Filled
  <2>1. default_rt' = "ready" => n = N
    BY <1>4, <1>11
  <2>2. default_rt' = "ready" => Filled(Len(DefaultTable))'
    BY <1>5, <2>1 DEF N
  <2>3. \A d \in Conns : pc'[d] = "fill" => d = c /\ n # N
    BY <1>6, <1>11
  <2>4. n # N => default_rt' = "empty" /\ turn'[c] - 1 = n
    BY <1>2, <1>4, <1>6, <1>11
  <2>5. n # N => Filled(turn[c] - 1)'
    BY <1>5, <2>4 DEF Filled
  <2> QED
    BY <2>2, <2>3, <2>4, <2>5
<1>13. HitInv'
  <2>1. ASSUME "fill" \notin raced', NEW d \in Conns, pc'[d] \in Looked
        PROVE  FALSE
    <3>1. d # c /\ pc[d] \in Looked /\ default_rt = "empty"
      BY <1>6, <1>11, <2>1 DEF Looked
    <3> QED
      BY <3>1 DEF IInv, Control
  <2> QED
    BY <2>1 DEF HitInv, Looked
<1>14. PipeInv'
  BY <1>3, <1>6, PipeKeeps DEF IInv
<1>15. OwnInv'
  <2>1. ASSUME Own(c) PROVE Own(c)'
    <3>1. (req[c].host # None =>
             g_current_root = RootFor(req[c].host, g_current_root))'
      BY <1>3, <2>1, RootStays DEF Busy
    <3> QED
      BY <1>6, <3>1 DEF Own
  <2>2. raced \subseteq raced'
    BY <1>3
  <2> QED
    BY <1>3, <2>1, <2>2, OwnActs DEF IInv
<1> QED
  BY <1>5, <1>9, <1>10, <1>12, <1>13, <1>14, <1>15 DEF IInv

-----------------------------------------------------------------------------
(* The main thread, clients and SIGINT.                                    *)

LEMMA ConfigureOK ==
  ASSUME IInv, Configure
  PROVE  IInv'
<1>1. main = "config" /\ Next /\ UNCHANGED <<handler_vars, main_vars>>
  BY DEF Configure
<1>2. UNCHANGED <<pc, req, hit, turn, default_rt, g_servers, stdout, saved, lines,
                  pipe, g_compare_ctx, buffered, undisturbed, raced, main>>
  BY <1>1 DEF handler_vars, main_vars, output, statics
<1>3. (\A c \in Conns : pc[c] = "none") /\ default_rt = "unused" /\ undisturbed = None
  BY <1>1 DEF IInv, Control
<1>4. TableOK'
  <2>1. /\ KeysOK /\ exact \in Seq(Route(Paths)) /\ Len(exact) <= MaxRoutes
        /\ prefix \in Seq(Route(Patterns)) /\ g_hash = Rebuilt(exact)
    BY DEF IInv, TableOK
  <2>2. hash_key' = hash_key /\ KeysOK'
    BY <1>1, <2>1 DEF Next, AddExact, AddPrefix, AddRefused, Start, Loaded, vars, KeysOK
  <2>3. ASSUME NEW seq PROVE Rebuilt(seq)' = Rebuilt(seq)
    BY <2>2 DEF Rebuilt
  <2>4. CASE \E r \in Route(Paths) : AddExact(r)
    <3>1. PICK r \in Route(Paths) : AddExact(r)
      BY <2>4
    <3>2. exact' = Append(exact, r) /\ g_hash' = Rebuilt(exact') /\ prefix' = prefix
          /\ exact' = Added(exact, r)
      BY <3>1 DEF AddExact, Added
    <3>3. exact' \in Seq(Route(Paths)) /\ Len(exact') <= MaxRoutes
      BY <2>1, <3>2, AddIs
    <3> QED
      BY <2>1, <2>2, <2>3, <3>2, <3>3 DEF TableOK
  <2>5. CASE \E r \in Route(Patterns) : AddPrefix(r)
    <3>1. PICK r \in Route(Patterns) : AddPrefix(r)
      BY <2>5
    <3>2. prefix' = Append(prefix, r) /\ exact' = exact /\ g_hash' = g_hash
      BY <3>1 DEF AddPrefix
    <3>3. prefix' \in Seq(Route(Patterns))
      BY <2>1, <3>2
    <3> QED
      BY <2>1, <2>2, <2>3, <3>2, <3>3 DEF TableOK
  <2>6. CASE AddRefused
    <3>1. exact' = <<>> /\ prefix' = <<>> /\ g_hash' = Empty
      BY <2>6 DEF AddRefused
    <3>2. <<>> \in Seq(Route(Patterns))
      OBVIOUS
    <3> QED
      BY <2>1, <2>2, <2>3, <3>1, <3>2, EmptyIsBuilt DEF TableOK
  <2>7. CASE Start \/ Loaded
    <3>1. UNCHANGED <<hash_key, exact, prefix, g_hash>>
      BY <2>7 DEF Start, Loaded, vars
    <3> QED
      BY <3>1, TableKeeps DEF IInv
  <2> QED
    BY <1>1, <2>4, <2>5, <2>6, <2>7 DEF Next
<1>5. Types'
  BY <1>2 DEF IInv, Types
<1>6. Control'
  BY <1>1, <1>2, <1>3 DEF IInv, Control, Gone, Busy, Looked, Captured
<1>7. FillInv' /\ HitInv'
  BY <1>2, <1>3 DEF FillInv, HitInv, Looked
<1>8. PipeInv'
  BY <1>2, PipeKeeps DEF IInv, output
<1>9. OwnInv'
  BY <1>2, <1>3, NamesDiffer DEF OwnInv, Fair
<1> QED
  BY <1>4, <1>5, <1>6, <1>7, <1>8, <1>9 DEF IInv

LEMMA LaunchOK ==
  ASSUME IInv, Launch
  PROVE  IInv'
<1>1. /\ main = "config" /\ main' \in {"accept", "failed"}
      /\ default_rt' \in {"empty", "unused"}
      /\ UNCHANGED <<vars, pc, req, hit, turn, statics, g_servers, output, buffered,
                     undisturbed, raced>>
  BY DEF Launch
<1>2. UNCHANGED <<hash_key, exact, prefix, g_hash, stdout, saved, lines, pipe,
                  g_compare_ctx>>
  BY <1>1 DEF vars, statics, output
<1>3. (\A c \in Conns : pc[c] = "none" /\ turn[c] = 0) /\ undisturbed = None
  BY <1>1 DEF IInv, Control
<1>4. Types'
  BY <1>1, <1>2 DEF IInv, Types
<1>5. TableOK'
  BY <1>2, TableKeeps DEF IInv
<1>6. Control'
  BY <1>1, <1>3 DEF Control, Gone, Busy, Looked, Captured
<1>7. FillInv' /\ HitInv'
  BY <1>1, <1>3 DEF FillInv, HitInv, Looked
<1>8. PipeInv'
  BY <1>1, PipeKeeps DEF IInv
<1>9. OwnInv'
  BY <1>1, <1>3, NamesDiffer DEF OwnInv, Fair
<1> QED
  BY <1>4, <1>5, <1>6, <1>7, <1>8, <1>9 DEF IInv

(* Steps of clients and of the main thread that no thread can tell.        *)
LEMMA OutsideOK ==
  ASSUME IInv,
         \/ \E c \in Conns : Connect(c) \/ ClientActs(c) \/ SpawnFails(c)
         \/ AcceptFails \/ Leave \/ Stopped
  PROVE  IInv'
<1>1. /\ UNCHANGED <<vars, statics, turn, default_rt, raced, req, hit, output,
                     g_servers, buffered, undisturbed, pc>>
      /\ main' = main \/ (main \notin Rests /\ main' \in Runs)
  <2>1. CASE \E c \in Conns : Connect(c)
    BY <2>1 DEF Connect, handler_vars
  <2>2. CASE \E c \in Conns : ClientActs(c)
    BY <2>2 DEF ClientActs, handler_rest, main_vars
  <2>3. CASE \E c \in Conns : SpawnFails(c)
    BY <2>3 DEF SpawnFails, Accept, Loop, main_rest, Runs, Rests
  <2>4. CASE AcceptFails \/ Leave
    BY <2>4 DEF AcceptFails, Leave, main_rest, Runs, Rests
  <2>5. CASE Stopped
    BY <2>5 DEF Stopped, all_vars, handler_vars, main_vars
  <2> QED
    BY <2>1, <2>2, <2>3, <2>4, <2>5
<1>2. pc' \in [Conns -> Labels]
  BY <1>1, TypesAre
<1> QED
  BY <1>1, <1>2, RestsKeep

LEMMA InterruptOK ==
  ASSUME IInv, Interrupt
  PROVE  IInv'
<1>1. /\ UNCHANGED <<vars, statics, turn, default_rt, raced, req, hit, output,
                     g_servers, buffered, undisturbed>>
      /\ main' = main \/ (main \notin Rests /\ main' \in Runs)
      /\ UNCHANGED pc \/ \E c \in Conns : pc[c] = "recv" /\ Goto(c, "close")
  BY DEF Interrupt, Runs, Rests, Gone
<1>2. CASE UNCHANGED pc
  BY <1>1, <1>2, RestsKeep, TypesAre
<1>3. CASE \E c \in Conns : pc[c] = "recv" /\ Goto(c, "close")
  <2>1. PICK c \in Conns : pc[c] = "recv" /\ Goto(c, "close")
    BY <1>3
  <2>2. pc' \in [Conns -> Labels]
    BY <2>1, TypesAre DEF Goto, Labels
  <2>3. \A d \in Conns : \/ pc'[d] = pc[d]
                         \/ pc[d] \in {"recv", "close"} /\ pc'[d] \in {"close", "done"}
    BY <2>1, TypesAre DEF Goto
  <2> QED
    BY <1>1, <2>2, <2>3, RestsKeep
<1> QED
  BY <1>1, <1>2, <1>3

LEMMA CloseOK ==
  ASSUME IInv, NEW c \in Conns, Close(c)
  PROVE  IInv'
<1>1. /\ pc[c] = "close" /\ Goto(c, "done")
      /\ UNCHANGED <<vars, statics, turn, default_rt, raced, req, hit, output,
                     g_servers, buffered, undisturbed>>
      /\ main' = main \/ main' \in {"leave", "accept"}
  BY DEF Close, Loop
<1>2. pc' \in [Conns -> Labels]
  BY <1>1, TypesAre DEF Goto, Labels
<1>3. \A d \in Conns : \/ pc'[d] = pc[d]
                       \/ pc[d] \in {"recv", "close"} /\ pc'[d] \in {"close", "done"}
  BY <1>1, TypesAre DEF Goto
<1>4. main' = main \/ (main \notin Rests /\ main' \in Runs)
  BY <1>1 DEF IInv, Control, Gone, Runs, Rests
<1> QED
  BY <1>1, <1>2, <1>3, <1>4, RestsKeep

LEMMA EndsOK ==
  ASSUME IInv, NEW how \in {"exit", "killed"}, Ends(how), main # "config"
  PROVE  IInv'
<1>1. UNCHANGED <<hash_key, exact, prefix, g_hash, turn, default_rt, buffered, raced,
                  Given>>
  BY DEF Ends, vars, Given
<1>2. /\ \A c \in Conns : pc'[c] = "none"
      /\ pc' \in [Conns -> Labels] /\ main' = how /\ undisturbed' = None
  BY DEF Ends, Labels
<1>3. Types'
  BY <1>1, <1>2 DEF Ends, IInv, Types, Descriptors, Texts
<1>4. TableOK'
  BY <1>1, TableKeeps DEF IInv
<1>5. Control'
  <2>1. Gone' /\ main' # "config" /\ default_rt' \in {"unused", "empty", "ready"}
    BY <1>1, <1>2 DEF Gone, IInv, Control
  <2> QED
    BY <1>2, <2>1 DEF Control, Busy, Looked, Captured
<1>6. FillInv'
  BY <1>1, <1>2, FillKeeps DEF IInv
<1>7. HitInv'
  BY <1>2 DEF HitInv, Looked
<1>8. PipeInv'
  BY NamesDiffer DEF Ends, PipeInv, HasWriter
<1>9. OwnInv'
  BY <1>2, NamesDiffer DEF OwnInv, Fair
<1> QED
  BY <1>3, <1>4, <1>5, <1>6, <1>7, <1>8, <1>9 DEF IInv

(* A connection that was not accepted has no thread.                       *)
NotYet ==
  /\ pc \in [Conns -> Labels]
  /\ net \in [Conns -> {"fresh", "queued", "accepted"}]
  /\ \A c \in Conns : net[c] # "accepted" => pc[c] = "none"

LEMMA AcceptedOK ==
  ASSUME IInv, NotYet, NEW c \in Conns, Spawn(c) \/ HandleOne(c)
  PROVE  IInv'
<1>1. /\ main = "accept" /\ net[c] = "queued" /\ Goto(c, "recv")
      /\ Say(Console) \/ SayNow(Console)
      /\ main' \in Runs /\ undisturbed' = None
      /\ UNCHANGED <<vars, req, hit, turn, g_compare_ctx, g_servers, default_rt,
                     buffered, raced, stdout, saved>>
  BY DEF Spawn, HandleOne, Accept, Queued, Loop, Disturbs, Runs, main_rest, statics
<1>2. UNCHANGED <<hash_key, exact, prefix, g_hash, Given>>
  BY <1>1 DEF vars, Given
<1>3. /\ pc[c] = "none" /\ pc' = [pc EXCEPT ![c] = "recv"]
      /\ pc' \in [Conns -> Labels] /\ pc'[c] = "recv"
      /\ \A d \in Conns \ {c} : pc'[d] = pc[d]
  BY <1>1 DEF NotYet, Goto, Labels
<1>4. Speaks
  BY <1>1, SayIs
<1>5. Types'
  BY <1>1, <1>3, <1>4 DEF IInv, Types, Speaks
<1>6. TableOK'
  BY <1>2, TableKeeps DEF IInv
<1>7. Control'
  <2>1. main' # "config" /\ ~Gone' /\ ~Gone
    BY <1>1 DEF Runs, Gone
  <2> QED
    BY <1>1, <1>3, <2>1 DEF IInv, Control, Busy, Looked, Captured
<1>8. FillInv'
  BY <1>1, <1>2, <1>3, FillKeeps DEF IInv
<1>9. HitInv'
  BY <1>1, <1>2, <1>3, HitKeeps DEF IInv, Looked
<1>10. PipeInv'
  BY <1>1, <1>3, <1>4, SpeaksKeeps
<1>11. OwnInv'
  BY <1>1, NamesDiffer DEF OwnInv, Fair
<1> QED
  BY <1>5, <1>6, <1>7, <1>8, <1>9, <1>10, <1>11 DEF IInv

-----------------------------------------------------------------------------
(* Every step.                                                             *)

LEMMA ThreadRunsOK ==
  ASSUME IInv, NEW c \in Conns, ThreadRuns(c)
  PROVE  IInv'
<1>1. CASE HandlesRequest(c) /\ UNCHANGED main_vars
  BY <1>1, ReceiveOK, ReceiveMalformedOK, ReceiveNothingOK, DispatchOK,
     FillTableOK, DispatchFilledOK, SaveStdoutOK, RedirectOK, RestoreStdoutOK,
     ReadCapturedOK, BuildResponseOK, WriteDirectOK, SendOK DEF HandlesRequest
<1>2. CASE UsesStore(c) /\ UNCHANGED main_vars
  BY <1>2, FormatBodyOK, PrintCapturedOK DEF UsesStore
<1>3. CASE SendFails(c) /\ UNCHANGED main_vars
  BY <1>3, SendFailsOK
<1>4. CASE KilledBySend(c) \/ KilledByStore(c)
  <2>1. pc[c] # "none" /\ Ends("killed")
    BY <1>4 DEF KilledBySend, KilledByStore
  <2>2. main # "config"
    BY <2>1 DEF IInv, Control
  <2> QED
    BY <2>1, <2>2, EndsOK
<1>5. CASE Close(c)
  BY <1>5, CloseOK
<1> QED
  BY <1>1, <1>2, <1>3, <1>4, <1>5 DEF ThreadRuns

LEMMA StepOK == IInv /\ NotYet /\ [ServerNext]_all_vars => IInv'
<1> SUFFICES ASSUME IInv, NotYet, [ServerNext]_all_vars PROVE IInv'
  OBVIOUS
<1>1. CASE Configure
  BY <1>1, ConfigureOK
<1>2. CASE Launch
  BY <1>2, LaunchOK
<1>3. CASE Interrupt
  BY <1>3, InterruptOK
<1>4. CASE MainRuns
  <2>1. CASE \E c \in Conns : Spawn(c) \/ SpawnFails(c) \/ HandleOne(c)
    BY <2>1, AcceptedOK, OutsideOK
  <2>2. CASE Leave
    BY <2>2, OutsideOK
  <2>3. CASE Exit
    BY <2>3, EndsOK DEF Exit
  <2> QED
    BY <1>4, <2>1, <2>2, <2>3 DEF MainRuns
<1>5. CASE AcceptFails \/ Stopped
  BY <1>5, OutsideOK
<1>6. CASE \E c \in Conns : Connect(c) \/ ClientActs(c) \/ ThreadRuns(c)
  BY <1>6, OutsideOK, ThreadRunsOK
<1>7. CASE UNCHANGED all_vars
  <2>1. UNCHANGED <<vars, statics, turn, default_rt, raced, req, hit, output,
                    g_servers, buffered, undisturbed, pc, main>>
    BY <1>7 DEF all_vars, handler_vars, main_vars
  <2>2. pc' \in [Conns -> Labels]
    BY <2>1, TypesAre
  <2> QED
    BY <2>1, <2>2, RestsKeep
<1> QED
  BY <1>1, <1>2, <1>3, <1>4, <1>5, <1>6, <1>7 DEF ServerNext

(* A thread at work goes on, and no label but that of the end is "none".   *)
LEMMA HandlerGoesOn ==
  ASSUME NotYet, NEW c \in Conns,
         HandlesRequest(c) \/ UsesStore(c) \/ SendFails(c)
  PROVE  pc[c] # "none" /\ \E label \in Labels : pc' = [pc EXCEPT ![c] = label]
<1> USE DEF Goto, Labels, NotYet
<1>1. CASE Receive(c) \/ ReceiveMalformed(c) \/ ReceiveNothing(c)
  BY <1>1 DEF Receive, ReceiveMalformed, ReceiveNothing
<1>2. CASE Dispatch(c) \/ DispatchFilled(c)
  BY <1>2 DEF Dispatch, DispatchFilled, Lookup
<1>3. CASE FillTable(c)
  BY <1>3 DEF FillTable
<1>4. CASE SaveStdout(c) \/ Redirect(c) \/ RestoreStdout(c) \/ ReadCaptured(c)
  BY <1>4 DEF SaveStdout, Redirect, RestoreStdout, ReadCaptured
<1>5. CASE BuildResponse(c) \/ WriteDirect(c) \/ Send(c)
  BY <1>5 DEF BuildResponse, WriteDirect, Send
<1>6. CASE UsesStore(c)
  BY <1>6 DEF UsesStore, FormatBody, PrintCaptured
<1>7. CASE SendFails(c)
  BY <1>7 DEF SendFails
<1> QED
  BY <1>1, <1>2, <1>3, <1>4, <1>5, <1>6, <1>7 DEF HandlesRequest

LEMMA NotYetKeeps == NotYet /\ [ServerNext]_all_vars => NotYet'
<1> SUFFICES ASSUME NotYet, [ServerNext]_all_vars PROVE NotYet'
  OBVIOUS
<1>1. ASSUME UNCHANGED <<pc, net>> PROVE NotYet'
  BY <1>1 DEF NotYet
<1>2. ASSUME NEW c \in Conns, NEW label \in Labels,
             UNCHANGED net, pc[c] # "none", pc' = [pc EXCEPT ![c] = label]
      PROVE  NotYet'
  BY <1>2 DEF NotYet
<1>3. ASSUME NEW how, Ends(how) PROVE NotYet'
  BY <1>3 DEF Ends, NotYet, Labels
<1>4. CASE Configure \/ Launch \/ Leave \/ AcceptFails \/ Stopped \/ UNCHANGED all_vars
  BY <1>1, <1>4 DEF Configure, Launch, Leave, AcceptFails, Stopped, all_vars,
     handler_vars, main_vars
<1>5. CASE Interrupt
  <2>1. UNCHANGED net
    BY <1>5 DEF Interrupt
  <2>2. UNCHANGED pc \/ \E c \in Conns : pc[c] = "recv" /\ Goto(c, "close")
    BY <1>5 DEF Interrupt
  <2> QED
    BY <1>1, <1>2, <2>1, <2>2 DEF Goto, Labels
<1>6. CASE \E c \in Conns : Spawn(c) \/ HandleOne(c)
  <2>1. PICK c \in Conns : /\ net' = [net EXCEPT ![c] = "accepted"]
                           /\ pc' = [pc EXCEPT ![c] = "recv"]
    BY <1>6 DEF Spawn, HandleOne, Accept, Goto
  <2> QED
    BY <2>1 DEF NotYet, Labels
<1>7. CASE \E c \in Conns : SpawnFails(c) \/ Connect(c) \/ ClientActs(c)
  <2>1. PICK c \in Conns : \/ UNCHANGED <<pc, net>>
                           \/ /\ pc' = pc /\ net[c] # "accepted"
                              /\ \E to \in {"queued", "accepted"} :
                                   net' = [net EXCEPT ![c] = to]
    BY <1>7 DEF SpawnFails, Accept, Queued, Connect, ClientActs, handler_vars,
       handler_rest, main_vars
  <2> QED
    BY <2>1 DEF NotYet
<1>8. CASE Exit
  BY <1>3, <1>8 DEF Exit
<1>9. CASE \E c \in Conns : ThreadRuns(c)
  <2>1. PICK c \in Conns : ThreadRuns(c)
    BY <1>9
  <2>2. CASE (HandlesRequest(c) \/ UsesStore(c) \/ SendFails(c)) /\ UNCHANGED main_vars
    BY <1>2, <2>2, HandlerGoesOn DEF main_vars
  <2>3. CASE KilledBySend(c) \/ KilledByStore(c)
    BY <1>3, <2>3 DEF KilledBySend, KilledByStore
  <2>4. CASE Close(c)
    BY <1>2, <2>4 DEF Close, Goto, Labels
  <2> QED
    BY <2>1, <2>2, <2>3, <2>4 DEF ThreadRuns
<1> QED
  BY <1>4, <1>5, <1>6, <1>7, <1>8, <1>9 DEF ServerNext, MainRuns

(* The invariant and NotYet hold always.                                   *)
LEMMA Invariance == ServerSpec => [](IInv /\ NotYet)
<1>1. ServerInit => IInv /\ NotYet
  <2>1. ServerInit => NotYet
    BY DEF ServerInit, HandlerInit, NotYet, Labels
  <2> QED
    BY <2>1, InitOK
<1>2. IInv /\ NotYet /\ [ServerNext]_all_vars => (IInv /\ NotYet)'
  BY StepOK, NotYetKeeps
<1> QED
  BY <1>1, <1>2, PTL DEF ServerSpec

(* For every hash function and every order in which the routes are added,  *)
(* by the configuration or as the default table, route_table_find misses   *)
(* no route that is the first of its path, and answers for a later one     *)
(* with the route or with a 405 of the path.  The main thread alone adds   *)
(* the configuration; of threads that fill the default table together      *)
(* nothing is claimed.                                                     *)
THEOREM RoutesSeen == ServerSpec => []RoutesAreFound
<1>1. IInv /\ NotYet => RoutesAreFound
  BY TableIsSeen DEF IInv, RoutesAreFound
<1> QED
  BY <1>1, Invariance, PTL

(* A request that no other thread disturbed is answered with its own page: *)
(* body and response buffer, document root, default table and standard     *)
(* output are static, and each is what the thread itself left there.       *)
THEOREM AnswersAreOwn == ServerSpec => []AnswerIsOwn
<1>1. IInv /\ NotYet => AnswerIsOwn
  BY DEF IInv, OwnInv, Fair, Own, AnswerIsOwn
<1> QED
  BY <1>1, Invariance, PTL

=============================================================================
