------------------------- MODULE ResourceRulesProofs -------------------------
(* Proofs about ResourceRules, for any commands callers may send, any number *)
(* of events, any time and any version.                                      *)
EXTENDS ResourceRules, SequenceTheorems, Counting, LeastNumber, TLAPS

Change == {NoChange} \cup
            {[conn |-> c.conn, seq |-> c.seq, content |-> c.content] :
               c \in {d \in Command : d.type = "notify"}}
State == [latest : Change, pendings : [Kind -> Seq(Pending)]]

(* LiveIdsUnique of some lists at some time.                                 *)
LiveUnique(lists, t) ==
    \A k1, k2 \in Kind : \A i \in 1 .. Len(lists[k1]), j \in 1 .. Len(lists[k2]) :
        (lists[k1][i].id = lists[k2][j].id /\ <<k1, i>> # <<k2, j>>)
            => IsExpired(lists[k1][i], t) \/ IsExpired(lists[k2][j], t)

(* The inductive invariant, of a state at a time: a resource without content *)
(* has no pending retrieval, because none is accepted before the content.    *)
StateInv(st, t) ==
    /\ st \in State
    /\ st.latest = NoChange => st.pendings["retrieve"] = << >>
    /\ LiveUnique(st.pendings, t)

IInv ==
    /\ version \in -1 .. MaxVersion
    /\ now \in 0 .. MaxTime
    /\ {e.version : e \in log} = 0 .. version
    /\ StateInv(state, now)

-----------------------------------------------------------------------------
(* Lists of pending requests.                                                *)

(* The list s is the list l without some of its entries.                     *)
Sublist(s, l) ==
    \E g \in [1 .. Len(s) -> 1 .. Len(l)] :
        /\ \A j \in 1 .. Len(s) : s[j] = l[g[j]]
        /\ \A j, k \in 1 .. Len(s) : g[j] = g[k] => j = k

LEMMA SublistSelf ==
    ASSUME NEW s \in Seq(Pending)
    PROVE  Sublist(s, s)
  <1> DEFINE g == [j \in 1 .. Len(s) |-> j]
  <1>1. g \in [1 .. Len(s) -> 1 .. Len(s)]
    OBVIOUS
  <1> QED
    BY <1>1 DEF Sublist

(* Fewer requests do not collide either.                                     *)
LEMMA FewerUnique ==
    ASSUME NEW p \in [Kind -> Seq(Pending)], NEW q \in [Kind -> Seq(Pending)], NEW t,
           LiveUnique(p, t), \A k \in Kind : Sublist(q[k], p[k])
    PROVE  LiveUnique(q, t)
  <1> SUFFICES ASSUME NEW k1 \in Kind, NEW k2 \in Kind,
                      NEW i \in 1 .. Len(q[k1]), NEW j \in 1 .. Len(q[k2]),
                      q[k1][i].id = q[k2][j].id, <<k1, i>> # <<k2, j>>
               PROVE  IsExpired(q[k1][i], t) \/ IsExpired(q[k2][j], t)
    BY DEF LiveUnique
  <1>1. PICK g \in [1 .. Len(q[k1]) -> 1 .. Len(p[k1])] :
            /\ \A x \in 1 .. Len(q[k1]) : q[k1][x] = p[k1][g[x]]
            /\ \A x, y \in 1 .. Len(q[k1]) : g[x] = g[y] => x = y
    BY DEF Sublist
  <1>2. PICK h \in [1 .. Len(q[k2]) -> 1 .. Len(p[k2])] :
            /\ \A x \in 1 .. Len(q[k2]) : q[k2][x] = p[k2][h[x]]
            /\ k1 = k2 => h = g
    <2>1. CASE k1 = k2
      BY <1>1, <2>1
    <2>2. CASE k1 # k2
      BY <2>2 DEF Sublist
    <2> QED
      BY <2>1, <2>2
  <1>3. PICK x \in 1 .. Len(p[k1]) : x = g[i] /\ q[k1][i] = p[k1][x]
    BY <1>1
  <1>4. PICK y \in 1 .. Len(p[k2]) : y = h[j] /\ q[k2][j] = p[k2][y]
    BY <1>2
  <1>5. k1 = k2 => x # y
    <2> SUFFICES ASSUME k1 = k2, x = y PROVE FALSE
      OBVIOUS
    <2>1. g[i] = g[j] /\ j \in 1 .. Len(q[k1])
      BY <1>2, <1>3, <1>4
    <2> QED
      BY <1>1, <2>1
  <1>6. <<k1, x>> # <<k2, y>>
    BY <1>5
  <1> QED
    BY <1>3, <1>4, <1>6 DEF LiveUnique

(* The search for a correlation id among the first n entries.                *)
LEMMA FindIs ==
    ASSUME NEW id, NEW a, NEW n \in Nat
    PROVE  LET at == findResourceOperationPendingIndex(id, a, n)
           IN /\ at \in 0 .. n
              /\ at > 0 => a[at].id = id
              /\ (\E i \in 1 .. n : a[i].id = id) => at > 0
  <1> DEFINE at == findResourceOperationPendingIndex(id, a, n)
             T == {i \in 1 .. n : a[i].id = id}
  <1>1. CASE \E i \in 1 .. n : a[i].id = id
    <2>1. T \in SUBSET Nat /\ T # {}
      BY <1>1
    <2>2. PICK x \in T : \A y \in T : x <= y
      BY <2>1, Least
    <2>3. x \in 1 .. n /\ a[x].id = id /\ \A j \in 1 .. x - 1 : a[j].id # id
      BY <2>2
    <2>4. at \in 1 .. n /\ a[at].id = id
      BY <1>1, <2>3 DEF findResourceOperationPendingIndex
    <2> QED
      BY <2>4
  <1>2. CASE ~ \E i \in 1 .. n : a[i].id = id
    BY <1>2 DEF findResourceOperationPendingIndex
  <1> QED
    BY <1>1, <1>2

(* The confirmation of one request.                                          *)
LEMMA RemovedIs ==
    ASSUME NEW l \in Seq(Pending), NEW at \in 1 .. Len(l)
    PROVE  /\ RemovePending(l, at) \in Seq(Pending) /\ Sublist(RemovePending(l, at), l)
           /\ Len(RemovePending(l, at)) = Len(l) - 1
           /\ \A j \in 1 .. Len(l) - 1 :
                 RemovePending(l, at)[j] = l[IF j < at THEN j ELSE j + 1]
  <1> DEFINE n == Len(l)
             a == RemoveInPlace(l, at, n)
             s == RemovePending(l, at)
             g == [j \in 1 .. n - 1 |-> IF j < at THEN j ELSE j + 1]
  <1>1. a \in Seq(Pending) /\ Len(a) = n /\ n \in Nat \ {0}
        /\ \A j \in 1 .. n : a[j] = IF at <= j /\ j < n THEN l[j + 1] ELSE l[j]
    <2>1. a = [j \in 1 .. n |-> IF at <= j /\ j < n THEN l[j + 1] ELSE l[j]] /\ n \in Nat \ {0}
      BY DEF RemoveInPlace
    <2> HIDE DEF a
    <2>2. a \in [1 .. n -> Pending]
      BY <2>1
    <2> QED
      BY <2>1, <2>2
  <1>2. s = SubSeq(a, 1, n - 1)
    BY DEF RemovePending
  <1> HIDE DEF a, s
  <1>3. s \in Seq(Pending) /\ Len(s) = n - 1 /\ \A j \in 1 .. n - 1 : s[j] = a[j]
    BY <1>1, <1>2
  <1>4. g \in [1 .. Len(s) -> 1 .. n]
    BY <1>1, <1>3
  <1>5. \A j \in 1 .. Len(s) : s[j] = l[g[j]]
    BY <1>1, <1>3
  <1>6. \A j, k \in 1 .. Len(s) : g[j] = g[k] => j = k
    BY <1>1, <1>3
  <1>7. \A j \in 1 .. n - 1 : s[j] = l[IF j < at THEN j ELSE j + 1]
    BY <1>1, <1>3
  <1> HIDE DEF g
  <1>8. Sublist(s, l)
    BY <1>3, <1>4, <1>5, <1>6 DEF Sublist
  <1> QED
    BY <1>3, <1>7, <1>8 DEF s

-----------------------------------------------------------------------------
(* The loop that cancels requests while their list shifts under it.          *)

Start(list) == [array |-> list, n |-> Len(list), ids |-> << >>]

(* f holds the states of the first m rounds of the loop.                     *)
Rounds(f, m, list, filter) ==
    f = [i \in 0 .. m |-> IF i = 0 THEN Start(list) ELSE cancelPending(f[i - 1], i, filter)]

LEMMA LoopExists ==
    ASSUME NEW list, NEW filter, NEW m \in Nat
    PROVE  \E f : Rounds(f, m, list, filter)
  <1> DEFINE T == {k \in Nat : ~ \E f : Rounds(f, k, list, filter)}
  <1> SUFFICES ASSUME T # {} PROVE FALSE
    OBVIOUS
  <1>1. PICK k \in T : \A j \in T : k <= j
    <2>1. T \in SUBSET Nat
      OBVIOUS
    <2> QED
      BY <2>1, Least
  <1>2. k \in Nat /\ ~ \E f : Rounds(f, k, list, filter)
    OBVIOUS
  <1>3. CASE k = 0
    <2> DEFINE f == [i \in 0 .. 0 |-> Start(list)]
    <2>1. \A i \in 0 .. 0 : i = 0
      OBVIOUS
    <2>2. Rounds(f, 0, list, filter)
      BY <2>1 DEF Rounds
    <2> QED
      BY <1>2, <1>3, <2>2
  <1>4. CASE k # 0
    <2>1. k - 1 \in Nat /\ k - 1 \notin T
      BY <1>1, <1>2, <1>4
    <2>2. PICK f : Rounds(f, k - 1, list, filter)
      BY <2>1
    <2> DEFINE h == [i \in 0 .. k |-> IF i = k THEN cancelPending(f[k - 1], k, filter) ELSE f[i]]
    <2>3. \A i \in 0 .. k - 1 : /\ i \in 0 .. k /\ i # k
                                /\ f[i] = IF i = 0 THEN Start(list) ELSE cancelPending(f[i - 1], i, filter)
      BY <1>2, <2>2 DEF Rounds
    <2>4. \A i \in 0 .. k : h[i] = IF i = 0 THEN Start(list) ELSE cancelPending(h[i - 1], i, filter)
      <3> SUFFICES ASSUME NEW i \in 0 .. k
                   PROVE  h[i] = IF i = 0 THEN Start(list) ELSE cancelPending(h[i - 1], i, filter)
        OBVIOUS
      <3>1. CASE i = 0
        BY <1>2, <1>4, <2>3, <3>1
      <3>2. CASE i # 0
        <4>1. i - 1 \in 0 .. k - 1 /\ h[i - 1] = f[i - 1]
          BY <1>2, <3>2
        <4>2. h[i] = cancelPending(f[i - 1], i, filter)
          BY <1>2, <2>3, <3>2
        <4> QED
          BY <3>2, <4>1, <4>2
      <3> QED
        BY <3>1, <3>2
    <2>5. h = [i \in 0 .. k |-> h[i]]
      OBVIOUS
    <2> HIDE DEF h
    <2>6. Rounds(h, k, list, filter)
      BY <2>4, <2>5 DEF Rounds
    <2> QED
      BY <1>2, <2>6
  <1> QED
    BY <1>3, <1>4

LEMMA LoopIs ==
    ASSUME NEW list \in Seq(Pending), NEW filter
    PROVE  \E f : /\ Rounds(f, Len(list), list, filter)
                  /\ cancelResourcePendings(list, filter) =
                       [left |-> SubSeq(f[Len(list)].array, 1, f[Len(list)].n),
                        ids |-> f[Len(list)].ids]
  <1> DEFINE m == Len(list)
             F == CHOOSE f : f = [i \in 0 .. m |-> IF i = 0 THEN [array |-> list, n |-> m, ids |-> << >>]
                                                   ELSE cancelPending(f[i - 1], i, filter)]
  <1>1. cancelResourcePendings(list, filter) = [left |-> SubSeq(F[m].array, 1, F[m].n), ids |-> F[m].ids]
    BY Zenon DEF cancelResourcePendings
  <1>2. \E f : f = [i \in 0 .. m |-> IF i = 0 THEN [array |-> list, n |-> m, ids |-> << >>]
                                     ELSE cancelPending(f[i - 1], i, filter)]
    <2>1. m \in Nat
      OBVIOUS
    <2>2. \E f : Rounds(f, m, list, filter)
      BY <2>1, LoopExists
    <2> QED
      BY <2>2, Zenon DEF Rounds, Start
  <1>3. F = [i \in 0 .. m |-> IF i = 0 THEN [array |-> list, n |-> m, ids |-> << >>]
                              ELSE cancelPending(F[i - 1], i, filter)]
    BY <1>2, Zenon
  <1> HIDE DEF F
  <1>4. Rounds(F, m, list, filter)
    BY <1>3, Zenon DEF Rounds, Start
  <1> QED
    BY <1>1, <1>4

(* What a round of the loop keeps: the live part of the array is the list    *)
(* without some of its entries; and as long as nothing was cancelled, no     *)
(* request so far was named by the filter.                                   *)
RequestIds == {p.id : p \in Pending}

Round(b, i, list, filter) ==
    /\ b.array \in [1 .. Len(list) -> Pending]
    /\ b.n \in 0 .. Len(list)
    /\ b.ids \in Seq(RequestIds)
    /\ \E g \in [1 .. b.n -> 1 .. Len(list)] :
          /\ \A j \in 1 .. b.n : b.array[j] = list[g[j]]
          /\ \A j, k \in 1 .. b.n : g[j] = g[k] => j = k
    /\ b.ids = << >> => /\ b.array = list /\ b.n = Len(list)
                        /\ \A j \in 1 .. i : ~Selects(filter, list[j].id)

LEMMA RoundStep ==
    ASSUME NEW list \in Seq(Pending), NEW filter, NEW i \in 1 .. Len(list), NEW b,
           Round(b, i - 1, list, filter)
    PROVE  Round(cancelPending(b, i, filter), i, list, filter)
  <1> DEFINE id == b.array[i].id
             at == findResourceOperationPendingIndex(id, b.array, b.n)
             m == Len(list)
             c == cancelPending(b, i, filter)
  <1>1. m \in Nat /\ b.n \in Nat /\ b.n \in 0 .. m /\ b.array \in [1 .. m -> Pending]
    BY DEF Round
  <1>0. b.ids \in Seq(RequestIds) /\ id \in RequestIds
    <2>1. b.array[i] \in Pending
      BY <1>1
    <2> QED
      BY <2>1 DEF Round, RequestIds
  <1>2. at \in 0 .. b.n /\ (at > 0 => b.array[at].id = id) /\ ((\E j \in 1 .. b.n : b.array[j].id = id) => at > 0)
    BY <1>1, FindIs
  <1>3. CASE Selects(filter, id) /\ at > 0
    <2> HIDE DEF at, id
    <2> DEFINE a == RemoveInPlace(b.array, at, b.n)
    <2>1. c = [array |-> a, n |-> b.n - 1, ids |-> Append(b.ids, id)]
      BY <1>3 DEF cancelPending, at, id
    <2>2. /\ a \in [1 .. m -> Pending]
          /\ \A j \in 1 .. b.n - 1 : a[j] = IF j < at THEN b.array[j] ELSE b.array[j + 1]
      <3>1. a = [j \in 1 .. m |-> IF at <= j /\ j < b.n THEN b.array[j + 1] ELSE b.array[j]]
        BY <1>1 DEF RemoveInPlace
      <3> HIDE DEF a, c
      <3>2. \A j \in 1 .. m : at <= j /\ j < b.n => j + 1 \in 1 .. m
        BY <1>1
      <3>3. a \in [1 .. m -> Pending]
        BY <1>1, <3>1, <3>2
      <3>4. at \in Nat
        BY <1>1, <1>2
      <3>5. \A j \in 1 .. b.n - 1 : j \in 1 .. m /\ j < b.n
        BY <1>1
      <3> QED
        BY <3>1, <3>3, <3>4, <3>5
    <2>3. PICK g \in [1 .. b.n -> 1 .. m] : /\ \A j \in 1 .. b.n : b.array[j] = list[g[j]]
                                            /\ \A j, k \in 1 .. b.n : g[j] = g[k] => j = k
      BY DEF Round
    <2> DEFINE h == [j \in 1 .. b.n - 1 |-> IF j < at THEN g[j] ELSE g[j + 1]]
    <2>4. h \in [1 .. b.n - 1 -> 1 .. m]
      BY <1>1, <1>2, <2>3
    <2>5. \A j \in 1 .. b.n - 1 : a[j] = list[h[j]]
      BY <1>1, <1>2, <2>2, <2>3
    <2>6. \A j, k \in 1 .. b.n - 1 : h[j] = h[k] => j = k
      <3> SUFFICES ASSUME NEW j \in 1 .. b.n - 1, NEW k \in 1 .. b.n - 1, h[j] = h[k]
                   PROVE  j = k
        OBVIOUS
      <3>1. PICK x \in 1 .. b.n : x = (IF j < at THEN j ELSE j + 1) /\ h[j] = g[x]
        BY <1>1
      <3>2. PICK y \in 1 .. b.n : y = (IF k < at THEN k ELSE k + 1) /\ h[k] = g[y]
        BY <1>1
      <3>3. x = y
        BY <2>3, <3>1, <3>2
      <3> QED
        BY <1>1, <1>2, <3>1, <3>2, <3>3
    <2> HIDE DEF h, a, c
    <2>7. c.array = a /\ c.n = b.n - 1 /\ c.ids = Append(b.ids, id) /\ c.n \in 0 .. m
      BY <1>1, <1>2, <1>3, <2>1
    <2>8. c.ids \in Seq(RequestIds) /\ c.ids # << >>
      <3>1. PICK s \in Seq(RequestIds) : s = b.ids
        BY <1>0
      <3>2. PICK e \in RequestIds : e = id
        BY <1>0
      <3>3. Append(s, e) \in Seq(RequestIds) /\ Append(s, e) # << >>
        OBVIOUS
      <3> QED
        BY <2>7, <3>1, <3>2, <3>3
    <2>9. \E g1 \in [1 .. c.n -> 1 .. m] :
              /\ \A j \in 1 .. c.n : c.array[j] = list[g1[j]]
              /\ \A j, k \in 1 .. c.n : g1[j] = g1[k] => j = k
      <3>1. h \in [1 .. c.n -> 1 .. m]
        BY <2>4, <2>7
      <3>2. \A j \in 1 .. c.n : c.array[j] = list[h[j]]
        BY <2>5, <2>7
      <3>3. \A j, k \in 1 .. c.n : h[j] = h[k] => j = k
        BY <2>6, <2>7
      <3> HIDE DEF m
      <3> QED
        BY <3>1, <3>2, <3>3, Zenon
    <2>10. Round(c, i, list, filter)
      BY <2>2, <2>7, <2>8, <2>9 DEF Round
    <2> QED
      BY <2>10 DEF c
  <1>4. CASE ~(Selects(filter, id) /\ at > 0)
    <2>1. c = b
      BY <1>4 DEF cancelPending
    <2>2. b.ids = << >> => \A j \in 1 .. i : ~Selects(filter, list[j].id)
      <3> SUFFICES ASSUME b.ids = << >> PROVE \A j \in 1 .. i : ~Selects(filter, list[j].id)
        OBVIOUS
      <3>1. b.array = list /\ b.n = m /\ \A j \in 1 .. i - 1 : ~Selects(filter, list[j].id)
        BY DEF Round
      <3>2. at > 0 /\ id = list[i].id
        BY <1>1, <1>2, <3>1
      <3>3. ~Selects(filter, list[i].id)
        BY <1>4, <3>2
      <3>4. \A j \in 1 .. i : j \in 1 .. i - 1 \/ j = i
        OBVIOUS
      <3> QED
        BY <3>1, <3>3, <3>4
    <2> HIDE DEF c
    <2>3. Round(b, i, list, filter)
      BY <2>2 DEF Round
    <2> QED
      BY <2>1, <2>3 DEF c
  <1> QED
    BY <1>3, <1>4

LEMMA RoundsAre ==
    ASSUME NEW list \in Seq(Pending), NEW filter, NEW f, Rounds(f, Len(list), list, filter)
    PROVE  \A i \in 0 .. Len(list) : Round(f[i], i, list, filter)
  <1> DEFINE m == Len(list)
             T == {i \in 0 .. m : ~Round(f[i], i, list, filter)}
  <1> SUFFICES ASSUME T # {} PROVE FALSE
    OBVIOUS
  <1>0. m \in Nat
    OBVIOUS
  <1>1. PICK k \in T : \A j \in T : k <= j
    <2>1. T \in SUBSET Nat
      BY <1>0
    <2> QED
      BY <2>1, Least
  <1>2. k \in 0 .. m /\ ~Round(f[k], k, list, filter)
    OBVIOUS
  <1>3. \A i \in 0 .. m : f[i] = IF i = 0 THEN Start(list) ELSE cancelPending(f[i - 1], i, filter)
    BY DEF Rounds
  <1>4. CASE k = 0
    <2>1. f[k] = Start(list)
      BY <1>2, <1>3, <1>4
    <2> DEFINE b == Start(list)
               g == [j \in 1 .. m |-> j]
    <2>2. b.array = list /\ b.n = m /\ b.ids = << >>
      BY DEF Start
    <2>3. b.array \in [1 .. m -> Pending] /\ b.n \in 0 .. m /\ b.ids \in Seq(RequestIds)
      BY <1>0, <2>2
    <2>4. /\ g \in [1 .. m -> 1 .. m] /\ \A j \in 1 .. m : list[j] = list[g[j]]
          /\ \A j, l \in 1 .. m : g[j] = g[l] => j = l
      OBVIOUS
    <2>5. \A j \in 1 .. k : ~Selects(filter, list[j].id)
      BY <1>4
    <2> HIDE DEF g, b
    <2>6. \E h \in [1 .. b.n -> 1 .. m] :
             /\ \A j \in 1 .. b.n : b.array[j] = list[h[j]]
             /\ \A j, l \in 1 .. b.n : h[j] = h[l] => j = l
      <3>1. /\ g \in [1 .. b.n -> 1 .. m] /\ \A j \in 1 .. b.n : b.array[j] = list[g[j]]
            /\ \A j, l \in 1 .. b.n : g[j] = g[l] => j = l
        BY <2>2, <2>4, Zenon
      <3> QED
        BY <3>1, Zenon
    <2>7. Round(b, k, list, filter)
      BY <2>2, <2>3, <2>5, <2>6, Zenon DEF Round
    <2> QED
      BY <1>2, <2>1, <2>7 DEF b
  <1>5. CASE k # 0
    <2>1. k - 1 \in 0 .. m /\ k \in 1 .. m /\ k - 1 \notin T
      BY <1>0, <1>1, <1>2, <1>5
    <2>2. Round(f[k - 1], k - 1, list, filter)
      BY <2>1
    <2>3. f[k] = cancelPending(f[k - 1], k, filter)
      BY <1>3, <1>5, <2>1
    <2>4. Round(f[k], k, list, filter)
      BY <2>1, <2>2, <2>3, RoundStep
    <2> QED
      BY <1>2, <2>4
  <1> QED
    BY <1>4, <1>5

(* What cancelling leaves of a list, and that it names what it has removed.  *)
LEMMA CanceledIs ==
    ASSUME NEW list \in Seq(Pending), NEW filter
    PROVE  LET run == cancelResourcePendings(list, filter)
           IN /\ run.left \in Seq(Pending)
              /\ Sublist(run.left, list)
              /\ run.ids \in Seq(RequestIds)
              /\ (\E j \in 1 .. Len(list) : Selects(filter, list[j].id)) => run.ids # << >>
              /\ list = << >> => run.ids = << >>
  <1> DEFINE m == Len(list)
             run == cancelResourcePendings(list, filter)
  <1>1. PICK f : /\ Rounds(f, m, list, filter)
                 /\ run = [left |-> SubSeq(f[m].array, 1, f[m].n), ids |-> f[m].ids]
    BY LoopIs
  <1> HIDE DEF run
  <1>2. m \in Nat /\ m \in 0 .. m
    OBVIOUS
  <1>3. PICK b : b = f[m]
    OBVIOUS
  <1>4. Round(b, m, list, filter)
    BY <1>1, <1>2, <1>3, RoundsAre
  <1>5. run.left = SubSeq(b.array, 1, b.n) /\ run.ids = b.ids
    BY <1>1, <1>3
  <1>6. b.array \in Seq(Pending) /\ Len(b.array) = m /\ b.n \in 0 .. m
    <2>1. PICK a \in [1 .. m -> Pending] : a = b.array
      BY <1>4 DEF Round
    <2>2. a \in Seq(Pending) /\ Len(a) = m
      BY <1>2
    <2> QED
      BY <1>4, <2>1, <2>2 DEF Round
  <1>7. /\ run.left \in Seq(Pending) /\ Len(run.left) = b.n
        /\ \A j \in 1 .. b.n : run.left[j] = b.array[j]
    BY <1>2, <1>5, <1>6
  <1>8. Sublist(run.left, list)
    <2>1. PICK g \in [1 .. b.n -> 1 .. m] : /\ \A j \in 1 .. b.n : b.array[j] = list[g[j]]
                                            /\ \A j, k \in 1 .. b.n : g[j] = g[k] => j = k
      BY <1>4 DEF Round
    <2>2. PICK s : s = run.left
      OBVIOUS
    <2>3. /\ g \in [1 .. Len(s) -> 1 .. m] /\ \A j \in 1 .. Len(s) : s[j] = list[g[j]]
          /\ \A j, k \in 1 .. Len(s) : g[j] = g[k] => j = k
      BY <1>7, <2>1, <2>2
    <2> QED
      BY <2>2, <2>3 DEF Sublist
  <1>9. run.ids \in Seq(RequestIds)
    BY <1>4, <1>5 DEF Round
  <1>10. (\E j \in 1 .. Len(list) : Selects(filter, list[j].id)) => run.ids # << >>
    BY <1>4, <1>5 DEF Round
  <1>11. list = << >> => run.ids = << >>
    <2> SUFFICES ASSUME list = << >> PROVE run.ids = << >>
      OBVIOUS
    <2>1. m = 0 /\ 0 \in 0 .. m
      OBVIOUS
    <2>2. f[0] = Start(list)
      BY <1>1, <2>1 DEF Rounds
    <2> QED
      BY <1>3, <1>5, <2>1, <2>2 DEF Start
  <1> QED
    BY <1>7, <1>8, <1>9, <1>10, <1>11 DEF run

-----------------------------------------------------------------------------
(* Commands.                                                                 *)

(* Other lists with fewer requests.                                          *)
LEMMA ListsThinned ==
    ASSUME NEW st, NEW m, StateInv(st, m), NEW q \in [Kind -> Seq(Pending)],
           \A k \in Kind : Sublist(q[k], st.pendings[k]),
           NEW new, new = [st EXCEPT !.pendings = q]
    PROVE  StateInv(new, m) /\ new.latest = st.latest
  <1>1. /\ st \in State /\ st.pendings \in [Kind -> Seq(Pending)]
        /\ new \in State /\ new.latest = st.latest /\ new.pendings = q
    BY DEF StateInv, State
  <1>2. LiveUnique(q, m)
    BY <1>1, FewerUnique DEF StateInv
  <1>3. st.latest = NoChange => q["retrieve"] = << >>
    <2> SUFFICES ASSUME st.latest = NoChange PROVE q["retrieve"] = << >>
      OBVIOUS
    <2>1. st.pendings["retrieve"] = << >> /\ "retrieve" \in Kind
      BY DEF StateInv, Kind
    <2>2. Len(st.pendings["retrieve"]) = 0 /\ q["retrieve"] \in Seq(Pending)
      BY <2>1
    <2>3. PICK g \in [1 .. Len(q["retrieve"]) -> 1 .. Len(st.pendings["retrieve"])] : TRUE
      BY <2>1 DEF Sublist
    <2>4. ASSUME Len(q["retrieve"]) > 0 PROVE FALSE
      <3>1. 1 \in 1 .. Len(q["retrieve"])
        BY <2>2, <2>4
      <3>2. g[1] \in 1 .. 0
        BY <2>2, <2>3, <3>1
      <3> QED
        BY <3>2
    <2> QED
      BY <2>2, <2>4
  <1> QED
    BY <1>1, <1>2, <1>3 DEF StateInv

LEMMA NotifyHandled ==
    ASSUME NEW st, NEW m, StateInv(st, m), NEW c \in Command, c.type = "notify",
           NEW r, r = handleNotifyResourceChangedRequest(st, c)
    PROVE  /\ StateInv(r.state, m)
           /\ r.state.latest # st.latest =>
                (r.state.latest.conn = st.latest.conn => r.state.latest.seq > st.latest.seq)
  <1> DEFINE change == [conn |-> c.conn, seq |-> c.seq, content |-> c.content]
  <1>1. change \in Change /\ change.conn # NoChange.conn /\ change.seq \in Nat
    BY RulesConstants DEF Change
  <1>2. \/ r.state = st
        \/ /\ r.state = [st EXCEPT !.latest = change]
           /\ st.latest = NoChange \/ ValidateSequence(st.latest, change)
    BY DEF handleNotifyResourceChangedRequest, Accepted
  <1> HIDE DEF change
  <1>3. st \in State /\ st.latest \in Change
    BY DEF StateInv, State
  <1>4. CASE r.state = st
    BY <1>4
  <1>5. CASE /\ r.state = [st EXCEPT !.latest = change]
             /\ st.latest = NoChange \/ ValidateSequence(st.latest, change)
    <2>1. r.state \in State /\ r.state.latest = change /\ r.state.pendings = st.pendings
      BY <1>1, <1>3, <1>5 DEF State
    <2>2. change # NoChange
      BY <1>1
    <2>3. StateInv(r.state, m)
      BY <2>1, <2>2 DEF StateInv
    <2>4. change.conn = st.latest.conn => change.seq > st.latest.seq
      <3>1. st.latest.seq \in Nat
        BY <1>3, RulesConstants DEF Change, NoChange
      <3> QED
        BY <1>1, <1>5, <3>1 DEF ValidateSequence
    <2> QED
      BY <2>1, <2>3, <2>4
  <1> QED
    BY <1>2, <1>4, <1>5

LEMMA RequestHandled ==
    ASSUME NEW st, NEW m \in Nat, StateInv(st, m), NEW t \in 0 .. m,
           NEW c \in Command, c.type = "request",
           c.kind = "retrieve" => st.latest # NoChange,
           NEW r, r = handleResourceRequest(st, c, t)
    PROVE  StateInv(r.state, m) /\ r.state.latest = st.latest
  <1> DEFINE p == [id |-> c.id, validUntil |-> timeToLive2ValidUntil(c.ttl, t)]
             l == st.pendings
  <1>1. c.kind \in Kind /\ c.ttl \in Nat /\ t \in Nat
    BY RulesConstants
  <1>2. p \in Pending /\ p.id = c.id
    BY <1>1 DEF Pending, timeToLive2ValidUntil
  <1>3. \/ r.state = st
        \/ /\ r.state = handleEventPending(st, c.kind, p)
           /\ checkForDuplicityCorrelationID(st, c.id, t)
    BY DEF handleResourceRequest, Accepted, Rejected
  <1> HIDE DEF p
  <1>4. st \in State /\ l \in [Kind -> Seq(Pending)]
    BY DEF StateInv, State
  <1>5. CASE r.state = st
    BY <1>5
  <1>6. CASE /\ r.state = handleEventPending(st, c.kind, p)
             /\ checkForDuplicityCorrelationID(st, c.id, t)
    <2> DEFINE k == c.kind
               n == Len(l[k])
               q == [l EXCEPT ![k] = Append(l[k], p)]
    <2>1. r.state = [st EXCEPT !.pendings = q]
      BY <1>6 DEF handleEventPending
    <2>2. /\ q \in [Kind -> Seq(Pending)] /\ n \in Nat
          /\ \A x \in Kind : x # k => q[x] = l[x]
          /\ Len(q[k]) = n + 1 /\ q[k][n + 1] = p
          /\ \A i \in 1 .. n : q[k][i] = l[k][i]
      <3>1. l[k] \in Seq(Pending) /\ q[k] = Append(l[k], p)
        BY <1>1, <1>4
      <3>2. PICK s \in Seq(Pending) : s = l[k]
        BY <3>1
      <3>3. /\ Append(s, p) \in Seq(Pending) /\ Len(Append(s, p)) = Len(s) + 1 /\ Len(s) \in Nat
            /\ Append(s, p)[Len(s) + 1] = p
            /\ \A i \in 1 .. Len(s) : Append(s, p)[i] = s[i]
        BY <1>2
      <3> QED
        BY <1>1, <1>4, <3>1, <3>2, <3>3
    <2>3. ASSUME NEW x \in Kind, NEW i \in 1 .. Len(l[x]), l[x][i].id = p.id
          PROVE  IsExpired(l[x][i], m)
      <3>1. i \in DOMAIN l[x] /\ l[x][i] \in Pending
        BY <1>4
      <3>2. IsExpired(l[x][i], t)
        BY <1>2, <1>6, <2>3, <3>1 DEF checkForDuplicityCorrelationID
      <3>3. PICK e \in Pending : e = l[x][i]
        BY <3>1
      <3>4. e.validUntil \in Nat
        BY DEF Pending
      <3> QED
        BY <1>1, <3>2, <3>3, <3>4 DEF IsExpired
    <2>4. r.state \in State /\ r.state.latest = st.latest /\ r.state.pendings = q
      BY <1>4, <2>1, <2>2 DEF State
    <2> HIDE DEF q
    <2>5. LiveUnique(q, m)
      <3> SUFFICES ASSUME NEW k1 \in Kind, NEW k2 \in Kind,
                          NEW i \in 1 .. Len(q[k1]), NEW j \in 1 .. Len(q[k2]),
                          q[k1][i].id = q[k2][j].id, <<k1, i>> # <<k2, j>>
                   PROVE  IsExpired(q[k1][i], m) \/ IsExpired(q[k2][j], m)
        BY DEF LiveUnique
      <3>1. \/ k1 = k /\ i = n + 1
            \/ i \in 1 .. Len(l[k1]) /\ q[k1][i] = l[k1][i]
        <4>1. CASE k1 = k
          <5>1. n \in Nat /\ i \in 1 .. n + 1
            BY <2>2, <4>1
          <5>2. i = n + 1 \/ i \in 1 .. n
            <6> HIDE DEF n
            <6> QED
              BY <5>1
          <5> QED
            BY <2>2, <4>1, <5>2
        <4>2. CASE k1 # k
          BY <2>2, <4>2
        <4> QED
          BY <4>1, <4>2
      <3>2. \/ k2 = k /\ j = n + 1
            \/ j \in 1 .. Len(l[k2]) /\ q[k2][j] = l[k2][j]
        <4>1. CASE k2 = k
          <5>1. n \in Nat /\ j \in 1 .. n + 1
            BY <2>2, <4>1
          <5>2. j = n + 1 \/ j \in 1 .. n
            <6> HIDE DEF n
            <6> QED
              BY <5>1
          <5> QED
            BY <2>2, <4>1, <5>2
        <4>2. CASE k2 # k
          BY <2>2, <4>2
        <4> QED
          BY <4>1, <4>2
      <3>3. CASE k1 = k /\ i = n + 1 /\ k2 = k /\ j = n + 1
        BY <3>3
      <3>4. CASE k1 = k /\ i = n + 1 /\ j \in 1 .. Len(l[k2]) /\ q[k2][j] = l[k2][j]
        BY <2>2, <2>3, <3>4
      <3>5. CASE k2 = k /\ j = n + 1 /\ i \in 1 .. Len(l[k1]) /\ q[k1][i] = l[k1][i]
        BY <2>2, <2>3, <3>5
      <3>6. CASE /\ i \in 1 .. Len(l[k1]) /\ q[k1][i] = l[k1][i]
                 /\ j \in 1 .. Len(l[k2]) /\ q[k2][j] = l[k2][j]
        BY <3>6 DEF StateInv, LiveUnique
      <3> QED
        BY <3>1, <3>2, <3>3, <3>4, <3>5, <3>6
    <2>6. st.latest = NoChange => q["retrieve"] = << >>
      BY <2>2 DEF StateInv, Kind
    <2> QED
      BY <2>4, <2>5, <2>6 DEF StateInv
  <1> QED
    BY <1>3, <1>5, <1>6

LEMMA ConfirmHandled ==
    ASSUME NEW st, NEW m, StateInv(st, m), NEW c \in Command, c.type = "confirm",
           NEW r, r = confirmResourceRequest(st, c)
    PROVE  StateInv(r.state, m) /\ r.state.latest = st.latest
  <1> DEFINE k == c.kind
             l == st.pendings
             at == findResourceOperationPendingIndex(c.id, l[k], Len(l[k]))
  <1>1. k \in Kind /\ st \in State /\ l \in [Kind -> Seq(Pending)] /\ l[k] \in Seq(Pending)
    BY RulesConstants DEF StateInv, State
  <1>2. \/ r.state = st
        \/ r.state = [st EXCEPT !.pendings = [x \in Kind |-> << >>]]
        \/ /\ at > 0
           /\ r.state = [st EXCEPT !.pendings = [l EXCEPT ![k] = RemovePending(l[k], at)]]
    BY DEF confirmResourceRequest, Accepted, Rejected
  <1>3. at \in 0 .. Len(l[k])
    BY <1>1, FindIs
  <1> HIDE DEF at
  <1>4. CASE r.state = st
    BY <1>4
  <1>5. CASE r.state = [st EXCEPT !.pendings = [x \in Kind |-> << >>]]
    <2> DEFINE q == [x \in Kind |-> << >>]
    <2>1. q \in [Kind -> Seq(Pending)] /\ \A x \in Kind : q[x] = << >>
      OBVIOUS
    <2>2. \A s : Sublist(<< >>, s)
      <3> TAKE s
      <3> DEFINE e == << >>
                 g == [j \in 1 .. Len(e) |-> j]
      <3>1. Len(e) = 0 /\ 1 .. Len(e) = {}
        OBVIOUS
      <3> HIDE DEF e
      <3>2. g \in [1 .. Len(e) -> 1 .. Len(s)]
        BY <3>1
      <3>3. Sublist(e, s)
        BY <3>1, <3>2 DEF Sublist
      <3> QED
        BY <3>3 DEF e
    <2>3. r.state = [st EXCEPT !.pendings = q]
      BY <1>5
    <2>4. \A x \in Kind : Sublist(q[x], st.pendings[x])
      BY <2>1, <2>2
    <2> HIDE DEF q
    <2> QED
      BY <2>1, <2>3, <2>4, ListsThinned
  <1>6. CASE /\ at > 0
             /\ r.state = [st EXCEPT !.pendings = [l EXCEPT ![k] = RemovePending(l[k], at)]]
    <2> DEFINE s == RemovePending(l[k], at)
               q == [l EXCEPT ![k] = s]
    <2>1. at \in 1 .. Len(l[k])
      BY <1>1, <1>3, <1>6
    <2>2. s \in Seq(Pending) /\ Sublist(s, l[k])
      BY <1>1, <2>1, RemovedIs
    <2> HIDE DEF s
    <2>3. q \in [Kind -> Seq(Pending)] /\ \A x \in Kind : Sublist(q[x], l[x])
      BY <1>1, <2>2, SublistSelf
    <2>4. r.state = [st EXCEPT !.pendings = q]
      BY <1>6 DEF s
    <2> HIDE DEF q
    <2> QED
      BY <2>3, <2>4, ListsThinned
  <1> QED
    BY <1>2, <1>4, <1>5, <1>6

LEMMA CancelHandled ==
    ASSUME NEW st, NEW m, StateInv(st, m), NEW c,
           NEW r, r = CancelPendingCommandsRequest(st, c)
    PROVE  StateInv(r.state, m) /\ r.state.latest = st.latest
  <1> DEFINE q == [k \in Kind |-> cancelResourcePendings(st.pendings[k], c.filter).left]
  <1>1. \/ r.state = st
        \/ r.state = [st EXCEPT !.pendings = q]
    BY DEF CancelPendingCommandsRequest, Accepted, Rejected
  <1>2. st.pendings \in [Kind -> Seq(Pending)]
    BY DEF StateInv, State
  <1>3. q \in [Kind -> Seq(Pending)] /\ \A k \in Kind : Sublist(q[k], st.pendings[k])
    BY <1>2, CanceledIs
  <1> HIDE DEF q
  <1> QED
    BY <1>1, <1>3, ListsThinned

LEMMA CommandHandled ==
    ASSUME NEW st, NEW m \in Nat, StateInv(st, m), NEW t \in 0 .. m, NEW c \in Command,
           NEW r, r = ResourceHandleCommand(st, c, t)
    PROVE  /\ StateInv(r.state, m)
           /\ r.state.latest # st.latest =>
                (r.state.latest.conn = st.latest.conn => r.state.latest.seq > st.latest.seq)
  <1>1. CASE ~validateCommandForNotExistingResource(st, c)
    BY <1>1 DEF ResourceHandleCommand, Rejected
  <1>2. CASE validateCommandForNotExistingResource(st, c)
    <2>1. CASE c.type = "notify"
      BY <1>2, <2>1, NotifyHandled DEF ResourceHandleCommand
    <2>2. CASE c.type = "request"
      <3>1. r = handleResourceRequest(st, c, t)
        BY <1>2, <2>2 DEF ResourceHandleCommand
      <3>2. c.kind = "retrieve" => st.latest # NoChange
        BY <1>2, <2>2 DEF validateCommandForNotExistingResource
      <3> QED
        BY <2>2, <3>1, <3>2, RequestHandled
    <2>3. CASE c.type = "confirm"
      BY <1>2, <2>3, ConfirmHandled DEF ResourceHandleCommand
    <2>4. CASE c.type = "cancel"
      BY <1>2, <2>4, CancelHandled DEF ResourceHandleCommand
    <2> QED
      BY <2>1, <2>2, <2>3, <2>4, RulesConstants
  <1> QED
    BY <1>1, <1>2

-----------------------------------------------------------------------------
(* The aggregate.                                                            *)

LEMMA Initially == Init => IInv
  <1> SUFFICES ASSUME Init PROVE IInv
    OBVIOUS
  <1>1. version = -1 /\ now = 0 /\ log = {} /\ state = NewResourceStateSnapshotTaken
    BY DEF Init
  <1>2. state \in State /\ \A k \in Kind : state.pendings[k] = << >>
    BY <1>1 DEF NewResourceStateSnapshotTaken, State, Change
  <1>3. LiveUnique(state.pendings, now)
    BY <1>2 DEF LiveUnique
  <1>4. StateInv(state, now)
    BY <1>2, <1>3 DEF StateInv, Kind
  <1>5. {e.version : e \in log} = 0 .. version
    BY <1>1
  <1> QED
    BY <1>1, <1>4, <1>5, RulesConstants DEF IInv

(* What a command that leaves a trace does.                                  *)
LEMMA Executed ==
    ASSUME NEW c, Execute(c)
    PROVE  \E t \in 0 .. now, n \in 1 .. MaxEvents : \E events :
              /\ version' = version + n
              /\ state' = ResourceHandleCommand(state, c, t).state
              /\ log' = log \cup Numbered(events, version + 1, n)
              /\ now' = now
  BY DEF Execute

LEMMA Preserved ==
    ASSUME IInv, [RulesNext]_vars
    PROVE  /\ IInv'
           /\ state'.latest # state.latest =>
                (state'.latest.conn = state.latest.conn => state'.latest.seq > state.latest.seq)
  <1>0. /\ version \in -1 .. MaxVersion /\ now \in 0 .. MaxTime /\ now \in Nat
        /\ MaxVersion \in Nat /\ MaxTime \in Nat /\ MaxEvents \in Nat
    BY RulesConstants DEF IInv
  <1>1. CASE UNCHANGED vars
    BY <1>1 DEF IInv, vars
  <1>2. CASE Tick
    <2>1. now' = now + 1 /\ now < MaxTime /\ UNCHANGED <<version, state, log>>
      BY <1>2 DEF Tick
    <2>2. StateInv(state, now + 1)
      <3>1. StateInv(state, now)
        BY DEF IInv
      <3>2. ASSUME NEW k \in Kind, NEW i \in 1 .. Len(state.pendings[k]),
                   IsExpired(state.pendings[k][i], now)
            PROVE  IsExpired(state.pendings[k][i], now + 1)
        <4>1. PICK e \in Pending : e = state.pendings[k][i]
          BY <3>1 DEF StateInv, State
        <4>2. e.validUntil \in Nat
          BY DEF Pending
        <4> QED
          BY <1>0, <3>2, <4>1, <4>2 DEF IsExpired
      <3>3. LiveUnique(state.pendings, now + 1)
        BY <3>1, <3>2 DEF StateInv, LiveUnique
      <3> QED
        BY <3>1, <3>3 DEF StateInv
    <2> QED
      BY <1>0, <2>1, <2>2 DEF IInv
  <1>3. ASSUME NEW c \in Command, Execute(c), version' <= MaxVersion
        PROVE  /\ IInv'
               /\ state'.latest # state.latest =>
                    (state'.latest.conn = state.latest.conn => state'.latest.seq > state.latest.seq)
    <2>0. PICK t \in 0 .. now, n \in 1 .. MaxEvents : \E events :
              /\ version' = version + n
              /\ state' = ResourceHandleCommand(state, c, t).state
              /\ log' = log \cup Numbered(events, version + 1, n)
              /\ now' = now
      BY <1>3, Executed
    <2>1. PICK events :
              /\ version' = version + n
              /\ state' = ResourceHandleCommand(state, c, t).state
              /\ log' = log \cup Numbered(events, version + 1, n)
              /\ now' = now
      BY <2>0
    <2>2. PICK r : r = ResourceHandleCommand(state, c, t)
      OBVIOUS
    <2>3. /\ StateInv(r.state, now)
          /\ r.state.latest # state.latest =>
               (r.state.latest.conn = state.latest.conn => r.state.latest.seq > state.latest.seq)
      BY <1>0, <2>2, CommandHandled DEF IInv
    <2>4. {e.version : e \in log'} = 0 .. version'
      <3> DEFINE N == Numbered(events, version + 1, n)
      <3>1. {e.version : e \in N} = {version + i : i \in 1 .. n}
        <4>1. ASSUME NEW i \in 1 .. n PROVE version + 1 + i - 1 = version + i
          BY <1>0
        <4>2. N = {[version |-> version + i, event |-> events[i]] : i \in 1 .. n}
          BY <4>1 DEF Numbered
        <4> HIDE DEF N
        <4>3. ASSUME NEW e \in N PROVE e.version \in {version + i : i \in 1 .. n}
          BY <4>2
        <4>4. ASSUME NEW i \in 1 .. n PROVE \E e \in N : e.version = version + i
          <5>1. [version |-> version + i, event |-> events[i]] \in N
            BY <4>2
          <5> QED
            BY <5>1
        <4> QED
          BY <4>3, <4>4
      <3>2. {version + i : i \in 1 .. n} = version + 1 .. version + n
        <4>1. ASSUME NEW x \in version + 1 .. version + n
              PROVE  x \in {version + i : i \in 1 .. n}
          <5>1. x - version \in 1 .. n /\ x = version + (x - version)
            BY <1>0
          <5> QED
            BY <5>1
        <4>2. ASSUME NEW i \in 1 .. n
              PROVE  version + i \in version + 1 .. version + n
          BY <1>0
        <4> QED
          BY <4>1, <4>2
      <3> HIDE DEF N
      <3>3. {e.version : e \in log'} = {e.version : e \in log} \cup {e.version : e \in N}
        BY <2>1 DEF N
      <3>4. {e.version : e \in log} = 0 .. version
        BY DEF IInv
      <3>5. (0 .. version) \cup (version + 1 .. version + n) = 0 .. version + n
        BY <1>0
      <3> QED
        BY <2>1, <3>1, <3>2, <3>3, <3>4, <3>5
    <2>5. version' \in -1 .. MaxVersion
      BY <1>0, <1>3, <2>1
    <2> QED
      BY <1>0, <2>1, <2>2, <2>3, <2>4, <2>5 DEF IInv
  <1> QED
    BY <1>1, <1>2, <1>3 DEF RulesNext

LEMMA Invariance == RulesSpec => []IInv
  <1>1. Init => IInv
    BY Initially
  <1>2. IInv /\ [RulesNext]_vars => IInv'
    BY Preserved
  <1> QED
    BY <1>1, <1>2, PTL DEF RulesSpec

-----------------------------------------------------------------------------
(* The theorems.                                                             *)

(* Whatever commands arrive, the snapshot holds a change some device sent    *)
(* and lists of requests, and the events stored have the versions from 0 on  *)
(* without a gap (ResourceStateSnapshotTaken).                               *)
THEOREM TypeCorrect == RulesSpec => []TypeOK
  <1>1. IInv => TypeOK
    BY DEF IInv, TypeOK, StateInv, State, Change
  <1> QED
    BY <1>1, Invariance, PTL

(* Two requests that have not expired never share a correlation id, whatever *)
(* is asked, answered, expires or is cancelled in the meantime               *)
(* (checkForDuplicityCorrelationID, cancelResource...Pendings).              *)
THEOREM LiveIdsAreUnique == RulesSpec => []LiveIdsUnique
  <1>1. IInv => LiveIdsUnique
    <2> SUFFICES ASSUME IInv PROVE LiveIdsUnique
      OBVIOUS
    <2>1. \A k \in Kind : DOMAIN state.pendings[k] = 1 .. Len(state.pendings[k])
      BY DEF IInv, StateInv, State
    <2> QED
      BY <2>1 DEF IInv, StateInv, LiveUnique, LiveIdsUnique
  <1> QED
    BY <1>1, Invariance, PTL

(* Notifications of one connection processed out of order never bring back   *)
(* older content: no other command touches the content, and a change from    *)
(* the connection of the latest one has a larger sequence number             *)
(* (ValidateSequence).                                                       *)
THEOREM ContentAdvances == RulesSpec => ConnectionAdvances
  <1>1. IInv /\ [RulesNext]_vars =>
          [(state'.latest # state.latest /\ state'.latest.conn = state.latest.conn)
             => state'.latest.seq > state.latest.seq]_vars
    BY Preserved
  <1> QED
    BY <1>1, Invariance, PTL DEF RulesSpec, ConnectionAdvances

(* The device's refusal of a pending request.                                *)
LEMMA RefusalAccepted ==
    ASSUME NEW st, NEW t, StateInv(st, t), NEW k \in Kind, NEW i \in 1 .. Len(st.pendings[k]),
           NEW id, id = st.pendings[k][i].id
    PROVE  ResourceHandleCommand(st, Confirm(k, id, "ERROR"), t).ok
  <1> DEFINE c == Confirm(k, id, "ERROR")
             l == st.pendings[k]
             at == findResourceOperationPendingIndex(id, l, Len(l))
  <1>1. c.type = "confirm" /\ c.kind = k /\ c.id = id /\ c.status = "ERROR"
    BY DEF Confirm
  <1>2. l \in Seq(Pending)
    BY DEF StateInv, State
  <1>3. at > 0
    BY <1>2, FindIs
  <1>4. st.latest = NoChange => k # "retrieve"
    BY DEF StateInv
  <1> HIDE DEF c
  <1>5. validateCommandForNotExistingResource(st, c)
    BY <1>1, <1>3, <1>4 DEF validateCommandForNotExistingResource, HasPending
  <1>6. ResourceHandleCommand(st, c, t) = confirmResourceRequest(st, c)
    BY <1>1, <1>5 DEF ResourceHandleCommand
  <1>7. ~DeletesResource(c.kind, c.status)
    BY <1>1 DEF DeletesResource
  <1>8. confirmResourceRequest(st, c).ok
    BY <1>1, <1>3, <1>7 DEF confirmResourceRequest, Accepted
  <1> QED
    BY <1>6, <1>8 DEF c

(* A user's cancellation of it.                                              *)
LEMMA CancellationAccepted ==
    ASSUME NEW st, NEW t, StateInv(st, t), NEW k \in Kind, NEW i \in 1 .. Len(st.pendings[k]),
           NEW id, id = st.pendings[k][i].id
    PROVE  ResourceHandleCommand(st, Cancel({id}), t).ok
  <1> DEFINE c == Cancel({id})
             run == [x \in Kind |-> cancelResourcePendings(st.pendings[x], c.filter)]
             canceled(x) == [j \in DOMAIN run[x].ids |-> ConfirmedEvent(x, run[x].ids[j], "CANCELED")]
             events == canceled("create") \o canceled("update")
                         \o canceled("retrieve") \o canceled("delete")
  <1>1. c.type = "cancel" /\ c.filter = {id} /\ Selects(c.filter, id)
    BY DEF Cancel, Selects
  <1>2. \A x \in Kind : st.pendings[x] \in Seq(Pending)
    BY DEF StateInv, State
  <1> HIDE DEF c
  <1>3. validateCommandForNotExistingResource(st, c)
    <2>1. CASE st.latest # NoChange
      BY <2>1 DEF validateCommandForNotExistingResource
    <2>2. CASE st.latest = NoChange
      <3>1. k \in Kind \ {"retrieve"} /\ i \in DOMAIN st.pendings[k]
        BY <1>2, <2>2 DEF StateInv
      <3>2. validateCancelPendingCommandsForNotExistingResource(st, c)
        BY <1>1, <3>1 DEF validateCancelPendingCommandsForNotExistingResource
      <3> QED
        BY <1>1, <3>2 DEF validateCommandForNotExistingResource
    <2> QED
      BY <2>1, <2>2
  <1>4. ResourceHandleCommand(st, c, t) = CancelPendingCommandsRequest(st, c)
    BY <1>1, <1>3 DEF ResourceHandleCommand
  <1>5. \A x \in Kind : run[x].ids \in Seq(RequestIds)
    BY <1>2, CanceledIs
  <1>6. run[k].ids # << >>
    BY <1>1, <1>2, CanceledIs
  <1>7. CancelPendingCommandsRequest(st, c) =
            IF events = << >> THEN Rejected(st)
            ELSE Accepted(events, [st EXCEPT !.pendings = [x \in Kind |-> run[x].left]])
    BY DEF CancelPendingCommandsRequest
  <1> HIDE DEF run
  <1>8. events # << >>
    <2> DEFINE E == {ConfirmedEvent(x, a, "CANCELED") : x \in Kind, a \in RequestIds}
    <2>1. ASSUME NEW x \in Kind
          PROVE  /\ canceled(x) \in Seq(E) /\ Len(canceled(x)) = Len(run[x].ids)
                 /\ Len(run[x].ids) \in Nat
      <3>1. PICK s \in Seq(RequestIds) : s = run[x].ids
        BY <1>5
      <3>2. \A j \in DOMAIN s : ConfirmedEvent(x, s[j], "CANCELED") \in E
        OBVIOUS
      <3> HIDE DEF E
      <3>3. [j \in DOMAIN s |-> ConfirmedEvent(x, s[j], "CANCELED")] \in [1 .. Len(s) -> E] /\ Len(s) \in Nat
        BY <3>2
      <3>4. PICK f \in [1 .. Len(s) -> E] : f = canceled(x)
        BY <3>1, <3>3
      <3>5. f \in Seq(E) /\ Len(f) = Len(s)
        BY <3>3
      <3> QED
        BY <3>1, <3>3, <3>4, <3>5
    <2> HIDE DEF E
    <2>2. Len(run[k].ids) > 0
      <3>1. PICK s \in Seq(RequestIds) : s = run[k].ids
        BY <1>5
      <3>2. Len(s) > 0
        BY <1>6, <3>1
      <3> QED
        BY <3>1, <3>2
    <2>3. PICK a \in Seq(E), b \in Seq(E), d \in Seq(E), e \in Seq(E) :
              /\ a = canceled("create") /\ b = canceled("update")
              /\ d = canceled("retrieve") /\ e = canceled("delete")
      BY <2>1 DEF Kind
    <2>4. Len(a) > 0 \/ Len(b) > 0 \/ Len(d) > 0 \/ Len(e) > 0
      BY <2>1, <2>2, <2>3 DEF Kind
    <2>5. Len(a \o b \o d \o e) = Len(a) + Len(b) + Len(d) + Len(e)
      OBVIOUS
    <2>6. Len(a) \in Nat /\ Len(b) \in Nat /\ Len(d) \in Nat /\ Len(e) \in Nat
      OBVIOUS
    <2>7. Len(a \o b \o d \o e) > 0
      BY <2>4, <2>5, <2>6
    <2>8. a \o b \o d \o e # << >>
      BY <2>7
    <2>9. events = a \o b \o d \o e
      BY <2>3
    <2> QED
      BY <2>8, <2>9
  <1> HIDE DEF events
  <1>9. CancelPendingCommandsRequest(st, c).ok
    BY <1>7, <1>8 DEF Accepted
  <1> QED
    BY <1>4, <1>9 DEF c

(* No request is stuck: the device's refusal of any waiting request, and a   *)
(* user's cancellation of it, are accepted in every reachable state.  For a  *)
(* resource without content this rests on the invariant that no retrieval is *)
(* waiting, which validateCommandForNotExistingResource would not let anyone *)
(* answer.                                                                   *)
THEOREM RequestsAreAnswerable == RulesSpec => []PendingsAnswerable
  <1>1. IInv => PendingsAnswerable
    <2> SUFFICES ASSUME IInv, NEW k \in Kind, NEW i \in DOMAIN state.pendings[k]
                 PROVE  LET id == state.pendings[k][i].id
                        IN /\ ResourceHandleCommand(state, Confirm(k, id, "ERROR"), now).ok
                           /\ ResourceHandleCommand(state, Cancel({id}), now).ok
      BY DEF PendingsAnswerable
    <2>1. StateInv(state, now) /\ i \in 1 .. Len(state.pendings[k])
      BY DEF IInv, StateInv, State
    <2> QED
      BY <2>1, RefusalAccepted, CancellationAccepted
  <1> QED
    BY <1>1, Invariance, PTL

-----------------------------------------------------------------------------
(* Counting requests.                                                        *)

(* The entries of a list that name x, and the places of x among cancelled    *)
(* ids.                                                                      *)
Entries(list, x) == {i \in 1 .. Len(list) : list[i].id = x}
Places(ids, x) == {i \in 1 .. Len(ids) : ids[i] = x}

LEMMA EntriesFinite ==
    ASSUME NEW list \in Seq(Pending), NEW x
    PROVE  Entries(list, x) \in SUBSET (1 .. Len(list)) /\ Cardinality(Entries(list, x)) \in Nat
  <1>1. Len(list) \in Nat /\ Entries(list, x) \in SUBSET (1 .. Len(list))
    BY DEF Entries
  <1> QED
    BY <1>1, PositionsFinite

LEMMA PlacesFinite ==
    ASSUME NEW ids \in Seq(RequestIds), NEW x
    PROVE  Places(ids, x) \in SUBSET (1 .. Len(ids)) /\ Cardinality(Places(ids, x)) \in Nat
  <1>1. Len(ids) \in Nat /\ Places(ids, x) \in SUBSET (1 .. Len(ids))
    BY DEF Places
  <1> QED
    BY <1>1, PositionsFinite

LEMMA AddedCount ==
    ASSUME NEW list \in Seq(Pending), NEW p \in Pending, NEW x
    PROVE  Cardinality(Entries(Append(list, p), x)) =
             IF p.id = x THEN Cardinality(Entries(list, x)) + 1 ELSE Cardinality(Entries(list, x))
  <1> DEFINE n == Len(list)
             s == Append(list, p)
             S == Entries(list, x)
             T == Entries(s, x)
  <1>1. /\ n \in Nat /\ Len(s) = n + 1 /\ s[n + 1] = p
        /\ \A j \in 1 .. n : s[j] = list[j]
    OBVIOUS
  <1> HIDE DEF n, s
  <1>2. S \in SUBSET (1 .. n) /\ T \in SUBSET (1 .. n + 1)
    BY <1>1 DEF Entries, n
  <1>3. \A j \in 1 .. n : j \in T <=> j \in S
    <2>1. \A j \in 1 .. n : j \in 1 .. n + 1
      BY <1>1
    <2> QED
      BY <1>1, <2>1 DEF Entries, n
  <1>4. n + 1 \in T <=> p.id = x
    BY <1>1 DEF Entries
  <1> HIDE DEF S, T
  <1>5. Cardinality(T) = IF n + 1 \in T THEN Cardinality(S) + 1 ELSE Cardinality(S)
    BY <1>1, <1>2, <1>3, Extended
  <1> QED
    BY <1>4, <1>5 DEF S, T, s

LEMMA PlaceAdded ==
    ASSUME NEW ids \in Seq(RequestIds), NEW id \in RequestIds, NEW x
    PROVE  Cardinality(Places(Append(ids, id), x)) =
             IF id = x THEN Cardinality(Places(ids, x)) + 1 ELSE Cardinality(Places(ids, x))
  <1> DEFINE n == Len(ids)
             s == Append(ids, id)
             S == Places(ids, x)
             T == Places(s, x)
  <1>1. /\ n \in Nat /\ Len(s) = n + 1 /\ s[n + 1] = id
        /\ \A j \in 1 .. n : s[j] = ids[j]
    OBVIOUS
  <1> HIDE DEF n, s
  <1>2. S \in SUBSET (1 .. n) /\ T \in SUBSET (1 .. n + 1)
    BY <1>1 DEF Places, n
  <1>3. \A j \in 1 .. n : j \in T <=> j \in S
    <2>1. \A j \in 1 .. n : j \in 1 .. n + 1
      BY <1>1
    <2> QED
      BY <1>1, <2>1 DEF Places, n
  <1>4. n + 1 \in T <=> id = x
    BY <1>1 DEF Places
  <1> HIDE DEF S, T
  <1>5. Cardinality(T) = IF n + 1 \in T THEN Cardinality(S) + 1 ELSE Cardinality(S)
    BY <1>1, <1>2, <1>3, Extended
  <1> QED
    BY <1>4, <1>5 DEF S, T, s

LEMMA RemovedCount ==
    ASSUME NEW list \in Seq(Pending), NEW at \in 1 .. Len(list), NEW x
    PROVE  Cardinality(Entries(list, x)) =
             IF list[at].id = x THEN Cardinality(Entries(RemovePending(list, at), x)) + 1
             ELSE Cardinality(Entries(RemovePending(list, at), x))
  <1> DEFINE n == Len(list)
             s == RemovePending(list, at)
             S == Entries(list, x)
             T == Entries(s, x)
  <1>1. /\ n \in Nat /\ Len(s) = n - 1
        /\ \A j \in 1 .. n - 1 : s[j] = list[IF j < at THEN j ELSE j + 1]
    BY RemovedIs
  <1>2. at \in 1 .. n
    OBVIOUS
  <1> HIDE DEF n, s
  <1>3. S \in SUBSET (1 .. n) /\ T \in SUBSET (1 .. n - 1)
    BY <1>1 DEF Entries, n
  <1>4. ASSUME NEW j \in 1 .. n - 1
        PROVE  /\ j < at => (j \in T <=> j \in S)
               /\ at <= j => (j \in T <=> j + 1 \in S)
    <2>1. PICK k \in 1 .. n : k = (IF j < at THEN j ELSE j + 1)
      BY <1>1, <1>2
    <2>2. s[j] = list[k]
      BY <1>1, <2>1
    <2>3. (j \in T <=> s[j].id = x) /\ (k \in S <=> list[k].id = x)
      BY <1>1 DEF Entries, n
    <2> QED
      BY <1>1, <1>2, <2>1, <2>2, <2>3
  <1>5. at \in S <=> list[at].id = x
    BY <1>2 DEF Entries, n
  <1> HIDE DEF S, T
  <1>6. Cardinality(S) = IF at \in S THEN Cardinality(T) + 1 ELSE Cardinality(T)
    <2>1. \A j \in 1 .. n - 1 : j < at => (j \in T <=> j \in S)
      BY <1>4
    <2>2. \A j \in 1 .. n - 1 : at <= j => (j \in T <=> j + 1 \in S)
      BY <1>4
    <2>3. MovedUp(S, T, at, n)
      BY <1>1, <1>2, <1>3, <2>1, <2>2 DEF MovedUp
    <2> QED
      BY <2>3, Shifted
  <1> QED
    BY <1>5, <1>6 DEF S, T, s

(* A round of the loop that cancels moves a request from the live part of    *)
(* the array to the cancelled ids.                                           *)
Live(b, x) == {j \in 1 .. b.n : b.array[j].id = x}

RoundCount(b, list, x) ==
    Cardinality(Live(b, x)) + Cardinality(Places(b.ids, x)) = Cardinality(Entries(list, x))

LEMMA RoundStepCount ==
    ASSUME NEW list \in Seq(Pending), NEW filter, NEW i \in 1 .. Len(list), NEW b, NEW x,
           Round(b, i - 1, list, filter), RoundCount(b, list, x)
    PROVE  RoundCount(cancelPending(b, i, filter), list, x)
  <1> DEFINE id == b.array[i].id
             at == findResourceOperationPendingIndex(id, b.array, b.n)
             c == cancelPending(b, i, filter)
             m == Len(list)
  <1>1. m \in Nat /\ b.n \in Nat /\ b.n \in 0 .. m /\ b.array \in [1 .. m -> Pending]
    BY DEF Round
  <1>2. b.ids \in Seq(RequestIds) /\ id \in RequestIds
    <2>1. b.array[i] \in Pending
      BY <1>1
    <2> QED
      BY <2>1 DEF Round, RequestIds
  <1>3. at \in 0 .. b.n /\ (at > 0 => b.array[at].id = id)
    BY <1>1, FindIs
  <1>4. CASE Selects(filter, id) /\ at > 0
    <2> HIDE DEF at, id
    <2> DEFINE a == RemoveInPlace(b.array, at, b.n)
    <2>1. c = [array |-> a, n |-> b.n - 1, ids |-> Append(b.ids, id)]
      BY <1>4 DEF cancelPending, at, id
    <2>2. PICK n \in Nat : n = b.n
      BY <1>1
    <2>3. at \in 1 .. n /\ n \in 1 .. m
      BY <1>1, <1>3, <1>4, <2>2
    <2>4. \A j \in 1 .. n - 1 : a[j] = IF j < at THEN b.array[j] ELSE b.array[j + 1]
      <3>1. a = [j \in 1 .. m |-> IF at <= j /\ j < n THEN b.array[j + 1] ELSE b.array[j]]
        BY <1>1, <2>2 DEF RemoveInPlace
      <3> HIDE DEF a, c
      <3>2. \A j \in 1 .. n - 1 : j \in 1 .. m /\ j < n
        BY <1>1, <2>3
      <3> QED
        BY <2>3, <3>1, <3>2
    <2> HIDE DEF a, c
    <2>5. c.array = a /\ c.n = n - 1 /\ c.ids = Append(b.ids, id)
      BY <2>1, <2>2
    <2> DEFINE S == Live(b, x)
               T == Live(c, x)
    <2>6. S \in SUBSET (1 .. n) /\ T \in SUBSET (1 .. n - 1)
      BY <2>2, <2>5 DEF Live
    <2>7. \A j \in 1 .. n - 1 : j < at => (j \in T <=> j \in S)
      <3>1. \A j \in 1 .. n - 1 : j \in 1 .. n
        OBVIOUS
      <3> QED
        BY <2>2, <2>4, <2>5, <3>1 DEF Live
    <2>8. \A j \in 1 .. n - 1 : at <= j => (j \in T <=> j + 1 \in S)
      <3>1. \A j \in 1 .. n - 1 : j + 1 \in 1 .. n
        OBVIOUS
      <3>2. \A j \in 1 .. n - 1 : at <= j => ~(j < at)
        BY <2>3
      <3> QED
        BY <2>2, <2>4, <2>5, <3>1, <3>2 DEF Live
    <2>9. at \in S <=> id = x
      BY <1>3, <1>4, <2>2, <2>3 DEF Live
    <2> HIDE DEF S, T
    <2>10. Cardinality(S) = IF at \in S THEN Cardinality(T) + 1 ELSE Cardinality(T)
      <3>1. MovedUp(S, T, at, n)
        BY <2>3, <2>6, <2>7, <2>8 DEF MovedUp
      <3> QED
        BY <3>1, Shifted
    <2>11. PICK s \in Seq(RequestIds), e \in RequestIds : s = b.ids /\ e = id
      BY <1>2
    <2>12. Cardinality(Places(c.ids, x)) =
             IF id = x THEN Cardinality(Places(b.ids, x)) + 1 ELSE Cardinality(Places(b.ids, x))
      BY <2>5, <2>11, PlaceAdded
    <2>13. Cardinality(T) \in Nat
      <3>1. n - 1 \in Nat
        BY <2>3
      <3> QED
        BY <2>6, <3>1, PositionsFinite
    <2>14. Cardinality(Places(b.ids, x)) \in Nat
      BY <2>11, PlacesFinite
    <2>15. Cardinality(S) + Cardinality(Places(b.ids, x)) = Cardinality(Entries(list, x))
      BY DEF RoundCount, S
    <2>16. Cardinality(T) + Cardinality(Places(c.ids, x)) = Cardinality(Entries(list, x))
      BY <2>9, <2>10, <2>12, <2>13, <2>14, <2>15
    <2> QED
      BY <2>16 DEF RoundCount, T, c
  <1>5. CASE ~(Selects(filter, id) /\ at > 0)
    <2>1. c = b
      BY <1>5 DEF cancelPending
    <2> QED
      BY <2>1
  <1> QED
    BY <1>4, <1>5

LEMMA RoundsCounted ==
    ASSUME NEW list \in Seq(Pending), NEW filter, NEW f, NEW x, Rounds(f, Len(list), list, filter)
    PROVE  \A i \in 0 .. Len(list) : RoundCount(f[i], list, x)
  <1> DEFINE m == Len(list)
             T == {i \in 0 .. m : ~RoundCount(f[i], list, x)}
  <1> SUFFICES ASSUME T # {} PROVE FALSE
    OBVIOUS
  <1>0. m \in Nat
    OBVIOUS
  <1>1. PICK k \in T : \A j \in T : k <= j
    <2>1. T \in SUBSET Nat
      BY <1>0
    <2> QED
      BY <2>1, Least
  <1>2. k \in 0 .. m /\ ~RoundCount(f[k], list, x)
    OBVIOUS
  <1>3. \A i \in 0 .. m : f[i] = IF i = 0 THEN Start(list) ELSE cancelPending(f[i - 1], i, filter)
    BY DEF Rounds
  <1>4. CASE k = 0
    <2>1. f[k] = Start(list)
      BY <1>2, <1>3, <1>4
    <2>2. Live(Start(list), x) = Entries(list, x)
      BY DEF Start, Live, Entries
    <2>3. Start(list).ids = << >>
      BY DEF Start
    <2>4. Places(Start(list).ids, x) = {}
      BY <2>3 DEF Places
    <2>5. Cardinality(Entries(list, x)) \in Nat /\ Cardinality({}) = 0
      BY EntriesFinite, FS_EmptySet
    <2>6. RoundCount(Start(list), list, x)
      BY <2>2, <2>4, <2>5 DEF RoundCount
    <2> QED
      BY <1>2, <2>1, <2>6
  <1>5. CASE k # 0
    <2>1. k - 1 \in 0 .. m /\ k \in 1 .. m /\ k - 1 \notin T
      BY <1>0, <1>1, <1>2, <1>5
    <2>2. RoundCount(f[k - 1], list, x)
      BY <2>1
    <2>3. Round(f[k - 1], k - 1, list, filter)
      BY <2>1, RoundsAre
    <2>4. f[k] = cancelPending(f[k - 1], k, filter)
      BY <1>3, <1>5, <2>1
    <2>5. RoundCount(f[k], list, x)
      BY <2>1, <2>2, <2>3, <2>4, RoundStepCount
    <2> QED
      BY <1>2, <2>5
  <1> QED
    BY <1>4, <1>5

(* Cancelling loses no request of a list and names none twice.               *)
LEMMA CanceledCount ==
    ASSUME NEW list \in Seq(Pending), NEW filter, NEW x
    PROVE  LET run == cancelResourcePendings(list, filter)
           IN Cardinality(Entries(list, x)) =
                Cardinality(Entries(run.left, x)) + Cardinality(Places(run.ids, x))
  <1> DEFINE m == Len(list)
             run == cancelResourcePendings(list, filter)
  <1>1. PICK f : /\ Rounds(f, m, list, filter)
                 /\ run = [left |-> SubSeq(f[m].array, 1, f[m].n), ids |-> f[m].ids]
    BY LoopIs
  <1> HIDE DEF run
  <1>2. m \in Nat /\ m \in 0 .. m
    OBVIOUS
  <1>3. PICK b : b = f[m]
    OBVIOUS
  <1>4. Round(b, m, list, filter) /\ RoundCount(b, list, x)
    BY <1>1, <1>2, <1>3, RoundsAre, RoundsCounted
  <1>5. run.left = SubSeq(b.array, 1, b.n) /\ run.ids = b.ids
    BY <1>1, <1>3
  <1>6. b.array \in Seq(Pending) /\ Len(b.array) = m /\ b.n \in 0 .. m
    <2>1. PICK a \in [1 .. m -> Pending] : a = b.array
      BY <1>4 DEF Round
    <2>2. a \in Seq(Pending) /\ Len(a) = m
      BY <1>2
    <2> QED
      BY <1>4, <2>1, <2>2 DEF Round
  <1>7. Len(run.left) = b.n /\ \A j \in 1 .. b.n : run.left[j] = b.array[j]
    BY <1>2, <1>5, <1>6
  <1>8. Entries(run.left, x) = Live(b, x)
    BY <1>7 DEF Entries, Live
  <1> QED
    BY <1>4, <1>5, <1>8 DEF RoundCount, run

-----------------------------------------------------------------------------
(* Events and requests.                                                      *)

(* The events of a type about requests of a kind with the id x.              *)
Said(events, type, k, x) ==
    {j \in 1 .. Len(events) : /\ events[j].type = type
                              /\ events[j].kind = k
                              /\ events[j].id = x}

Deletes(event) == event.type = "confirmed" /\ DeletesResource(event.kind, event.status)

LEMMA SaidOnce ==
    ASSUME NEW e, NEW events, events = <<e>>, NEW type, NEW k, NEW x
    PROVE  Cardinality(Said(events, type, k, x)) =
             IF e.type = type /\ e.kind = k /\ e.id = x THEN 1 ELSE 0
  <1>1. Len(events) = 1 /\ events[1] = e /\ 1 .. 1 = {1}
    OBVIOUS
  <1>2. Said(events, type, k, x) = IF e.type = type /\ e.kind = k /\ e.id = x THEN {1} ELSE {}
    BY <1>1 DEF Said
  <1>3. Cardinality({1}) = 1 /\ Cardinality({}) = 0
    BY FS_Singleton, FS_EmptySet
  <1> QED
    BY <1>2, <1>3

(* Two sequences and four, one after the other.                              *)
LEMMA JoinedTwo ==
    ASSUME NEW E, NEW a \in Seq(E), NEW b \in Seq(E), NEW s, s = a \o b
    PROVE  /\ s \in Seq(E) /\ Len(s) = Len(a) + Len(b)
           /\ \A j \in 1 .. Len(a) : s[j] = a[j]
           /\ \A j \in 1 .. Len(b) : s[Len(a) + j] = b[j]
  <1>1. s \in Seq(E) /\ Len(s) = Len(a) + Len(b)
    OBVIOUS
  <1>2. Len(a) \in Nat /\ Len(b) \in Nat
    OBVIOUS
  <1>3. \A j \in 1 .. Len(a) + Len(b) : s[j] = IF j <= Len(a) THEN a[j] ELSE b[j - Len(a)]
    OBVIOUS
  <1>4. ASSUME NEW j \in 1 .. Len(a) PROVE s[j] = a[j]
    BY <1>2, <1>3
  <1>5. ASSUME NEW j \in 1 .. Len(b) PROVE s[Len(a) + j] = b[j]
    <2>1. Len(a) + j \in 1 .. Len(a) + Len(b) /\ ~(Len(a) + j <= Len(a)) /\ Len(a) + j - Len(a) = j
      BY <1>2
    <2> QED
      BY <1>3, <2>1
  <1> QED
    BY <1>1, <1>4, <1>5

LEMMA Joined ==
    ASSUME NEW E, NEW a \in Seq(E), NEW b \in Seq(E), NEW d \in Seq(E), NEW e \in Seq(E),
           NEW s, s = a \o b \o d \o e
    PROVE  /\ s \in Seq(E) /\ Len(s) = Len(a) + Len(b) + Len(d) + Len(e)
           /\ \A j \in 1 .. Len(a) : s[j] = a[j]
           /\ \A j \in 1 .. Len(b) : s[Len(a) + j] = b[j]
           /\ \A j \in 1 .. Len(d) : s[Len(a) + Len(b) + j] = d[j]
           /\ \A j \in 1 .. Len(e) : s[Len(a) + Len(b) + Len(d) + j] = e[j]
  <1> DEFINE ab == a \o b
             abd == ab \o d
  <1>1. /\ ab \in Seq(E) /\ Len(ab) = Len(a) + Len(b)
        /\ \A j \in 1 .. Len(a) : ab[j] = a[j]
        /\ \A j \in 1 .. Len(b) : ab[Len(a) + j] = b[j]
    <2> HIDE DEF ab
    <2>1. ab = a \o b
      BY DEF ab
    <2> QED
      BY <2>1, JoinedTwo
  <1> HIDE DEF ab
  <1>2. /\ abd \in Seq(E) /\ Len(abd) = Len(ab) + Len(d)
        /\ \A j \in 1 .. Len(ab) : abd[j] = ab[j]
        /\ \A j \in 1 .. Len(d) : abd[Len(ab) + j] = d[j]
    <2> HIDE DEF abd
    <2>1. abd = ab \o d
      BY DEF abd
    <2>2. ab \in Seq(E)
      BY <1>1
    <2> QED
      BY <2>1, <2>2, JoinedTwo
  <1>3. /\ s \in Seq(E) /\ Len(s) = Len(abd) + Len(e)
        /\ \A j \in 1 .. Len(abd) : s[j] = abd[j]
        /\ \A j \in 1 .. Len(e) : s[Len(abd) + j] = e[j]
    <2>1. s = abd \o e
      BY DEF ab, abd
    <2> HIDE DEF abd
    <2>2. abd \in Seq(E)
      BY <1>2
    <2> QED
      BY <2>1, <2>2, JoinedTwo
  <1> HIDE DEF abd
  <1>4. Len(a) \in Nat /\ Len(b) \in Nat /\ Len(d) \in Nat /\ Len(e) \in Nat
    OBVIOUS
  <1>5. ASSUME NEW j \in 1 .. Len(a) PROVE s[j] = a[j]
    <2>1. j \in 1 .. Len(ab) /\ j \in 1 .. Len(abd)
      BY <1>1, <1>2, <1>4
    <2> QED
      BY <1>1, <1>2, <1>3, <2>1
  <1>6. ASSUME NEW j \in 1 .. Len(b) PROVE s[Len(a) + j] = b[j]
    <2>1. Len(a) + j \in 1 .. Len(ab) /\ Len(a) + j \in 1 .. Len(abd)
      BY <1>1, <1>2, <1>4
    <2> QED
      BY <1>1, <1>2, <1>3, <2>1
  <1>7. ASSUME NEW j \in 1 .. Len(d) PROVE s[Len(a) + Len(b) + j] = d[j]
    <2>1. Len(ab) + j \in 1 .. Len(abd)
      BY <1>1, <1>2, <1>4
    <2>2. s[Len(ab) + j] = d[j]
      BY <1>2, <1>3, <2>1
    <2> QED
      BY <1>1, <2>2
  <1>8. ASSUME NEW j \in 1 .. Len(e) PROVE s[Len(a) + Len(b) + Len(d) + j] = e[j]
    BY <1>1, <1>2, <1>3
  <1>9. Len(s) = Len(a) + Len(b) + Len(d) + Len(e)
    BY <1>1, <1>2, <1>3
  <1> QED
    BY <1>3, <1>5, <1>6, <1>7, <1>8, <1>9

(* A block of the events names the cancelled requests of one kind.           *)
BlockOf(k, events, ids, off) ==
    /\ ids \in Seq(RequestIds) /\ off \in Nat /\ Len(events) \in Nat
    /\ \A j \in 1 .. Len(ids) : off + j \in 1 .. Len(events)
    /\ \A j \in 1 .. Len(ids) : events[off + j] = ConfirmedEvent(k, ids[j], "CANCELED")
    /\ \A j \in 1 .. Len(events) : events[j].kind = k => j - off \in 1 .. Len(ids)

LEMMA Block ==
    ASSUME NEW events, NEW ids, NEW off, NEW k, NEW x, BlockOf(k, events, ids, off)
    PROVE  Cardinality(Said(events, "confirmed", k, x)) = Cardinality(Places(ids, x))
  <1> USE DEF BlockOf
  <1> DEFINE S == Places(ids, x)
             T == Said(events, "confirmed", k, x)
             f == [j \in S |-> off + j]
  <1>1. S \in SUBSET (1 .. Len(ids)) /\ Len(ids) \in Nat /\ IsFiniteSet(S)
    <2>1. S \in SUBSET (1 .. Len(ids)) /\ Len(ids) \in Nat
      BY DEF Places
    <2> QED
      BY <2>1, PositionsFinite
  <1>2. f \in [S -> T]
    <2> SUFFICES ASSUME NEW j \in S PROVE off + j \in T
      OBVIOUS
    <2>1. j \in 1 .. Len(ids) /\ ids[j] = x
      BY DEF Places
    <2>2. off + j \in 1 .. Len(events) /\ events[off + j] = ConfirmedEvent(k, x, "CANCELED")
      BY <2>1
    <2> QED
      BY <2>2 DEF Said, ConfirmedEvent
  <1>3. \A i, j \in S : f[i] = f[j] => i = j
    BY <1>1
  <1>4. \A t \in T : \E i \in S : f[i] = t
    <2> SUFFICES ASSUME NEW t \in T PROVE \E i \in S : f[i] = t
      OBVIOUS
    <2>1. t \in 1 .. Len(events) /\ events[t].kind = k /\ events[t].id = x
      BY DEF Said
    <2>2. PICK i \in 1 .. Len(ids) : i = t - off
      BY <2>1
    <2>3. off + i = t
      BY <2>1, <2>2
    <2>4. events[t] = ConfirmedEvent(k, ids[i], "CANCELED")
      BY <2>3
    <2>5. ids[i] = x
      BY <2>1, <2>4 DEF ConfirmedEvent
    <2>6. i \in S
      BY <2>5 DEF Places
    <2> QED
      BY <2>3, <2>6
  <1> HIDE DEF S, T, f
  <1>5. Cardinality(T) = Cardinality(S)
    BY <1>1, <1>2, <1>3, <1>4, SameCount
  <1> QED
    BY <1>5 DEF S, T

(* What a command says and what it does to the lists agree: it either says   *)
(* the resource is deleted and empties the lists, or it leaves as many       *)
(* requests waiting as were waiting or are asked for and are not answered.   *)
Balanced(st, events, new) ==
    \/ /\ Len(events) = 1 /\ Deletes(events[1])
       /\ \A k \in Kind : new.pendings[k] = << >>
    \/ /\ \A j \in 1 .. Len(events) : ~Deletes(events[j])
       /\ \A k \in Kind : \A x :
            Cardinality(Said(events, "pending", k, x)) + Cardinality(Entries(st.pendings[k], x))
              = Cardinality(Said(events, "confirmed", k, x)) + Cardinality(Entries(new.pendings[k], x))

LEMMA NotifyBalanced ==
    ASSUME NEW st, NEW m, StateInv(st, m), NEW c,
           NEW r, r = handleNotifyResourceChangedRequest(st, c), r.events # << >>
    PROVE  Balanced(st, r.events, r.state)
  <1> DEFINE change == [conn |-> c.conn, seq |-> c.seq, content |-> c.content]
             e == [type |-> "changed", change |-> change]
  <1>1. r.events = <<e>> /\ r.state = [st EXCEPT !.latest = change]
    BY DEF handleNotifyResourceChangedRequest, Accepted
  <1>2. e.type = "changed"
    OBVIOUS
  <1> HIDE DEF e, change
  <1>3. r.state.pendings = st.pendings
    BY <1>1 DEF StateInv, State
  <1>4. Len(r.events) = 1 /\ r.events[1] = e
    BY <1>1
  <1>5. \A j \in 1 .. Len(r.events) : ~Deletes(r.events[j])
    BY <1>2, <1>4 DEF Deletes
  <1>6. ASSUME NEW k \in Kind, NEW x
        PROVE  Cardinality(Said(r.events, "pending", k, x)) + Cardinality(Entries(st.pendings[k], x))
                 = Cardinality(Said(r.events, "confirmed", k, x)) + Cardinality(Entries(r.state.pendings[k], x))
    <2>1. /\ Cardinality(Said(r.events, "pending", k, x)) = 0
          /\ Cardinality(Said(r.events, "confirmed", k, x)) = 0
      BY <1>1, <1>2, SaidOnce
    <2> QED
      BY <1>3, <2>1
  <1> QED
    BY <1>5, <1>6 DEF Balanced

LEMMA RequestBalanced ==
    ASSUME NEW st, NEW m \in Nat, StateInv(st, m), NEW t \in 0 .. m,
           NEW c \in Command, c.type = "request",
           NEW r, r = handleResourceRequest(st, c, t), r.ok
    PROVE  Balanced(st, r.events, r.state)
  <1> DEFINE p == [id |-> c.id, validUntil |-> timeToLive2ValidUntil(c.ttl, t)]
             e == [type |-> "pending", kind |-> c.kind, id |-> c.id, validUntil |-> p.validUntil]
             l == st.pendings
             kind == c.kind
  <1>1. kind \in Kind /\ c.ttl \in Nat /\ t \in Nat
    BY RulesConstants
  <1>2. p \in Pending /\ p.id = c.id
    BY <1>1 DEF Pending, timeToLive2ValidUntil
  <1>3. r.events = <<e>> /\ r.state = handleEventPending(st, kind, p)
    BY DEF handleResourceRequest, Accepted, Rejected
  <1>4. e.type = "pending" /\ e.kind = kind /\ e.id = c.id
    OBVIOUS
  <1> HIDE DEF p, e
  <1>5. st \in State /\ l \in [Kind -> Seq(Pending)]
    BY DEF StateInv, State
  <1>6. r.state = [st EXCEPT !.pendings = [l EXCEPT ![kind] = Append(l[kind], p)]]
    BY <1>3 DEF handleEventPending
  <1>7. r.state.pendings = [l EXCEPT ![kind] = Append(l[kind], p)]
    BY <1>5, <1>6 DEF State
  <1>8. r.events[1] = e /\ Len(r.events) = 1
    BY <1>3
  <1>9. \A j \in 1 .. Len(r.events) : ~Deletes(r.events[j])
    BY <1>4, <1>8 DEF Deletes
  <1>10. ASSUME NEW k \in Kind, NEW x
         PROVE  Cardinality(Said(r.events, "pending", k, x)) + Cardinality(Entries(st.pendings[k], x))
                  = Cardinality(Said(r.events, "confirmed", k, x)) + Cardinality(Entries(r.state.pendings[k], x))
    <2>1. /\ Cardinality(Said(r.events, "pending", k, x)) = IF kind = k /\ c.id = x THEN 1 ELSE 0
          /\ Cardinality(Said(r.events, "confirmed", k, x)) = 0
      BY <1>3, <1>4, SaidOnce
    <2>2. PICK s \in Seq(Pending) : s = l[k]
      BY <1>5
    <2>3. Cardinality(Entries(s, x)) \in Nat
      BY EntriesFinite
    <2>4. CASE k = kind
      <3>1. r.state.pendings[k] = Append(s, p)
        BY <1>1, <1>5, <1>7, <2>2, <2>4
      <3>2. Cardinality(Entries(Append(s, p), x)) =
              IF p.id = x THEN Cardinality(Entries(s, x)) + 1 ELSE Cardinality(Entries(s, x))
        BY <1>2, AddedCount
      <3> QED
        BY <1>2, <2>1, <2>2, <2>3, <2>4, <3>1, <3>2
    <2>5. CASE k # kind
      <3>1. r.state.pendings[k] = l[k]
        BY <1>1, <1>5, <1>7, <2>5
      <3> QED
        BY <2>1, <2>2, <2>3, <2>5, <3>1
    <2> QED
      BY <2>4, <2>5
  <1> QED
    BY <1>9, <1>10 DEF Balanced

LEMMA ConfirmBalanced ==
    ASSUME NEW st, NEW m, StateInv(st, m), NEW c \in Command, c.type = "confirm",
           NEW r, r = confirmResourceRequest(st, c), r.ok
    PROVE  Balanced(st, r.events, r.state)
  <1> DEFINE kind == c.kind
             l == st.pendings
             at == findResourceOperationPendingIndex(c.id, l[kind], Len(l[kind]))
             e == ConfirmedEvent(c.kind, c.id, c.status)
  <1>1. kind \in Kind /\ st \in State /\ l \in [Kind -> Seq(Pending)] /\ l[kind] \in Seq(Pending)
    BY RulesConstants DEF StateInv, State
  <1>2. e.type = "confirmed" /\ e.kind = kind /\ e.id = c.id /\ e.status = c.status
    BY DEF ConfirmedEvent
  <1>3. at \in 0 .. Len(l[kind]) /\ (at > 0 => l[kind][at].id = c.id)
    BY <1>1, FindIs
  <1>4. \/ /\ DeletesResource(kind, c.status) /\ r.events = <<e>>
           /\ r.state = [st EXCEPT !.pendings = [x \in Kind |-> << >>]]
        \/ /\ ~DeletesResource(kind, c.status) /\ at > 0 /\ r.events = <<e>>
           /\ r.state = [st EXCEPT !.pendings = [l EXCEPT ![kind] = RemovePending(l[kind], at)]]
    BY DEF confirmResourceRequest, Accepted, Rejected
  <1> HIDE DEF at, e
  <1>5. r.events[1] = e /\ Len(r.events) = 1
    <2>1. r.events = <<e>>
      BY <1>4, Zenon
    <2> QED
      BY <2>1
  <1>6. CASE /\ DeletesResource(kind, c.status) /\ r.events = <<e>>
             /\ r.state = [st EXCEPT !.pendings = [x \in Kind |-> << >>]]
    <2>1. \A k \in Kind : r.state.pendings[k] = << >>
      BY <1>1, <1>6 DEF State
    <2>2. Deletes(r.events[1])
      BY <1>2, <1>5, <1>6 DEF Deletes
    <2> QED
      BY <1>5, <2>1, <2>2 DEF Balanced
  <1>7. CASE /\ ~DeletesResource(kind, c.status) /\ at > 0 /\ r.events = <<e>>
             /\ r.state = [st EXCEPT !.pendings = [l EXCEPT ![kind] = RemovePending(l[kind], at)]]
    <2>1. \A j \in 1 .. Len(r.events) : ~Deletes(r.events[j])
      BY <1>2, <1>5, <1>7 DEF Deletes
    <2>2. r.state.pendings = [l EXCEPT ![kind] = RemovePending(l[kind], at)]
      BY <1>1, <1>7 DEF State
    <2>3. ASSUME NEW k \in Kind, NEW x
          PROVE  Cardinality(Said(r.events, "pending", k, x)) + Cardinality(Entries(st.pendings[k], x))
                   = Cardinality(Said(r.events, "confirmed", k, x)) + Cardinality(Entries(r.state.pendings[k], x))
      <3>1. /\ Cardinality(Said(r.events, "pending", k, x)) = 0
            /\ Cardinality(Said(r.events, "confirmed", k, x)) = IF kind = k /\ c.id = x THEN 1 ELSE 0
        BY <1>2, <1>7, SaidOnce
      <3>2. PICK s \in Seq(Pending) : s = l[k]
        BY <1>1
      <3>3. Cardinality(Entries(s, x)) \in Nat
        BY EntriesFinite
      <3>4. CASE k = kind
        <4>1. at \in 1 .. Len(s) /\ s[at].id = c.id
          BY <1>1, <1>3, <1>7, <3>2, <3>4
        <4>2. r.state.pendings[k] = RemovePending(s, at)
          BY <1>1, <2>2, <3>2, <3>4
        <4>3. RemovePending(s, at) \in Seq(Pending)
          BY <4>1, RemovedIs
        <4>4. Cardinality(Entries(RemovePending(s, at), x)) \in Nat
          BY <4>3, EntriesFinite
        <4>5. Cardinality(Entries(s, x)) =
                IF s[at].id = x THEN Cardinality(Entries(RemovePending(s, at), x)) + 1
                ELSE Cardinality(Entries(RemovePending(s, at), x))
          BY <4>1, RemovedCount
        <4> QED
          BY <3>1, <3>2, <3>3, <3>4, <4>1, <4>2, <4>4, <4>5
      <3>5. CASE k # kind
        <4>1. r.state.pendings[k] = l[k]
          BY <1>1, <2>2, <3>5
        <4> QED
          BY <3>1, <3>2, <3>3, <3>5, <4>1
      <3> QED
        BY <3>4, <3>5
    <2> QED
      BY <2>1, <2>3 DEF Balanced
  <1> QED
    BY <1>4, <1>6, <1>7

(* The events of a cancellation, kind by kind.                               *)
Reports(ids, canceled, events) ==
    /\ canceled = [k \in Kind |-> [j \in 1 .. Len(ids[k]) |-> ConfirmedEvent(k, ids[k][j], "CANCELED")]]
    /\ events = canceled["create"] \o canceled["update"] \o canceled["retrieve"] \o canceled["delete"]

LEMMA CancelSaid ==
    ASSUME NEW ids \in [Kind -> Seq(RequestIds)], NEW canceled, NEW events,
           Reports(ids, canceled, events)
    PROVE  /\ Len(events) \in Nat
           /\ \A j \in 1 .. Len(events) : events[j].type = "confirmed" /\ events[j].status = "CANCELED"
           /\ \A k \in Kind : \A x :
                Cardinality(Said(events, "confirmed", k, x)) = Cardinality(Places(ids[k], x))
  <1> DEFINE E == {ConfirmedEvent(k, id, "CANCELED") : k \in Kind, id \in RequestIds}
  <1>1. ASSUME NEW k \in Kind
        PROVE  /\ canceled[k] \in Seq(E) /\ Len(canceled[k]) = Len(ids[k]) /\ Len(ids[k]) \in Nat
               /\ \A j \in 1 .. Len(ids[k]) : canceled[k][j] = ConfirmedEvent(k, ids[k][j], "CANCELED")
    <2>1. PICK s \in Seq(RequestIds) : s = ids[k]
      OBVIOUS
    <2>2. \A j \in 1 .. Len(s) : ConfirmedEvent(k, s[j], "CANCELED") \in E
      <3>1. \A j \in 1 .. Len(s) : s[j] \in RequestIds
        OBVIOUS
      <3> QED
        BY <3>1
    <2> HIDE DEF E
    <2>3. PICK f : f = canceled[k]
      OBVIOUS
    <2>4. f = [j \in 1 .. Len(s) |-> ConfirmedEvent(k, s[j], "CANCELED")]
      BY <2>1, <2>3 DEF Reports
    <2>5. f \in [1 .. Len(s) -> E] /\ Len(s) \in Nat
      BY <2>2, <2>4
    <2>6. f \in Seq(E) /\ Len(f) = Len(s)
      BY <2>5
    <2>7. \A j \in 1 .. Len(s) : f[j] = ConfirmedEvent(k, s[j], "CANCELED")
      BY <2>4
    <2> QED
      BY <2>1, <2>3, <2>5, <2>6, <2>7
  <1>2. "create" \in Kind /\ "update" \in Kind /\ "retrieve" \in Kind /\ "delete" \in Kind
    BY DEF Kind
  <1> HIDE DEF E
  <1>3. PICK a \in Seq(E), b \in Seq(E), d \in Seq(E), e \in Seq(E) :
            /\ a = canceled["create"] /\ b = canceled["update"]
            /\ d = canceled["retrieve"] /\ e = canceled["delete"]
    BY <1>1, <1>2
  <1>4. PICK la \in Nat, lb \in Nat, ld \in Nat, le \in Nat :
            /\ la = Len(a) /\ lb = Len(b) /\ ld = Len(d) /\ le = Len(e)
    OBVIOUS
  <1>5. /\ events \in Seq(E) /\ Len(events) = la + lb + ld + le
        /\ \A j \in 1 .. la : events[j] = a[j]
        /\ \A j \in 1 .. lb : events[la + j] = b[j]
        /\ \A j \in 1 .. ld : events[la + lb + j] = d[j]
        /\ \A j \in 1 .. le : events[la + lb + ld + j] = e[j]
    <2>1. events = a \o b \o d \o e
      BY <1>3 DEF Reports
    <2> QED
      BY <1>4, <2>1, Joined
  <1>6. Len(events) \in Nat
    BY <1>5
  <1> DEFINE off == [k \in Kind |-> CASE k = "create" -> 0 [] k = "update" -> la
                                       [] k = "retrieve" -> la + lb [] k = "delete" -> la + lb + ld]
  <1>7. /\ off["create"] = 0 /\ off["update"] = la
        /\ off["retrieve"] = la + lb /\ off["delete"] = la + lb + ld
    BY <1>2
  <1>8. /\ la = Len(ids["create"]) /\ lb = Len(ids["update"])
        /\ ld = Len(ids["retrieve"]) /\ le = Len(ids["delete"])
    BY <1>1, <1>2, <1>3, <1>4
  <1> HIDE DEF off
  <1>9. \A k \in Kind : off[k] \in Nat
    BY <1>7 DEF Kind
  <1>10. ASSUME NEW k \in Kind, NEW j \in 1 .. Len(ids[k])
         PROVE  /\ off[k] + j \in 1 .. Len(events)
                /\ events[off[k] + j] = ConfirmedEvent(k, ids[k][j], "CANCELED")
    <2>0. PICK e1 : e1 = ConfirmedEvent(k, ids[k][j], "CANCELED")
      OBVIOUS
    <2>1. canceled[k][j] = e1
      BY <1>1, <2>0
    <2>2. CASE k = "create"
      <3>1. off[k] = 0 /\ j \in 1 .. la /\ canceled[k] = a
        BY <1>3, <1>7, <1>8, <2>2
      <3>2. off[k] + j = j /\ j \in 1 .. Len(events) /\ events[j] = a[j]
        BY <1>5, <3>1
      <3> QED
        BY <2>0, <2>1, <3>1, <3>2
    <2>3. CASE k = "update"
      <3>1. off[k] = la /\ j \in 1 .. lb /\ canceled[k] = b
        BY <1>3, <1>7, <1>8, <2>3
      <3>2. off[k] + j = la + j /\ la + j \in 1 .. Len(events) /\ events[la + j] = b[j]
        BY <1>5, <3>1
      <3> QED
        BY <2>0, <2>1, <3>1, <3>2
    <2>4. CASE k = "retrieve"
      <3>1. off[k] = la + lb /\ j \in 1 .. ld /\ canceled[k] = d
        BY <1>3, <1>7, <1>8, <2>4
      <3>2. off[k] + j = la + lb + j /\ la + lb + j \in 1 .. Len(events) /\ events[la + lb + j] = d[j]
        BY <1>5, <3>1
      <3> QED
        BY <2>0, <2>1, <3>1, <3>2
    <2>5. CASE k = "delete"
      <3>1. off[k] = la + lb + ld /\ j \in 1 .. le /\ canceled[k] = e
        BY <1>3, <1>7, <1>8, <2>5
      <3>2. /\ off[k] + j = la + lb + ld + j /\ la + lb + ld + j \in 1 .. Len(events)
            /\ events[la + lb + ld + j] = e[j]
        BY <1>5, <3>1
      <3> QED
        BY <2>0, <2>1, <3>1, <3>2
    <2> QED
      BY <2>2, <2>3, <2>4, <2>5 DEF Kind
  <1>11. ASSUME NEW j \in 1 .. Len(events)
         PROVE  \E k \in Kind : j - off[k] \in 1 .. Len(ids[k])
    <2>0. j \in Int /\ 1 <= j /\ j <= la + lb + ld + le
      BY <1>5
    <2>1. CASE j <= la
      <3>1. j - 0 \in 1 .. la
        BY <2>0, <2>1
      <3> QED
        BY <1>2, <1>7, <1>8, <3>1
    <2>2. CASE la < j /\ j <= la + lb
      <3>1. j - la \in 1 .. lb
        BY <2>0, <2>2
      <3> QED
        BY <1>2, <1>7, <1>8, <3>1
    <2>3. CASE la + lb < j /\ j <= la + lb + ld
      <3>1. j - (la + lb) \in 1 .. ld
        BY <2>0, <2>3
      <3> QED
        BY <1>2, <1>7, <1>8, <3>1
    <2>4. CASE la + lb + ld < j
      <3>1. j - (la + lb + ld) \in 1 .. le
        BY <2>0, <2>4
      <3> QED
        BY <1>2, <1>7, <1>8, <3>1
    <2> QED
      BY <2>0, <2>1, <2>2, <2>3, <2>4
  <1>12. ASSUME NEW j \in 1 .. Len(events)
         PROVE  \E k \in Kind : /\ j - off[k] \in 1 .. Len(ids[k])
                                /\ events[j] = ConfirmedEvent(k, ids[k][j - off[k]], "CANCELED")
    <2>1. PICK k \in Kind : j - off[k] \in 1 .. Len(ids[k])
      BY <1>11
    <2>2. off[k] + (j - off[k]) = j
      BY <1>6, <1>9
    <2> QED
      BY <1>10, <2>1, <2>2
  <1>13. \A j \in 1 .. Len(events) : events[j].type = "confirmed" /\ events[j].status = "CANCELED"
    <2> SUFFICES ASSUME NEW j \in 1 .. Len(events)
                 PROVE  events[j].type = "confirmed" /\ events[j].status = "CANCELED"
      OBVIOUS
    <2>1. PICK k, id : events[j] = ConfirmedEvent(k, id, "CANCELED")
      BY <1>12
    <2> QED
      BY <2>1 DEF ConfirmedEvent
  <1>14. ASSUME NEW k \in Kind, NEW x
         PROVE  Cardinality(Said(events, "confirmed", k, x)) = Cardinality(Places(ids[k], x))
    <2>1. PICK s \in Seq(RequestIds) : s = ids[k]
      OBVIOUS
    <2>2. PICK o \in Nat : o = off[k]
      BY <1>9
    <2>3. \A j \in 1 .. Len(s) : o + j \in 1 .. Len(events)
      BY <1>10, <2>1, <2>2
    <2>4. \A j \in 1 .. Len(s) : events[o + j] = ConfirmedEvent(k, s[j], "CANCELED")
      BY <1>10, <2>1, <2>2
    <2>5. \A j \in 1 .. Len(events) : events[j].kind = k => j - o \in 1 .. Len(s)
      <3> SUFFICES ASSUME NEW j \in 1 .. Len(events), events[j].kind = k PROVE j - o \in 1 .. Len(s)
        OBVIOUS
      <3>1. PICK k2 \in Kind : /\ j - off[k2] \in 1 .. Len(ids[k2])
                               /\ events[j] = ConfirmedEvent(k2, ids[k2][j - off[k2]], "CANCELED")
        BY <1>12
      <3>2. k2 = k
        BY <3>1 DEF ConfirmedEvent
      <3> QED
        BY <2>1, <2>2, <3>1, <3>2
    <2>6. Cardinality(Said(events, "confirmed", k, x)) = Cardinality(Places(s, x))
      <3>1. BlockOf(k, events, s, o)
        BY <1>6, <2>3, <2>4, <2>5 DEF BlockOf
      <3> QED
        BY <3>1, Block
    <2> QED
      BY <2>1, <2>6
  <1> QED
    BY <1>6, <1>13, <1>14

LEMMA CancelBalanced ==
    ASSUME NEW st, NEW m, StateInv(st, m), NEW c,
           NEW r, r = CancelPendingCommandsRequest(st, c), r.ok
    PROVE  Balanced(st, r.events, r.state)
  <1> DEFINE run == [k \in Kind |-> cancelResourcePendings(st.pendings[k], c.filter)]
             ids == [k \in Kind |-> run[k].ids]
             left == [k \in Kind |-> run[k].left]
             canceled == [k \in Kind |-> [j \in 1 .. Len(ids[k]) |-> ConfirmedEvent(k, ids[k][j], "CANCELED")]]
  <1>1. st \in State /\ \A k \in Kind : st.pendings[k] \in Seq(Pending)
    BY DEF StateInv, State
  <1>2. ASSUME NEW k \in Kind
        PROVE  /\ run[k].left \in Seq(Pending)
               /\ run[k].ids \in Seq(RequestIds)
               /\ \A x : Cardinality(Entries(st.pendings[k], x)) =
                           Cardinality(Entries(run[k].left, x)) + Cardinality(Places(run[k].ids, x))
    <2>1. PICK list \in Seq(Pending) : list = st.pendings[k]
      BY <1>1
    <2>2. run[k] = cancelResourcePendings(list, c.filter)
      BY <2>1
    <2> HIDE DEF run
    <2> QED
      BY <2>1, <2>2, CanceledIs, CanceledCount
  <1>3. /\ r.state = [st EXCEPT !.pendings = left]
        /\ r.events = canceled["create"] \o canceled["update"] \o canceled["retrieve"] \o canceled["delete"]
    <2> DEFINE said(k) == [i \in DOMAIN run[k].ids |-> ConfirmedEvent(k, run[k].ids[i], "CANCELED")]
               events == said("create") \o said("update") \o said("retrieve") \o said("delete")
    <2>1. CancelPendingCommandsRequest(st, c) =
            IF events = << >> THEN Rejected(st)
            ELSE Accepted(events, [st EXCEPT !.pendings = left])
      BY Zenon DEF CancelPendingCommandsRequest
    <2>2. ASSUME NEW k \in Kind PROVE said(k) = canceled[k]
      <3>1. DOMAIN run[k].ids = 1 .. Len(run[k].ids)
        BY <1>2
      <3> HIDE DEF run
      <3> QED
        BY <3>1
    <2>3. "create" \in Kind /\ "update" \in Kind /\ "retrieve" \in Kind /\ "delete" \in Kind
      BY DEF Kind
    <2> HIDE DEF run, canceled, left, said
    <2>4. events = canceled["create"] \o canceled["update"] \o canceled["retrieve"] \o canceled["delete"]
      BY <2>2, <2>3
    <2> HIDE DEF events
    <2>5. r.events = events /\ r.state = [st EXCEPT !.pendings = left]
      BY <2>1 DEF Accepted, Rejected
    <2> QED
      BY <2>4, <2>5
  <1>4. ids \in [Kind -> Seq(RequestIds)]
    BY <1>2
  <1>5. \A k \in Kind : ids[k] = run[k].ids /\ left[k] = run[k].left
    OBVIOUS
  <1>6. canceled = [k \in Kind |-> [j \in 1 .. Len(ids[k]) |-> ConfirmedEvent(k, ids[k][j], "CANCELED")]]
    OBVIOUS
  <1> HIDE DEF run, ids, left, canceled
  <1>7. /\ Len(r.events) \in Nat
        /\ \A j \in 1 .. Len(r.events) : r.events[j].type = "confirmed" /\ r.events[j].status = "CANCELED"
        /\ \A k \in Kind : \A x :
             Cardinality(Said(r.events, "confirmed", k, x)) = Cardinality(Places(ids[k], x))
    <2>1. Reports(ids, canceled, r.events)
      BY <1>3, <1>6 DEF Reports
    <2> QED
      BY <1>4, <2>1, CancelSaid
  <1>8. r.state.pendings = left
    BY <1>1, <1>3 DEF State
  <1>9. \A j \in 1 .. Len(r.events) : ~Deletes(r.events[j])
    BY <1>7 DEF Deletes, DeletesResource
  <1>10. ASSUME NEW k \in Kind, NEW x
         PROVE  Cardinality(Said(r.events, "pending", k, x)) + Cardinality(Entries(st.pendings[k], x))
                  = Cardinality(Said(r.events, "confirmed", k, x)) + Cardinality(Entries(r.state.pendings[k], x))
    <2>1. Cardinality(Said(r.events, "pending", k, x)) = 0
      <3>1. Said(r.events, "pending", k, x) = {}
        BY <1>7 DEF Said
      <3> QED
        BY <3>1, FS_EmptySet
    <2>2. Cardinality(Entries(st.pendings[k], x)) =
            Cardinality(Entries(left[k], x)) + Cardinality(Places(ids[k], x))
      BY <1>2, <1>5
    <2>3. Cardinality(Entries(left[k], x)) \in Nat /\ Cardinality(Places(ids[k], x)) \in Nat
      BY <1>2, <1>5, EntriesFinite, PlacesFinite
    <2>4. Cardinality(Said(r.events, "confirmed", k, x)) = Cardinality(Places(ids[k], x))
      BY <1>7
    <2> QED
      BY <1>8, <2>1, <2>2, <2>3, <2>4
  <1> QED
    BY <1>9, <1>10 DEF Balanced

LEMMA CommandBalanced ==
    ASSUME NEW st, NEW m \in Nat, StateInv(st, m), NEW t \in 0 .. m, NEW c \in Command,
           NEW r, r = ResourceHandleCommand(st, c, t), r.ok, r.events # << >>
    PROVE  Balanced(st, r.events, r.state)
  <1>1. validateCommandForNotExistingResource(st, c)
    BY DEF ResourceHandleCommand, Rejected
  <1>2. CASE c.type = "notify"
    <2>1. r = handleNotifyResourceChangedRequest(st, c)
      BY <1>1, <1>2 DEF ResourceHandleCommand
    <2> QED
      BY <2>1, NotifyBalanced
  <1>3. CASE c.type = "request"
    <2>1. r = handleResourceRequest(st, c, t)
      BY <1>1, <1>3 DEF ResourceHandleCommand
    <2> QED
      BY <1>3, <2>1, RequestBalanced
  <1>4. CASE c.type = "confirm"
    <2>1. r = confirmResourceRequest(st, c)
      BY <1>1, <1>4 DEF ResourceHandleCommand
    <2> QED
      BY <1>4, <2>1, ConfirmBalanced
  <1>5. CASE c.type = "cancel"
    <2>1. r = CancelPendingCommandsRequest(st, c)
      BY <1>1, <1>5 DEF ResourceHandleCommand
    <2> QED
      BY <2>1, CancelBalanced
  <1> QED
    BY <1>2, <1>3, <1>4, <1>5, RulesConstants

-----------------------------------------------------------------------------
(* The log.                                                                  *)

(* LastDeletion and Since of some log.                                       *)
Deletions(L) == {e.version : e \in {f \in L : /\ f.event.type = "confirmed"
                                              /\ DeletesResource(f.event.kind, f.event.status)}}
LastOf(L) == CHOOSE v \in Deletions(L) \cup {-1} : \A w \in Deletions(L) : w <= v

SinceOf(L, type, k, x) ==
    {e \in L : /\ e.version > LastOf(L)
               /\ e.event.type = type
               /\ e.event.kind = k
               /\ e.event.id = x}

(* The invariant of RequestsAccountedFor, of a log and a state.              *)
Accounted(L, st) ==
    \A k \in Kind : \A x :
        Cardinality(SinceOf(L, "pending", k, x))
          = Cardinality(SinceOf(L, "confirmed", k, x)) + Cardinality(Entries(st.pendings[k], x))

Numbers(L, v) == v \in Int /\ -1 <= v /\ IsFiniteSet(L) /\ \A e \in L : e.version \in 0 .. v

LEMMA LastIs ==
    ASSUME NEW L, NEW v, Numbers(L, v)
    PROVE  /\ LastOf(L) \in -1 .. v
           /\ \A w \in Deletions(L) : w <= LastOf(L)
           /\ \A y \in Deletions(L) \cup {-1} : (\A w \in Deletions(L) : w <= y) => y = LastOf(L)
  <1> DEFINE D == Deletions(L)
             T == D \cup {-1}
  <1>1. v \in Int /\ -1 <= v /\ D \in SUBSET (0 .. v)
    BY DEF Numbers, Deletions
  <1> HIDE DEF D
  <1>2. \E y \in T : \A w \in D : w <= y
    <2>1. PICK n \in Nat : v <= n
      <3>1. v + 1 \in Nat /\ v <= v + 1
        BY <1>1
      <3> QED
        BY <3>1
    <2>2. T \in SUBSET (-1 .. n) /\ T # {}
      <3>1. ASSUME NEW y \in T PROVE y \in -1 .. n
        BY <1>1, <2>1
      <3> QED
        BY <3>1
    <2>3. PICK y \in T : \A w \in T : w <= y
      BY <2>2, Greatest
    <2> QED
      BY <2>3
  <1>3. LastOf(L) = CHOOSE y \in T : \A w \in D : w <= y
    BY DEF LastOf, D
  <1>4. LastOf(L) \in T /\ \A w \in D : w <= LastOf(L)
    BY <1>2, <1>3, Zenon
  <1>5. ASSUME NEW y \in T PROVE y \in -1 .. v
    BY <1>1
  <1>6. LastOf(L) \in -1 .. v
    BY <1>4, <1>5
  <1>7. ASSUME NEW y \in T, \A w \in D : w <= y PROVE y = LastOf(L)
    <2>1. y \in Int /\ LastOf(L) \in Int /\ -1 <= y /\ -1 <= LastOf(L)
      BY <1>1, <1>5, <1>6
    <2>2. y <= LastOf(L)
      BY <1>4, <2>1
    <2>3. LastOf(L) <= y
      BY <1>4, <1>7, <2>1
    <2> QED
      BY <2>1, <2>2, <2>3
  <1> QED
    BY <1>4, <1>6, <1>7 DEF D

(* Events with the next numbers are added to the log.                        *)
Entry(events, v, i) == [version |-> v + i, event |-> events[i]]
Adds(L, new, v, events) ==
    /\ Numbers(L, v)
    /\ Len(events) \in Nat
    /\ new = L \cup {Entry(events, v, i) : i \in 1 .. Len(events)}

LEMMA AddedNumbers ==
    ASSUME NEW L, NEW new, NEW v, NEW events, Adds(L, new, v, events)
    PROVE  Numbers(new, v + Len(events))
  <1> DEFINE n == Len(events)
             N == {Entry(events, v, i) : i \in 1 .. n}
             f == [i \in 1 .. n |-> Entry(events, v, i)]
  <1>1. v \in Int /\ -1 <= v /\ n \in Nat /\ IsFiniteSet(L) /\ \A e \in L : e.version \in 0 .. v
    BY DEF Adds, Numbers
  <1>2. \A i \in 1 .. n : Entry(events, v, i).version = v + i
    BY DEF Entry
  <1>3. new = L \cup N
    BY DEF Adds
  <1>4. f \in [1 .. n -> N] /\ \A t \in N : \E i \in 1 .. n : f[i] = t
    OBVIOUS
  <1>5. \A i, j \in 1 .. n : f[i] = f[j] => i = j
    <2> SUFFICES ASSUME NEW i \in 1 .. n, NEW j \in 1 .. n, Entry(events, v, i) = Entry(events, v, j)
                 PROVE  i = j
      OBVIOUS
    <2>1. v + i = v + j
      BY <1>2
    <2> QED
      BY <1>1, <2>1
  <1>6. ASSUME NEW e \in N PROVE e.version \in 0 .. v + n
    <2>1. PICK i \in 1 .. n : e = Entry(events, v, i)
      OBVIOUS
    <2>2. e.version = v + i
      BY <1>2, <2>1
    <2> QED
      BY <1>1, <2>2
  <1>7. ASSUME NEW e \in L PROVE e.version \in 0 .. v + n
    BY <1>1
  <1> HIDE DEF f, N
  <1>8. IsFiniteSet(N)
    <2>1. IsFiniteSet(1 .. n)
      BY <1>1, FS_Interval
    <2> QED
      BY <1>4, <1>5, <2>1, SameCount
  <1>9. IsFiniteSet(new)
    BY <1>1, <1>3, <1>8, FS_Union
  <1>10. \A e \in new : e.version \in 0 .. v + n
    BY <1>3, <1>6, <1>7
  <1>11. v + n \in Int /\ -1 <= v + n
    BY <1>1
  <1> QED
    BY <1>9, <1>10, <1>11 DEF Numbers

(* The members of a log after events were added.                             *)
LEMMA AddedAre ==
    ASSUME NEW L, NEW new, NEW v, NEW events, Adds(L, new, v, events)
    PROVE  /\ \A e \in L : e \in new /\ e.version \in 0 .. v
           /\ \A i \in 1 .. Len(events) : Entry(events, v, i) \in new
           /\ \A e \in new : \/ e \in L
                             \/ \E i \in 1 .. Len(events) :
                                  /\ e = Entry(events, v, i)
                                  /\ e.version = v + i /\ e.event = events[i]
  BY DEF Adds, Numbers, Entry

(* Without a deletion, what was said since the last one grows by what is     *)
(* said now.                                                                 *)
LEMMA AddedSince ==
    ASSUME NEW L, NEW new, NEW v, NEW events, Adds(L, new, v, events),
           \A j \in 1 .. Len(events) : ~Deletes(events[j]),
           NEW type, NEW k, NEW x
    PROVE  /\ Cardinality(SinceOf(L, type, k, x)) \in Nat
           /\ Cardinality(Said(events, type, k, x)) \in Nat
           /\ Cardinality(SinceOf(new, type, k, x)) =
                Cardinality(SinceOf(L, type, k, x)) + Cardinality(Said(events, type, k, x))
  <1> DEFINE n == Len(events)
             P == Said(events, type, k, x)
             A == SinceOf(L, type, k, x)
             B == {e \in new : /\ e.version > v /\ e.event.type = type
                               /\ e.event.kind = k /\ e.event.id = x}
             f == [i \in P |-> Entry(events, v, i)]
  <1>1. v \in Int /\ -1 <= v /\ n \in Nat /\ Numbers(L, v) /\ IsFiniteSet(L)
    BY DEF Adds, Numbers
  <1>2. Numbers(new, v + n)
    BY AddedNumbers
  <1>3. Deletions(new) = Deletions(L)
    <2>1. ASSUME NEW e \in new, e.event.type = "confirmed", DeletesResource(e.event.kind, e.event.status)
          PROVE  e \in L
      BY <2>1, AddedAre DEF Deletes
    <2>2. {e \in new : e.event.type = "confirmed" /\ DeletesResource(e.event.kind, e.event.status)}
            = {e \in L : e.event.type = "confirmed" /\ DeletesResource(e.event.kind, e.event.status)}
      BY <2>1, AddedAre
    <2> QED
      BY <2>2 DEF Deletions
  <1>4. LastOf(new) = LastOf(L) /\ LastOf(L) \in -1 .. v
    BY <1>1, <1>3, LastIs DEF LastOf
  <1>5. ASSUME NEW i \in 1 .. n
        PROVE  Entry(events, v, i).version = v + i /\ Entry(events, v, i).event = events[i]
    BY DEF Entry
  <1>6. f \in [P -> B]
    <2> SUFFICES ASSUME NEW i \in P PROVE Entry(events, v, i) \in B
      OBVIOUS
    <2>1. /\ i \in 1 .. n /\ events[i].type = type /\ events[i].kind = k /\ events[i].id = x
      BY DEF Said
    <2>2. Entry(events, v, i) \in new
      BY <2>1, AddedAre
    <2>3. v + i > v
      BY <1>1, <2>1
    <2> QED
      BY <1>5, <2>1, <2>2, <2>3
  <1>7. \A i, j \in P : f[i] = f[j] => i = j
    <2> SUFFICES ASSUME NEW i \in P, NEW j \in P, Entry(events, v, i) = Entry(events, v, j)
                 PROVE  i = j
      OBVIOUS
    <2>1. i \in 1 .. n /\ j \in 1 .. n
      BY DEF Said
    <2>2. v + i = v + j
      BY <1>5, <2>1
    <2> QED
      BY <1>1, <2>1, <2>2
  <1>8. ASSUME NEW e \in B PROVE \E i \in P : f[i] = e
    <2>1. e \notin L
      <3>1. ASSUME e \in L PROVE FALSE
        <4>1. e.version \in 0 .. v /\ e.version > v
          BY <3>1, AddedAre
        <4> QED
          BY <1>1, <4>1
      <3> QED
        BY <3>1
    <2>2. PICK i \in 1 .. n : e = Entry(events, v, i) /\ e.event = events[i]
      BY <2>1, AddedAre
    <2>3. i \in P
      BY <2>2 DEF Said
    <2> QED
      BY <2>2, <2>3
  <1>9. P \in SUBSET (1 .. n)
    BY DEF Said
  <1>10. IsFiniteSet(P) /\ Cardinality(P) \in Nat
    BY <1>1, <1>9, PositionsFinite
  <1>11. IsFiniteSet(B) /\ Cardinality(B) = Cardinality(P)
    <2> HIDE DEF f, P, B
    <2>1. \A t \in B : \E i \in P : f[i] = t
      BY <1>8
    <2> QED
      BY <1>6, <1>7, <1>10, <2>1, SameCount
  <1>12. IsFiniteSet(A) /\ Cardinality(A) \in Nat
    <2>1. A \in SUBSET L
      BY DEF SinceOf
    <2>2. IsFiniteSet(A)
      BY <1>1, <2>1, FS_Subset
    <2> QED
      BY <2>2, FS_CardinalityType
  <1>13. A \cap B = {}
    <2> SUFFICES ASSUME NEW e \in A, e \in B PROVE FALSE
      OBVIOUS
    <2>1. e \in L /\ e.version > v
      BY DEF SinceOf
    <2>2. e.version \in 0 .. v
      BY <2>1, AddedAre
    <2> QED
      BY <1>1, <2>1, <2>2
  <1>14. SinceOf(new, type, k, x) = A \cup B
    <2>1. ASSUME NEW e \in SinceOf(new, type, k, x) PROVE e \in A \cup B
      <3>1. /\ e \in new /\ e.version > LastOf(L) /\ e.event.type = type
            /\ e.event.kind = k /\ e.event.id = x
        BY <1>4 DEF SinceOf
      <3>2. CASE e \in L
        BY <3>1, <3>2 DEF SinceOf
      <3>3. CASE e \notin L
        <4>1. PICK i \in 1 .. n : e.version = v + i
          BY <3>1, <3>3, AddedAre
        <4>2. e.version > v
          BY <1>1, <4>1
        <4> QED
          BY <3>1, <4>2
      <3> QED
        BY <3>2, <3>3
    <2>2. ASSUME NEW e \in A PROVE e \in SinceOf(new, type, k, x)
      BY <1>4, AddedAre DEF SinceOf
    <2>3. ASSUME NEW e \in B PROVE e \in SinceOf(new, type, k, x)
      <3>1. e \in new /\ e.version > v /\ e.version \in 0 .. v + n
        BY <1>2 DEF Numbers
      <3>2. e.version > LastOf(L)
        BY <1>1, <1>4, <3>1
      <3> QED
        BY <1>4, <3>1, <3>2 DEF SinceOf
    <2> HIDE DEF A, B
    <2> QED
      BY <2>1, <2>2, <2>3
  <1> HIDE DEF A, B, P
  <1>15. Cardinality(A \cup B) = Cardinality(A) + Cardinality(B)
    BY <1>11, <1>12, <1>13, CountOfBoth
  <1> QED
    BY <1>10, <1>11, <1>12, <1>14, <1>15 DEF A, P

(* After a deletion everything starts anew.                                  *)
LEMMA DeletedSince ==
    ASSUME NEW L, NEW new, NEW v, NEW events, Adds(L, new, v, events),
           Len(events) = 1, Deletes(events[1]), NEW type, NEW k, NEW x
    PROVE  SinceOf(new, type, k, x) = {}
  <1> DEFINE e == Entry(events, v, 1)
  <1>1. v \in Int /\ -1 <= v
    BY DEF Adds, Numbers
  <1>2. Numbers(new, v + 1)
    BY AddedNumbers
  <1>3. e \in new /\ e.version = v + 1 /\ e.event = events[1]
    BY AddedAre DEF Entry
  <1> HIDE DEF e
  <1>4. v + 1 \in Deletions(new)
    <2>1. e.event.type = "confirmed" /\ DeletesResource(e.event.kind, e.event.status)
      BY <1>3 DEF Deletes
    <2> QED
      BY <1>3, <2>1 DEF Deletions
  <1>5. \A f \in new : f.version \in 0 .. v + 1
    BY <1>2 DEF Numbers
  <1>6. LastOf(new) \in -1 .. v + 1 /\ v + 1 <= LastOf(new)
    BY <1>2, <1>4, LastIs
  <1> QED
    BY <1>1, <1>5, <1>6 DEF SinceOf

(* So the account stays balanced.                                            *)
LEMMA StaysAccounted ==
    ASSUME NEW L, NEW new, NEW v, NEW events, Adds(L, new, v, events),
           NEW st, NEW st2, Accounted(L, st), Balanced(st, events, st2),
           \A k \in Kind : st.pendings[k] \in Seq(Pending) /\ st2.pendings[k] \in Seq(Pending)
    PROVE  Accounted(new, st2)
  <1> SUFFICES ASSUME NEW k \in Kind, NEW x
               PROVE  Cardinality(SinceOf(new, "pending", k, x))
                        = Cardinality(SinceOf(new, "confirmed", k, x)) + Cardinality(Entries(st2.pendings[k], x))
    BY DEF Accounted
  <1>1. /\ Cardinality(Entries(st.pendings[k], x)) \in Nat
        /\ Cardinality(Entries(st2.pendings[k], x)) \in Nat
    BY EntriesFinite
  <1>2. CASE /\ Len(events) = 1 /\ Deletes(events[1])
             /\ \A i \in Kind : st2.pendings[i] = << >>
    <2>1. SinceOf(new, "pending", k, x) = {} /\ SinceOf(new, "confirmed", k, x) = {}
      BY <1>2, DeletedSince
    <2>2. Entries(st2.pendings[k], x) = {}
      BY <1>2 DEF Entries
    <2>3. Cardinality({}) = 0
      BY FS_EmptySet
    <2>4. /\ Cardinality(SinceOf(new, "pending", k, x)) = 0
          /\ Cardinality(SinceOf(new, "confirmed", k, x)) = 0
          /\ Cardinality(Entries(st2.pendings[k], x)) = 0
      BY <2>1, <2>2, <2>3, Zenon
    <2> QED
      BY <2>4
  <1>3. CASE /\ \A j \in 1 .. Len(events) : ~Deletes(events[j])
             /\ Cardinality(Said(events, "pending", k, x)) + Cardinality(Entries(st.pendings[k], x))
                  = Cardinality(Said(events, "confirmed", k, x)) + Cardinality(Entries(st2.pendings[k], x))
    <2>1. /\ Cardinality(SinceOf(L, "pending", k, x)) \in Nat
          /\ Cardinality(Said(events, "pending", k, x)) \in Nat
          /\ Cardinality(SinceOf(new, "pending", k, x)) =
               Cardinality(SinceOf(L, "pending", k, x)) + Cardinality(Said(events, "pending", k, x))
      BY <1>3, AddedSince
    <2>2. /\ Cardinality(SinceOf(L, "confirmed", k, x)) \in Nat
          /\ Cardinality(Said(events, "confirmed", k, x)) \in Nat
          /\ Cardinality(SinceOf(new, "confirmed", k, x)) =
               Cardinality(SinceOf(L, "confirmed", k, x)) + Cardinality(Said(events, "confirmed", k, x))
      BY <1>3, AddedSince
    <2>3. Cardinality(SinceOf(L, "pending", k, x)) =
            Cardinality(SinceOf(L, "confirmed", k, x)) + Cardinality(Entries(st.pendings[k], x))
      BY DEF Accounted
    <2> DEFINE asked == Cardinality(SinceOf(L, "pending", k, x))
               answered == Cardinality(SinceOf(L, "confirmed", k, x))
               asks == Cardinality(Said(events, "pending", k, x))
               answers == Cardinality(Said(events, "confirmed", k, x))
               waiting == Cardinality(Entries(st.pendings[k], x))
               waits == Cardinality(Entries(st2.pendings[k], x))
    <2>4. /\ asked \in Nat /\ answered \in Nat /\ asks \in Nat /\ answers \in Nat
          /\ waiting \in Nat /\ waits \in Nat
          /\ asks + waiting = answers + waits /\ asked = answered + waiting
      BY <1>1, <1>3, <2>1, <2>2, <2>3
    <2>5. /\ Cardinality(SinceOf(new, "pending", k, x)) = asked + asks
          /\ Cardinality(SinceOf(new, "confirmed", k, x)) = answered + answers
      BY <2>1, <2>2
    <2> HIDE DEF asked, answered, asks, answers, waiting, waits
    <2>6. asked + asks = (answered + answers) + waits
      BY <2>4
    <2> QED
      BY <2>5, <2>6 DEF waits
  <1> QED
    BY <1>2, <1>3 DEF Balanced

(* The inductive invariant of the account: the log is finite, so it can be   *)
(* counted, and it is balanced with the lists.                               *)
AccountInv ==
    /\ IInv
    /\ IsFiniteSet(log)
    /\ Accounted(log, state)

LEMMA InitiallyAccounted == Init => AccountInv
  <1> SUFFICES ASSUME Init PROVE AccountInv
    OBVIOUS
  <1>1. log = {} /\ state = NewResourceStateSnapshotTaken
    BY DEF Init
  <1>2. \A k \in Kind : state.pendings[k] = << >>
    BY <1>1 DEF NewResourceStateSnapshotTaken
  <1>3. Cardinality({}) = 0 /\ IsFiniteSet({})
    BY FS_EmptySet
  <1>4. ASSUME NEW k \in Kind, NEW x
        PROVE  Cardinality(SinceOf(log, "pending", k, x))
                 = Cardinality(SinceOf(log, "confirmed", k, x)) + Cardinality(Entries(state.pendings[k], x))
    <2>1. SinceOf(log, "pending", k, x) = {} /\ SinceOf(log, "confirmed", k, x) = {}
      BY <1>1 DEF SinceOf
    <2>2. Entries(state.pendings[k], x) = {}
      BY <1>2 DEF Entries
    <2>3. /\ Cardinality(SinceOf(log, "pending", k, x)) = 0
          /\ Cardinality(SinceOf(log, "confirmed", k, x)) = 0
          /\ Cardinality(Entries(state.pendings[k], x)) = 0
      BY <1>3, <2>1, <2>2, Zenon
    <2> QED
      BY <2>3
  <1>5. IsFiniteSet(log)
    BY <1>1, <1>3, Zenon
  <1> QED
    BY <1>4, <1>5, Initially DEF AccountInv, Accounted

LEMMA AccountPreserved ==
    ASSUME AccountInv, [RulesNext]_vars
    PROVE  AccountInv'
  <1>0. IInv /\ IInv'
    BY Preserved DEF AccountInv
  <1>1. CASE UNCHANGED <<log, state>>
    BY <1>0, <1>1 DEF AccountInv
  <1>2. ASSUME NEW c \in Command, Execute(c)
        PROVE  AccountInv'
    <2>1. PICK t \in 0 .. now : LET r == ResourceHandleCommand(state, c, t)
                                IN /\ r.ok
                                   /\ \E n \in 1 .. MaxEvents :
                                        /\ n = Len(r.events)
                                        /\ version' = version + n
                                        /\ state' = r.state
                                        /\ log' = log \cup Numbered(r.events, version + 1, n)
      BY <1>2, Zenon DEF Execute
    <2>2. PICK r : r = ResourceHandleCommand(state, c, t)
      OBVIOUS
    <2>3. PICK n \in 1 .. MaxEvents : /\ n = Len(r.events)
                                      /\ state' = r.state
                                      /\ log' = log \cup Numbered(r.events, version + 1, n)
      BY <2>1, <2>2, Zenon
    <2>4. r.ok
      BY <2>1, <2>2, Zenon
    <2>5. n \in Nat /\ n # 0 /\ version \in Int /\ -1 <= version /\ now \in Nat /\ StateInv(state, now)
      BY <1>0, RulesConstants DEF IInv
    <2>6. r.events # << >>
      <3>1. Len(<< >>) = 0
        OBVIOUS
      <3> QED
        BY <2>3, <2>5, <3>1
    <2>7. Balanced(state, r.events, r.state)
      BY <2>2, <2>4, <2>5, <2>6, CommandBalanced
    <2>8. Adds(log, log', version, r.events)
      <3>1. Numbered(r.events, version + 1, n) = {Entry(r.events, version, i) : i \in 1 .. Len(r.events)}
        <4>1. ASSUME NEW i \in 1 .. n PROVE version + 1 + i - 1 = version + i
          BY <2>5
        <4> QED
          BY <2>3, <4>1 DEF Numbered, Entry
      <3>2. Numbers(log, version)
        <4>1. {e.version : e \in log} = 0 .. version
          BY <1>0 DEF IInv
        <4>2. \A e \in log : e.version \in 0 .. version
          BY <4>1
        <4> QED
          BY <2>5, <4>2 DEF Numbers, AccountInv
      <3>3. Len(r.events) \in Nat
        BY <2>3, <2>5
      <3> QED
        BY <2>3, <3>1, <3>2, <3>3 DEF Adds
    <2>9. \A k \in Kind : state.pendings[k] \in Seq(Pending) /\ r.state.pendings[k] \in Seq(Pending)
      BY <1>0, <2>3 DEF IInv, StateInv, State
    <2>10. Accounted(log', r.state)
      BY <2>7, <2>8, <2>9, StaysAccounted DEF AccountInv
    <2>11. IsFiniteSet(log')
      BY <2>8, AddedNumbers DEF Numbers
    <2> QED
      BY <1>0, <2>3, <2>10, <2>11 DEF AccountInv
  <1> QED
    BY <1>1, <1>2 DEF RulesNext, Tick, vars

(* Every request is accounted for: since the last deletion, the requests     *)
(* stored under an id are the ones answered plus the ones waiting, for any   *)
(* commands in any order, although a cancellation shifts the list it runs    *)
(* over (cancelResource...Pendings, handleEventResource{Created,Updated,     *)
(* Retrieved,Deleted}).                                                      *)
THEOREM RequestsAreAccountedFor == RulesSpec => []RequestsAccountedFor
  <1>1. Init => AccountInv
    BY InitiallyAccounted
  <1>2. AccountInv /\ [RulesNext]_vars => AccountInv'
    BY AccountPreserved
  <1>3. AccountInv => RequestsAccountedFor
    <2> SUFFICES ASSUME AccountInv, NEW k \in Kind, NEW id
                 PROVE  Cardinality(Since("pending", k, id))
                          = Cardinality(Since("confirmed", k, id)) + Cardinality(Waiting(k, id))
      BY DEF RequestsAccountedFor
    <2>1. LastDeletion = LastOf(log)
      BY Zenon DEF LastDeletion, LastOf, Deletions
    <2>2. /\ Since("pending", k, id) = SinceOf(log, "pending", k, id)
          /\ Since("confirmed", k, id) = SinceOf(log, "confirmed", k, id)
      BY <2>1 DEF Since, SinceOf
    <2>3. Waiting(k, id) = Entries(state.pendings[k], id)
      <3>1. state.pendings[k] \in Seq(Pending)
        BY DEF AccountInv, IInv, StateInv, State
      <3>2. DOMAIN state.pendings[k] = 1 .. Len(state.pendings[k])
        BY <3>1
      <3> QED
        BY <3>2 DEF Waiting, Entries
    <2>4. Cardinality(SinceOf(log, "pending", k, id))
            = Cardinality(SinceOf(log, "confirmed", k, id)) + Cardinality(Entries(state.pendings[k], id))
      BY DEF AccountInv, Accounted
    <2> QED
      BY <2>2, <2>3, <2>4, Zenon
  <1> QED
    BY <1>1, <1>2, <1>3, PTL DEF RulesSpec
=============================================================================
