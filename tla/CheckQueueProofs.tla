------------------------- MODULE CheckQueueProofs --------------------------
(***************************************************************************)
(* Proofs about the queue of script checks: the verdict of Wait is right,  *)
(* for any number of workers, masters and checks and any batch size.       *)
(***************************************************************************)
EXTENDS CheckQueue, FiniteSetTheorems, TLAPS

\* The places of the batches: as many as there are checks in them.
Slots(f, S) == UNION {{t} \X (1 .. Len(f[t])) : t \in S}

Waiting == {t \in Threads : pc[t] \in {"wait", "woken"}}
Inside == {t \in Threads : pc[t] \in {"wait", "woken"} \/ vChecks[t] # <<>>}

\* The three counters.
CountInv ==
    /\ nTodo = Len(queue) + Cardinality(Slots(vChecks, Threads))
    /\ nIdle = Cardinality(Waiting)
    /\ nTotal = Cardinality(Inside)

\* Who can be where: ControlMutex lets one master in, and a batch is being run.
PlaceInv ==
    /\ \A w \in Workers : pc[w] \in {"enter", "wait", "woken"}
    /\ \A m \in Masters : pc[m] # "out" <=> ControlMutex = m
    /\ \A t \in Threads : vChecks[t] # <<>> => pc[t] = "enter"

\* No control object, or one whose Wait has returned.
AtRest == ControlMutex = None \/ pc[ControlMutex] = "done"

\* The verdict over what was added is the one over what is known and what is
\* left: fAllOk, the queue, and the batches with the verdict they started with.
VerdictInv ==
    /\ AtRest => queue = <<>> /\ nTodo = 0 /\ fAllOk
    /\ ~AtRest => (AllTrue(added) <=>
          /\ fAllOk /\ AllTrue(queue)
          /\ \A t \in Threads : vChecks[t] # <<>> => fOk[t] /\ AllTrue(vChecks[t]))
    /\ VerdictRight

IInv == TypeOK /\ CountInv /\ PlaceInv /\ VerdictInv

-----------------------------------------------------------------------------
(* Counting: the sum of the lengths of the batches is the number of their   *)
(* places, which changes with a batch by the change of its length.          *)

Batches(S) == [S -> Seq(BOOLEAN)]

\* The places of one batch are as many as its length says.
LEMMA OneBatch ==
  ASSUME NEW t, NEW n \in Nat
  PROVE  IsFiniteSet({t} \X (1 .. n)) /\ Cardinality({t} \X (1 .. n)) = n
<1>1. IsFiniteSet({t}) /\ Cardinality({t}) = 1
  BY FS_Singleton
<1>2. IsFiniteSet(1 .. n) /\ Cardinality(1 .. n) = n
  BY FS_Interval
<1>3. /\ IsFiniteSet({t} \X (1 .. n))
      /\ Cardinality({t} \X (1 .. n)) = Cardinality({t}) * Cardinality(1 .. n)
  BY Zenon, <1>1, <1>2, FS_Product
<1> QED BY <1>1, <1>2, <1>3

\* Taking a thread away takes the places of its batch away.
LEMMA SlotsRemove ==
  ASSUME NEW S, NEW f \in Batches(S), NEW U \in SUBSET S, NEW t \in U,
         IsFiniteSet(Slots(f, U \ {t}))
  PROVE  /\ IsFiniteSet(Slots(f, U))
         /\ Cardinality(Slots(f, U)) = Len(f[t]) + Cardinality(Slots(f, U \ {t}))
<1> DEFINE A == {t} \X (1 .. Len(f[t]))
           B == Slots(f, U \ {t})
<1>1. Len(f[t]) \in Nat
  BY DEF Batches
<1>2. IsFiniteSet(A) /\ Cardinality(A) = Len(f[t])
  BY Zenon, <1>1, OneBatch
<1>3. Slots(f, U) = A \cup B /\ A \cap B = {}
  BY DEF Slots
<1> HIDE DEF A, B
<1>4. Cardinality(B) \in Nat /\ Cardinality({}) = 0
  BY FS_CardinalityType, FS_EmptySet DEF B
<1>5. /\ IsFiniteSet(A \cup B)
      /\ Cardinality(A \cup B) = Cardinality(A) + Cardinality(B) - Cardinality(A \cap B)
  BY Zenon, <1>2, FS_Union DEF B
<1>6. Cardinality(A \cap B) = 0
  BY <1>3, <1>4
<1>7. Cardinality(A \cup B) = Len(f[t]) + Cardinality(B)
  BY <1>1, <1>2, <1>4, <1>5, <1>6
<1> QED BY <1>3, <1>5, <1>7 DEF B

\* A property of every finite set of threads is proved on a smallest exception.
LEMMA SmallestSubset ==
  ASSUME NEW S, IsFiniteSet(S), NEW Bad \in SUBSET (SUBSET S), Bad # {}
  PROVE  \E U \in Bad : \A t \in U : U \ {t} \notin Bad
<1> DEFINE R == StrictSubsetOrdering(S)
<1>1. FiniteSubsetsOf(S) = SUBSET S
  BY FS_FiniteSubsetsOfFinite
<1>2. IsWellFoundedOn(R, SUBSET S)
  BY Zenon, <1>1, FS_StrictSubsetOrderingWellFounded
<1>3. PICK U \in Bad : \A V \in Bad : ~ (<<V, U>> \in R)
  BY <1>2, WFMin
<1>4. ASSUME NEW t \in U PROVE U \ {t} \notin Bad
  BY Zenon, <1>3, <1>4 DEF StrictSubsetOrdering
<1> QED BY <1>4

\* Finitely many threads hold finitely many checks.
LEMMA SlotsFinite ==
  ASSUME NEW S, IsFiniteSet(S), NEW f \in Batches(S)
  PROVE  \A U \in SUBSET S : IsFiniteSet(Slots(f, U)) /\ Cardinality(Slots(f, U)) \in Nat
<1> DEFINE Bad == {U \in SUBSET S : ~ IsFiniteSet(Slots(f, U))}
<1>1. SUFFICES ASSUME Bad # {} PROVE FALSE
  BY FS_CardinalityType
<1>2. PICK U \in Bad : \A t \in U : U \ {t} \notin Bad
  BY Zenon, <1>1, SmallestSubset
<1>3. CASE U = {}
  <2>1. Slots(f, U) = {}
    BY <1>3 DEF Slots
  <2> QED BY <2>1, FS_EmptySet
<1>4. ASSUME NEW t \in U PROVE FALSE
  <2>1. IsFiniteSet(Slots(f, U \ {t}))
    BY <1>2, <1>4
  <2> QED BY <2>1, SlotsRemove
<1> QED BY <1>3, <1>4

\* MapThenSumSet, which Accounted uses, adds up what is counted here.
LEMMA SumOfBatches ==
  ASSUME NEW S, IsFiniteSet(S), NEW f \in Batches(S)
  PROVE  MapThenSumSet(LAMBDA t : Len(f[t]), S) = Cardinality(Slots(f, S))
<1> DEFINE pick(s) == CHOOSE x \in s : TRUE
           Sums(g) == g = [s \in SUBSET S |->
                              IF s = {} THEN 0 ELSE Len(f[pick(s)]) + g[s \ {pick(s)}]]
           count == [s \in SUBSET S |-> Cardinality(Slots(f, s))]
<1>1. MapThenSumSet(LAMBDA t : Len(f[t]), S) = (CHOOSE g : Sums(g))[S]
  BY DEF MapThenSumSet, MapThenFoldSet
<1>2. \A s \in SUBSET S : s # {} => pick(s) \in s
  OBVIOUS
<1> HIDE DEF pick
<1>3. ASSUME NEW s \in SUBSET S, s # {}
      PROVE  Cardinality(Slots(f, s)) = Len(f[pick(s)]) + Cardinality(Slots(f, s \ {pick(s)}))
  BY <1>2, <1>3, SlotsRemove, SlotsFinite
<1>4. Cardinality(Slots(f, {})) = 0
  <2>1. Slots(f, {}) = {}
    BY DEF Slots
  <2> QED BY <2>1, FS_EmptySet
<1>5. Sums(count)
  BY Zenon, <1>2, <1>3, <1>4
<1>6. ASSUME NEW g, Sums(g) PROVE g[S] = count[S]
  <2> DEFINE Bad == {s \in SUBSET S : g[s] # count[s]}
  <2>1. SUFFICES ASSUME Bad # {} PROVE FALSE
    OBVIOUS
  <2>2. PICK U \in Bad : \A t \in U : U \ {t} \notin Bad
    BY Zenon, <2>1, SmallestSubset
  <2>3. U # {} => g[U \ {pick(U)}] = count[U \ {pick(U)}]
    BY Zenon, <1>2, <2>2
  <2>4. ASSUME NEW s \in SUBSET S
        PROVE  g[s] = IF s = {} THEN 0 ELSE Len(f[pick(s)]) + g[s \ {pick(s)}]
    BY <1>6, Zenon
  <2>5. /\ U \in SUBSET S
        /\ \A s \in SUBSET S : count[s] = Cardinality(Slots(f, s))
    BY <2>2
  <2> HIDE DEF count
  <2>6. CASE U = {}
    BY <1>4, <2>2, <2>4, <2>5, <2>6
  <2>7. CASE U # {}
    BY Zenon, <1>3, <2>2, <2>3, <2>4, <2>5, <2>7
  <2> QED BY <2>6, <2>7
<1>7. Sums(CHOOSE g : Sums(g))
  BY Zenon, <1>5
<1> QED BY Zenon, <1>1, <1>6, <1>7

\* A thread takes a batch, or has done its own.
LEMMA SlotsUpdate ==
  ASSUME NEW f \in Batches(Threads), NEW t \in Threads, NEW b \in Seq(BOOLEAN)
  PROVE  /\ [f EXCEPT ![t] = b] \in Batches(Threads)
         /\ Cardinality(Slots([f EXCEPT ![t] = b], Threads))
              = Cardinality(Slots(f, Threads)) - Len(f[t]) + Len(b)
<1> DEFINE g == [f EXCEPT ![t] = b]
           others == Threads \ {t}
<1>1. IsFiniteSet(Threads)
  BY Zenon, CheckQueueAssumption, FS_Union DEF Threads
<1>2. g \in Batches(Threads) /\ g[t] = b /\ \A u \in others : g[u] = f[u]
  BY DEF Batches
<1>3. Slots(g, others) = Slots(f, others)
  BY <1>2 DEF Slots
<1> HIDE DEF g, others
<1>4. /\ Cardinality(Slots(f, Threads)) = Len(f[t]) + Cardinality(Slots(f, others))
      /\ Cardinality(Slots(f, others)) \in Nat
  BY <1>1, SlotsFinite, SlotsRemove DEF others
<1>5. Cardinality(Slots(g, Threads)) = Len(g[t]) + Cardinality(Slots(g, others))
  BY <1>1, <1>2, SlotsFinite, SlotsRemove DEF others
<1>6. Len(f[t]) \in Nat /\ Len(b) \in Nat
  BY DEF Batches
<1> QED BY <1>2, <1>3, <1>4, <1>5, <1>6 DEF g

\* A batch is part of the count, and nothing is counted without a batch.
LEMMA SlotsCount ==
  ASSUME NEW f \in Batches(Threads)
  PROVE  /\ Cardinality(Slots(f, Threads)) \in Nat
         /\ \A t \in Threads : Len(f[t]) <= Cardinality(Slots(f, Threads))
         /\ (\A t \in Threads : f[t] = <<>>) => Cardinality(Slots(f, Threads)) = 0
<1>1. IsFiniteSet(Threads)
  BY Zenon, CheckQueueAssumption, FS_Union DEF Threads
<1>2. Cardinality(Slots(f, Threads)) \in Nat
  BY <1>1, SlotsFinite
<1>3. ASSUME NEW t \in Threads PROVE Len(f[t]) <= Cardinality(Slots(f, Threads))
  <2>1. /\ Cardinality(Slots(f, Threads)) = Len(f[t]) + Cardinality(Slots(f, Threads \ {t}))
        /\ Cardinality(Slots(f, Threads \ {t})) \in Nat
    BY <1>1, SlotsFinite, SlotsRemove
  <2> QED BY <2>1 DEF Batches
<1>4. ASSUME \A t \in Threads : f[t] = <<>> PROVE Cardinality(Slots(f, Threads)) = 0
  <2>1. Slots(f, Threads) = {}
    BY <1>4 DEF Slots
  <2> QED BY <2>1, FS_EmptySet
<1> QED BY <1>2, <1>3, <1>4

\* At least one check is taken, and no more than there are.
LEMMA NNowRange ==
  ASSUME NEW n \in Nat \ {0}, NEW total \in Nat, NEW idle \in Nat
  PROVE  NNow(n, total, idle) \in 1 .. n
<1> DEFINE d == total + idle + 1
           q == n \div d
<1>1. q \in Nat /\ q <= n
  OBVIOUS
<1> HIDE DEF q
<1>2. Min({nBatchSize, q}) \in {nBatchSize, q} /\ Min({nBatchSize, q}) <= q
  BY <1>1, CheckQueueAssumption DEF Min
<1>3. \A k \in Nat : Max({1, k}) \in {1, k} /\ Max({1, k}) >= 1
  BY DEF Max
<1>4. NNow(n, total, idle) = Max({1, Min({nBatchSize, q})})
  BY DEF NNow, q
<1> QED BY <1>1, <1>2, <1>3, <1>4, CheckQueueAssumption

\* A verdict over checks is the one over the two parts they are split into.
LEMMA AllTrueIs ==
  ASSUME NEW c \in Seq(BOOLEAN)
  PROVE  AllTrue(c) <=> \A i \in 1 .. Len(c) : c[i] = TRUE
<1>1. DOMAIN c = 1 .. Len(c) /\ \A i \in 1 .. Len(c) : c[i] \in BOOLEAN
  OBVIOUS
<1> QED BY <1>1 DEF AllTrue

\* A batch taken from the back of the queue: all checks pass if those taken and
\* those left do.
LEMMA AllTrueSplit ==
  ASSUME NEW c \in Seq(BOOLEAN), NEW k \in 0 .. Len(c)
  PROVE  AllTrue(c) <=> AllTrue(SubSeq(c, 1, Len(c) - k))
                        /\ AllTrue(SubSeq(c, Len(c) - k + 1, Len(c)))
<1> DEFINE n == Len(c)
           a == SubSeq(c, 1, n - k)
           b == SubSeq(c, n - k + 1, n)
<1>1. /\ a \in Seq(BOOLEAN) /\ Len(a) = n - k /\ \A i \in 1 .. n - k : a[i] = c[i]
      /\ b \in Seq(BOOLEAN) /\ Len(b) = k /\ \A i \in 1 .. k : b[i] = c[n - k + i]
  OBVIOUS
<1>2. n \in Nat /\ k \in 0 .. n
  OBVIOUS
<1> HIDE DEF a, b, n
<1>3. (\A i \in 1 .. n : c[i] = TRUE) <=>
         (\A i \in 1 .. n - k : a[i] = TRUE) /\ (\A i \in 1 .. k : b[i] = TRUE)
  <2>1. ASSUME \A i \in 1 .. n : c[i] = TRUE
        PROVE  (\A i \in 1 .. n - k : a[i] = TRUE) /\ (\A i \in 1 .. k : b[i] = TRUE)
    <3>1. (\A i \in 1 .. n - k : i \in 1 .. n) /\ (\A i \in 1 .. k : n - k + i \in 1 .. n)
      BY <1>2
    <3> QED BY Zenon, <1>1, <2>1, <3>1
  <2>2. ASSUME \A i \in 1 .. n - k : a[i] = TRUE, \A i \in 1 .. k : b[i] = TRUE, NEW i \in 1 .. n
        PROVE  c[i] = TRUE
    <3>1. CASE i <= n - k
      BY <1>1, <1>2, <2>2, <3>1
    <3>2. CASE i > n - k
      <4>1. PICK j \in 1 .. k : n - k + j = i
        <5>1. i - (n - k) \in 1 .. k /\ n - k + (i - (n - k)) = i
          BY <1>2, <3>2
        <5> QED BY <5>1
      <4>2. b[j] = TRUE /\ b[j] = c[i]
        BY <1>1, <2>2, <4>1
      <4> QED BY <4>2
    <3>3. i <= n - k \/ i > n - k
      BY <1>2
    <3> QED BY Zenon, <3>1, <3>2, <3>3
  <2> QED BY Zenon, <2>1, <2>2
<1> QED BY Zenon, <1>1, <1>3, AllTrueIs DEF n, a, b

\* Add appends: all checks pass if the old and the new ones do.
LEMMA AllTrueConcat ==
  ASSUME NEW c \in Seq(BOOLEAN), NEW d \in Seq(BOOLEAN)
  PROVE  AllTrue(c \o d) <=> AllTrue(c) /\ AllTrue(d)
<1> DEFINE e == c \o d
<1>1. e \in Seq(BOOLEAN) /\ Len(e) = Len(c) + Len(d)
      /\ (\A i \in 1 .. Len(c) : e[i] = c[i])
      /\ (\A i \in 1 .. Len(d) : e[Len(c) + i] = d[i])
  OBVIOUS
<1> HIDE DEF e
<1>2. ASSUME \A i \in 1 .. Len(e) : e[i] = TRUE
      PROVE  (\A i \in 1 .. Len(c) : c[i] = TRUE) /\ (\A i \in 1 .. Len(d) : d[i] = TRUE)
  <2>1. ASSUME NEW i \in 1 .. Len(c) PROVE c[i] = TRUE
    <3>1. i \in 1 .. Len(e)
      BY <1>1
    <3> QED BY Zenon, <1>1, <1>2, <3>1
  <2>2. ASSUME NEW i \in 1 .. Len(d) PROVE d[i] = TRUE
    <3>1. Len(c) + i \in 1 .. Len(e)
      BY <1>1
    <3> QED BY Zenon, <1>1, <1>2, <3>1
  <2> QED BY Zenon, <2>1, <2>2
<1>3. ASSUME \A i \in 1 .. Len(c) : c[i] = TRUE, \A i \in 1 .. Len(d) : d[i] = TRUE,
             NEW i \in 1 .. Len(e)
      PROVE  e[i] = TRUE
  <2>1. CASE i <= Len(c)
    BY <1>1, <1>3, <2>1
  <2>2. CASE i > Len(c)
    <3>1. PICK j \in 1 .. Len(d) : Len(c) + j = i
      <4>1. i - Len(c) \in 1 .. Len(d) /\ Len(c) + (i - Len(c)) = i
        BY <1>1, <2>2
      <4> QED BY Zenon, <4>1
    <3>2. d[j] = TRUE /\ d[j] = e[i]
      BY <1>1, <1>3, <3>1
    <3> QED BY <3>2
  <2>3. i <= Len(c) \/ i > Len(c)
    BY <1>1
  <2> QED BY Zenon, <2>1, <2>2, <2>3
<1> QED BY Zenon, <1>1, <1>2, <1>3, AllTrueIs DEF e

-----------------------------------------------------------------------------
(* IInv is inductive. *)

\* The sets that nTotal and nIdle count are finite.
LEMMA ThreadsFinite ==
  IsFiniteSet(Threads) /\ IsFiniteSet(Waiting) /\ IsFiniteSet(Inside)
<1>1. IsFiniteSet(Threads)
  BY Zenon, CheckQueueAssumption, FS_Union DEF Threads
<1>2. Waiting \in SUBSET Threads /\ Inside \in SUBSET Threads
  BY DEF Waiting, Inside
<1> QED BY <1>1, <1>2, FS_Subset

\* A new queue satisfies the invariant.
LEMMA InitIInv == Init => IInv
<1> SUFFICES ASSUME Init PROVE IInv
  OBVIOUS
<1>1. TypeOK
  <2>1. fAllOk \in BOOLEAN /\ fRet \in BOOLEAN /\ fOk \in [Threads -> BOOLEAN]
    BY DEF Init
  <2>2. pc \in [Threads -> Places] /\ vChecks \in [Threads -> Seq(BOOLEAN)]
    BY DEF Init, Places
  <2> QED BY <2>1, <2>2 DEF Init, TypeOK
<1>2. CountInv
  <2>1. Waiting = {} /\ Inside = {}
    BY DEF Init, Waiting, Inside
  <2>2. Cardinality(Slots(vChecks, Threads)) = 0
    BY Zenon, <1>1, SlotsCount DEF Init, TypeOK, Batches
  <2> QED BY <2>1, <2>2, FS_EmptySet DEF Init, CountInv
<1>3. PlaceInv
  BY CheckQueueAssumption DEF Init, PlaceInv, Threads
<1>4. VerdictInv
  BY CheckQueueAssumption DEF Init, VerdictInv, VerdictRight, AtRest, Threads
<1> QED BY <1>1, <1>2, <1>3, <1>4 DEF IInv

\* A thread in Loop, at the point where "logically, the do loop starts": its batch
\* is accounted for, todo and ok say what is left, and it is not counted as idle.
LoopStart(t, total, idle, todo, ok, p) ==
    /\ pc[t] \in {"enter", "woken"}
    /\ ok \in BOOLEAN /\ p \in [Threads -> Places]
    /\ \A u \in Threads : p[u] = pc[u] \/ (pc[u] = "wait" /\ p[u] = "woken")
    /\ total = Cardinality(Inside \ {t}) + 1
    /\ idle = Cardinality(Waiting \ {t})
    /\ todo = Len(queue) + Cardinality(Slots(vChecks, Threads)) - Len(vChecks[t])
    /\ AtRest => queue = <<>> /\ todo = 0 /\ ok
    /\ ~AtRest => (AllTrue(added) <=>
          /\ ok /\ AllTrue(queue)
          /\ \A u \in Threads \ {t} : vChecks[u] # <<>> => fOk[u] /\ AllTrue(vChecks[u]))

\* How the critical section ends: the thread is left with a batch b, taken from
\* the queue, and waits, works or returns.
LoopEnd(t, total, idle, todo, p, b, place) ==
    /\ b \in Seq(BOOLEAN) /\ place \in {"wait", "enter", "done"}
    /\ b # <<>> <=> place = "enter"
    /\ place = "done" => t \in Masters
    /\ vChecks' = [vChecks EXCEPT ![t] = b]
    /\ pc' = [p EXCEPT ![t] = place]
    /\ Len(queue') + Len(b) = Len(queue) /\ Len(queue') \in Nat
    /\ nTodo' = todo
    /\ nTotal' = IF place = "done" THEN total - 1 ELSE total
    /\ nIdle' = IF place = "wait" THEN idle + 1 ELSE idle
    /\ UNCHANGED <<ControlMutex, added>>

\* What that does to the counters.
LEMMA LoopCounts ==
  ASSUME IInv, NEW t \in Threads, NEW total, NEW idle, NEW todo, NEW ok, NEW p,
         NEW b, NEW place,
         LoopStart(t, total, idle, todo, ok, p), LoopEnd(t, total, idle, todo, p, b, place)
  PROVE  CountInv' /\ nTodo' \in Nat /\ nTotal' \in Nat /\ nIdle' \in Nat
<1>1. /\ queue \in Seq(BOOLEAN) /\ vChecks \in Batches(Threads) /\ pc \in [Threads -> Places]
      /\ p \in [Threads -> Places] /\ b \in Seq(BOOLEAN)
  BY DEF IInv, TypeOK, LoopStart, LoopEnd, Batches
<1>2. /\ nTodo' = Len(queue') + Cardinality(Slots(vChecks', Threads))
      /\ nTodo' \in Nat
  <2> DEFINE before == Cardinality(Slots(vChecks, Threads))
             after == Cardinality(Slots(vChecks', Threads))
  <2>1. vChecks' \in Batches(Threads) /\ after = before - Len(vChecks[t]) + Len(b)
    BY Zenon, <1>1, SlotsUpdate DEF LoopEnd
  <2>2. after \in Nat /\ before \in Nat
    BY <1>1, <2>1, SlotsCount
  <2>3. Len(vChecks[t]) \in Nat /\ Len(b) \in Nat /\ Len(queue) \in Nat /\ Len(queue') \in Nat
    BY <1>1 DEF Batches, LoopEnd
  <2>4. nTodo' = Len(queue) + before - Len(vChecks[t]) /\ Len(queue') + Len(b) = Len(queue)
    BY DEF LoopStart, LoopEnd
  <2> HIDE DEF before, after
  <2>5. nTodo' = Len(queue') + after
    BY <2>1, <2>2, <2>3, <2>4
  <2>6. nTodo' \in Nat
    BY <2>2, <2>3, <2>5
  <2> QED BY <2>5, <2>6 DEF after
<1>3. /\ Waiting' = IF place = "wait" THEN (Waiting \ {t}) \cup {t} ELSE Waiting \ {t}
      /\ Inside' = IF place = "done" THEN Inside \ {t} ELSE (Inside \ {t}) \cup {t}
  BY <1>1 DEF Waiting, Inside, LoopStart, LoopEnd, Batches
<1>4. /\ IsFiniteSet(Waiting \ {t}) /\ IsFiniteSet(Inside \ {t})
      /\ Cardinality(Waiting \ {t}) \in Nat /\ Cardinality(Inside \ {t}) \in Nat
  BY ThreadsFinite, FS_RemoveElement, FS_CardinalityType
<1>5. /\ Cardinality((Waiting \ {t}) \cup {t}) = Cardinality(Waiting \ {t}) + 1
      /\ Cardinality((Inside \ {t}) \cup {t}) = Cardinality(Inside \ {t}) + 1
  BY Zenon, <1>4, FS_AddElement
<1>6. nIdle' = Cardinality(Waiting') /\ nIdle' \in Nat
  BY <1>3, <1>4, <1>5 DEF LoopStart, LoopEnd
<1>7. nTotal' = Cardinality(Inside') /\ nTotal' \in Nat
  BY <1>3, <1>4, <1>5 DEF LoopStart, LoopEnd
<1> QED BY <1>2, <1>6, <1>7 DEF CountInv

\* Who is where, and whether there is a control object at work, changes only for
\* the thread itself: a master leaves Loop by the return, nobody else does.
LEMMA LoopPlaces ==
  ASSUME IInv, NEW t \in Threads, NEW total, NEW idle, NEW todo, NEW ok, NEW p,
         NEW b, NEW place,
         LoopStart(t, total, idle, todo, ok, p), LoopEnd(t, total, idle, todo, p, b, place)
  PROVE  /\ PlaceInv'
         /\ place = "done" => AtRest' /\ ~AtRest /\ ControlMutex = t
         /\ place # "done" => (AtRest' <=> AtRest)
<1>1. /\ vChecks \in [Threads -> Seq(BOOLEAN)] /\ pc \in [Threads -> Places]
      /\ p \in [Threads -> Places] /\ PlaceInv /\ ControlMutex \in Masters \cup {None}
  BY DEF IInv, TypeOK, LoopStart
<1>2. /\ \A u \in Threads \ {t} :
            /\ pc'[u] = pc[u] \/ (pc[u] = "wait" /\ pc'[u] = "woken")
            /\ vChecks'[u] = vChecks[u]
      /\ pc'[t] = place /\ vChecks'[t] = b /\ pc[t] \in {"enter", "woken"}
      /\ place \in {"wait", "enter", "done"} /\ (b # <<>> <=> place = "enter")
      /\ (place = "done" => t \in Masters) /\ ControlMutex' = ControlMutex
  BY <1>1 DEF LoopStart, LoopEnd
<1>3. PlaceInv'
  BY Zenon, <1>1, <1>2, CheckQueueAssumption DEF PlaceInv, Threads
<1>4. t \in Masters => ControlMutex = t
  BY <1>1, <1>2 DEF PlaceInv
<1>5. \A m \in Masters : m \in Threads
  BY DEF Threads
<1> QED BY <1>1, <1>2, <1>3, <1>4, <1>5, CheckQueueAssumption DEF AtRest

\* The master returns with the verdict.
LEMMA ReturnStep ==
  ASSUME IInv, NEW t \in Threads, NEW total, NEW idle, NEW todo, NEW ok, NEW p,
         LoopStart(t, total, idle, todo, ok, p), Return(t, total, idle, todo, ok, p),
         nTodo' = todo, UNCHANGED <<ControlMutex, added>>
  PROVE  IInv'
<1>1. TypeOK /\ queue = <<>> /\ queue' = queue /\ todo = 0 /\ t \in Masters
      /\ vChecks \in Batches(Threads)
  BY DEF IInv, Return, TypeOK, Batches
<1>2. LoopEnd(t, total, idle, todo, p, <<>>, "done")
  BY <1>1 DEF Return, LoopEnd
<1>3. CountInv' /\ nTodo' \in Nat /\ nTotal' \in Nat /\ nIdle' \in Nat
  BY <1>2, LoopCounts
<1>4. PlaceInv' /\ AtRest' /\ ~AtRest /\ ControlMutex = t
  BY <1>2, LoopPlaces
<1>5. TypeOK'
  <2>1. /\ fAllOk' = TRUE /\ fRet' \in BOOLEAN /\ fOk' \in [Threads -> BOOLEAN]
    BY <1>1 DEF TypeOK, Return, LoopStart
  <2>2. pc' \in [Threads -> Places] /\ vChecks' \in [Threads -> Seq(BOOLEAN)]
    BY <1>1 DEF TypeOK, Return, LoopStart, Places
  <2> QED BY <1>1, <1>3, <2>1, <2>2 DEF TypeOK
<1>6. \A u \in Threads \ {t} : vChecks[u] = <<>>
  <2>1. nTodo' = Len(queue') + Cardinality(Slots(vChecks', Threads))
    BY <1>3 DEF CountInv
  <2>2. vChecks' \in Batches(Threads)
    BY <1>5 DEF TypeOK, Batches
  <2>3. \A u \in Threads : Len(vChecks'[u]) <= 0
    BY <1>1, <2>1, <2>2, SlotsCount
  <2>4. \A u \in Threads \ {t} : vChecks'[u] = vChecks[u]
    BY <1>1 DEF Return, Batches
  <2> QED BY <1>1, <2>3, <2>4 DEF Batches
<1>7. AllTrue(added) <=> ok
  BY <1>1, <1>4, <1>6 DEF LoopStart, AllTrue
<1>8. VerdictInv'
  <2>1. fRet' = ok /\ fAllOk' = TRUE /\ added' = added /\ ok \in BOOLEAN
    BY DEF Return, LoopStart
  <2>2. fRet' = AllTrue(added')
    BY Zenon, <1>7, <2>1 DEF AllTrue
  <2>3. queue' = <<>> /\ nTodo' = 0 /\ fAllOk'
    BY <1>1, <2>1
  <2> QED BY <1>4, <2>2, <2>3 DEF VerdictInv, VerdictRight
<1> QED BY <1>3, <1>4, <1>5, <1>8 DEF IInv

\* The thread waits: nothing was left to take.
LEMMA IdleStep ==
  ASSUME IInv, NEW t \in Threads, NEW total, NEW idle, NEW todo, NEW ok, NEW p,
         LoopStart(t, total, idle, todo, ok, p), Idle(t, total, idle, todo, ok, p),
         nTodo' = todo, UNCHANGED <<ControlMutex, added>>
  PROVE  IInv'
<1>1. TypeOK /\ queue = <<>> /\ queue' = queue /\ vChecks \in Batches(Threads)
  BY DEF IInv, Idle, TypeOK, Batches
<1>2. LoopEnd(t, total, idle, todo, p, <<>>, "wait")
  BY <1>1 DEF Idle, LoopEnd
<1>3. CountInv' /\ nTodo' \in Nat /\ nTotal' \in Nat /\ nIdle' \in Nat
  BY <1>2, LoopCounts
<1>4. PlaceInv' /\ (AtRest' <=> AtRest)
  BY <1>2, LoopPlaces
<1>5. TypeOK'
  <2>1. fAllOk' \in BOOLEAN /\ fRet' \in BOOLEAN /\ fOk' \in [Threads -> BOOLEAN]
    BY <1>1 DEF TypeOK, Idle, LoopStart
  <2>2. pc' \in [Threads -> Places] /\ vChecks' \in [Threads -> Seq(BOOLEAN)]
    BY SMTT(30), <1>1 DEF TypeOK, Idle, LoopStart, Places
  <2> QED BY <1>1, <1>3, <2>1, <2>2 DEF TypeOK
<1>6. VerdictInv'
  <2>1. fRet' = fRet /\ fAllOk' = ok /\ added' = added /\ fOk' = fOk /\ queue' = queue
    BY DEF Idle
  <2>2. vChecks'[t] = <<>> /\ \A u \in Threads \ {t} : vChecks'[u] = vChecks[u]
    BY <1>1 DEF Idle, Batches
  <2>3. AtRest' => queue' = <<>> /\ nTodo' = 0 /\ fAllOk'
    BY <1>1, <1>4, <2>1 DEF LoopStart
  <2>4. ~AtRest' => (AllTrue(added)' <=>
            /\ fAllOk' /\ AllTrue(queue)'
            /\ \A u \in Threads : vChecks'[u] # <<>> => fOk'[u] /\ AllTrue(vChecks'[u]))
    BY <1>4, <2>1, <2>2 DEF LoopStart, AllTrue
  <2>5. \A m \in Masters : pc'[m] = "done" => pc[m] = "done"
    BY SMTT(30), <1>1 DEF Idle, LoopStart, TypeOK, Threads
  <2>6. VerdictRight'
    BY Zenon, <2>1, <2>5 DEF VerdictRight, IInv, VerdictInv, AllTrue
  <2> QED BY <2>3, <2>4, <2>6 DEF VerdictInv, AllTrue
<1> QED BY <1>3, <1>4, <1>5, <1>6 DEF IInv

\* The thread takes a batch, whose verdict it starts with the common one.
LEMMA TakeStep ==
  ASSUME IInv, NEW t \in Threads, NEW total, NEW idle, NEW todo, NEW ok, NEW p,
         LoopStart(t, total, idle, todo, ok, p), Take(t, total, idle, todo, ok, p),
         nTodo' = todo, UNCHANGED <<ControlMutex, added>>
  PROVE  IInv'
<1> DEFINE n == Len(queue)
           k == NNow(n, total, idle)
           b == SubSeq(queue, n - k + 1, n)
<1>1. TypeOK /\ queue \in Seq(BOOLEAN) /\ n \in Nat \ {0} /\ vChecks \in Batches(Threads)
  BY DEF IInv, Take, TypeOK, Batches
<1>2. k \in 1 .. n
  <2>1. total \in Nat /\ idle \in Nat
    BY ThreadsFinite, FS_RemoveElement, FS_CardinalityType DEF LoopStart
  <2> QED BY <1>1, <2>1, NNowRange
<1>3. /\ vChecks' = [vChecks EXCEPT ![t] = b] /\ queue' = SubSeq(queue, 1, n - k)
  BY DEF Take
<1> HIDE DEF k
<1>4. /\ b \in Seq(BOOLEAN) /\ Len(b) = k /\ \A i \in 1 .. k : b[i] = queue[n - k + i]
      /\ queue' \in Seq(BOOLEAN) /\ Len(queue') = n - k
      /\ \A i \in 1 .. n - k : queue'[i] = queue[i]
  BY <1>1, <1>2, <1>3
<1> HIDE DEF b
<1>5. LoopEnd(t, total, idle, todo, p, b, "enter")
  <2>1. b # <<>>
    BY <1>2, <1>4
  <2>2. nTotal' = total /\ nIdle' = idle /\ pc' = [p EXCEPT ![t] = "enter"]
    BY DEF Take
  <2>3. Len(queue') + Len(b) = Len(queue) /\ Len(queue') \in Nat
    BY <1>1, <1>2, <1>4
  <2> QED BY <1>3, <1>4, <2>1, <2>2, <2>3 DEF LoopEnd
<1>6. CountInv' /\ nTodo' \in Nat /\ nTotal' \in Nat /\ nIdle' \in Nat
  BY <1>5, LoopCounts
<1>7. PlaceInv' /\ (AtRest' <=> AtRest)
  BY <1>5, LoopPlaces
<1>8. TypeOK'
  <2>1. fAllOk' \in BOOLEAN /\ fRet' \in BOOLEAN /\ fOk' \in [Threads -> BOOLEAN]
    BY <1>1 DEF TypeOK, Take, LoopStart
  <2>2. pc' \in [Threads -> Places] /\ vChecks' \in [Threads -> Seq(BOOLEAN)]
    BY Zenon, <1>1, <1>3, <1>4 DEF TypeOK, Take, LoopStart, Places
  <2> QED BY <1>1, <1>4, <1>6, <2>1, <2>2 DEF TypeOK
<1>9. AllTrue(queue) <=> AllTrue(queue') /\ AllTrue(b)
  BY <1>1, <1>2, <1>3, AllTrueSplit DEF b
<1>10. VerdictInv'
  <2>1. /\ fRet' = fRet /\ fAllOk' = ok /\ added' = added
        /\ fOk'[t] = ok /\ \A u \in Threads \ {t} : fOk'[u] = fOk[u]
    BY <1>1 DEF Take, TypeOK
  <2>2. vChecks'[t] = b /\ b # <<>> /\ \A u \in Threads \ {t} : vChecks'[u] = vChecks[u]
    BY <1>1, <1>2, <1>3, <1>4 DEF Batches
  <2>3. ~AtRest
    BY <1>1 DEF LoopStart
  <2>4. AllTrue(added) <=>
            /\ ok /\ AllTrue(queue')
            /\ \A u \in Threads : vChecks'[u] # <<>> => fOk'[u] /\ AllTrue(vChecks'[u])
    BY <1>9, <2>1, <2>2, <2>3 DEF LoopStart
  <2>5. \A m \in Masters : pc'[m] = "done" => pc[m] = "done"
    BY SMTT(30), <1>1 DEF Take, LoopStart, TypeOK, Threads
  <2>6. VerdictRight'
    BY Zenon, <2>1, <2>5 DEF VerdictRight, IInv, VerdictInv, AllTrue
  <2> QED BY <1>7, <2>1, <2>3, <2>4, <2>6 DEF VerdictInv, AllTrue
<1> QED BY <1>6, <1>7, <1>8, <1>10 DEF IInv

\* The critical section, however it ends.
LEMMA LoopBodyStep ==
  ASSUME IInv, NEW t \in Threads, NEW total, NEW idle, NEW todo, NEW ok, NEW p,
         LoopStart(t, total, idle, todo, ok, p), LoopBody(t, total, idle, todo, ok, p)
  PROVE  IInv'
BY ReturnStep, IdleStep, TakeStep DEF LoopBody

\* The first iteration: the thread begins to be counted.
LEMMA EnterStep ==
  ASSUME IInv, NEW t \in Threads, Enter(t)
  PROVE  IInv'
<1>1. TypeOK /\ CountInv /\ PlaceInv /\ VerdictInv /\ pc[t] = "enter" /\ vChecks[t] = <<>>
  BY DEF IInv, Enter
<1>2. Inside \ {t} = Inside /\ Waiting \ {t} = Waiting
  BY <1>1 DEF Inside, Waiting
<1>3. Len(vChecks[t]) = 0 /\ Len(queue) \in Nat /\ Cardinality(Slots(vChecks, Threads)) \in Nat
  BY <1>1, SlotsCount DEF TypeOK, Batches
<1>4. LoopStart(t, nTotal + 1, nIdle, nTodo, fAllOk, pc)
  <2>1. nTodo = Len(queue) + Cardinality(Slots(vChecks, Threads)) - Len(vChecks[t])
    BY <1>1, <1>3 DEF CountInv
  <2>2. nTotal + 1 = Cardinality(Inside \ {t}) + 1 /\ nIdle = Cardinality(Waiting \ {t})
    BY Zenon, <1>1, <1>2 DEF CountInv
  <2>3. ~AtRest => (AllTrue(added) <=>
            /\ fAllOk /\ AllTrue(queue)
            /\ \A u \in Threads \ {t} : vChecks[u] # <<>> => fOk[u] /\ AllTrue(vChecks[u]))
    BY <1>1 DEF VerdictInv
  <2> QED BY <1>1, <2>1, <2>2, <2>3 DEF LoopStart, VerdictInv, TypeOK
<1> QED BY <1>4, LoopBodyStep DEF Enter

\* cond.wait returns: the thread is not idle any more.
LEMMA WakeStep ==
  ASSUME IInv, NEW t \in Threads, Wake(t)
  PROVE  IInv'
<1>1. TypeOK /\ CountInv /\ PlaceInv /\ VerdictInv /\ pc[t] = "woken" /\ vChecks[t] = <<>>
  BY DEF IInv, Wake, PlaceInv
<1>2. t \in Inside /\ t \in Waiting
  BY <1>1 DEF Inside, Waiting
<1>3. Len(vChecks[t]) = 0 /\ Len(queue) \in Nat /\ Cardinality(Slots(vChecks, Threads)) \in Nat
  BY <1>1, SlotsCount DEF TypeOK, Batches
<1>4. /\ Cardinality(Inside \ {t}) = Cardinality(Inside) - 1
      /\ Cardinality(Waiting \ {t}) = Cardinality(Waiting) - 1
      /\ Cardinality(Inside) \in Nat
  BY Zenon, <1>2, ThreadsFinite, FS_RemoveElement, FS_CardinalityType
<1>5. LoopStart(t, nTotal, nIdle - 1, nTodo, fAllOk, pc)
  <2>1. nTodo = Len(queue) + Cardinality(Slots(vChecks, Threads)) - Len(vChecks[t])
    BY <1>1, <1>3 DEF CountInv
  <2>2. nTotal = Cardinality(Inside \ {t}) + 1 /\ nIdle - 1 = Cardinality(Waiting \ {t})
    BY <1>1, <1>4 DEF CountInv
  <2>3. ~AtRest => (AllTrue(added) <=>
            /\ fAllOk /\ AllTrue(queue)
            /\ \A u \in Threads \ {t} : vChecks[u] # <<>> => fOk[u] /\ AllTrue(vChecks[u]))
    BY <1>1 DEF VerdictInv
  <2> QED BY <1>1, <2>1, <2>2, <2>3 DEF LoopStart, VerdictInv, TypeOK
<1> QED BY <1>5, LoopBodyStep DEF Wake

\* The clean-up of a batch: its verdict goes into the common one, its checks are
\* not to do any more, and the last one wakes the master.
LEMMA CleanUpStep ==
  ASSUME IInv, NEW t \in Threads, CleanUp(t)
  PROVE  IInv'
<1> DEFINE todo == nTodo - Len(vChecks[t])
           ok == fAllOk /\ fOk[t] /\ AllTrue(vChecks[t])
           p == IF todo = 0 /\ t \in Workers THEN NotifyMaster ELSE pc
<1>1. TypeOK /\ CountInv /\ PlaceInv /\ VerdictInv /\ pc[t] = "enter" /\ vChecks[t] # <<>>
  BY DEF IInv, CleanUp
<1>2. t \in Inside /\ Waiting \ {t} = Waiting
  BY <1>1 DEF Inside, Waiting
<1>3. /\ Len(vChecks[t]) \in Nat \ {0} /\ Len(queue) \in Nat
      /\ Cardinality(Slots(vChecks, Threads)) \in Nat
      /\ Len(vChecks[t]) <= Cardinality(Slots(vChecks, Threads))
  BY <1>1, SlotsCount DEF TypeOK, Batches
<1>4. Cardinality(Inside \ {t}) = Cardinality(Inside) - 1 /\ Cardinality(Inside) \in Nat
  BY <1>2, ThreadsFinite, FS_RemoveElement, FS_CardinalityType
<1>5. ~AtRest
  BY <1>1, <1>3 DEF CountInv, VerdictInv
<1>6. LoopStart(t, nTotal, nIdle, todo, ok, p)
  <2>1. todo = Len(queue) + Cardinality(Slots(vChecks, Threads)) - Len(vChecks[t])
    BY <1>1, <1>3 DEF CountInv
  <2>2. nTotal = Cardinality(Inside \ {t}) + 1 /\ nIdle = Cardinality(Waiting \ {t})
    <3>1. nTotal = Cardinality(Inside) /\ nIdle = Cardinality(Waiting)
      BY <1>1 DEF CountInv
    <3>2. nTotal = Cardinality(Inside \ {t}) + 1
      BY <1>4, <3>1
    <3> QED BY <1>2, <3>1, <3>2
  <2>3. AllTrue(added) <=>
            /\ ok /\ AllTrue(queue)
            /\ \A u \in Threads \ {t} : vChecks[u] # <<>> => fOk[u] /\ AllTrue(vChecks[u])
    BY <1>1, <1>5 DEF VerdictInv
  <2>4. ok \in BOOLEAN
    OBVIOUS
  <2>5. /\ p \in [Threads -> Places]
        /\ \A u \in Threads : p[u] = pc[u] \/ (pc[u] = "wait" /\ p[u] = "woken")
    BY <1>1 DEF TypeOK, NotifyMaster, Places
  <2> HIDE DEF todo, ok, p
  <2> QED BY <1>1, <1>5, <2>1, <2>2, <2>3, <2>4, <2>5 DEF LoopStart
<1>7. LoopBody(t, nTotal, nIdle, todo, ok, p)
  BY DEF CleanUp
<1> HIDE DEF todo, ok, p
<1> QED BY <1>6, <1>7, LoopBodyStep

\* Threads in cond.wait are woken: they still count as idle, and nothing else
\* of the invariant looks at the difference.
LEMMA WokenStep ==
  ASSUME IInv, pc' \in [Threads -> Places],
         \A u \in Threads : pc'[u] = pc[u] \/ (pc[u] = "wait" /\ pc'[u] = "woken"),
         UNCHANGED <<queue, nIdle, nTotal, fAllOk, nTodo, ControlMutex, vChecks, fOk, fRet, added>>
  PROVE  IInv'
<1>1. TypeOK /\ CountInv /\ PlaceInv /\ VerdictInv
  BY DEF IInv
<1>2. Workers \subseteq Threads /\ Masters \subseteq Threads /\ None \notin Masters
  BY CheckQueueAssumption DEF Threads
<1>3. TypeOK'
  BY <1>1 DEF TypeOK
<1>4. Waiting' = Waiting /\ Inside' = Inside
  BY DEF Waiting, Inside
<1>5. CountInv'
  BY <1>1, <1>4 DEF CountInv, Slots
<1>6. PlaceInv'
  BY <1>1, <1>2 DEF PlaceInv
<1>7. AtRest' <=> AtRest
  BY <1>1, <1>2 DEF AtRest, TypeOK
<1>8. VerdictRight'
  BY Zenon, <1>1, <1>2 DEF VerdictInv, VerdictRight, AllTrue
<1>9. VerdictInv'
  BY <1>1, <1>7, <1>8 DEF VerdictInv, AllTrue
<1> QED BY <1>3, <1>5, <1>6, <1>9 DEF IInv

\* Nothing to do means that no thread has a batch.
LEMMA NothingLeft ==
  ASSUME TypeOK, CountInv, nTodo = 0, NEW u \in Threads
  PROVE  vChecks[u] = <<>>
<1>1. vChecks \in Batches(Threads) /\ queue \in Seq(BOOLEAN)
  BY DEF TypeOK, Batches
<1>2. /\ Cardinality(Slots(vChecks, Threads)) \in Nat /\ Len(queue) \in Nat
      /\ Len(vChecks[u]) \in Nat /\ Len(vChecks[u]) <= Cardinality(Slots(vChecks, Threads))
  BY <1>1, SlotsCount DEF Batches
<1>3. Len(vChecks[u]) = 0
  BY <1>2 DEF CountInv
<1> QED BY <1>1, <1>3 DEF Batches

\* A thread in cond.wait is woken without a notification: it still counts as idle.
LEMMA SpuriousWakeupStep ==
  ASSUME IInv, NEW t \in Threads, SpuriousWakeup(t)
  PROVE  IInv'
<1>1. TypeOK /\ CountInv /\ PlaceInv /\ VerdictInv /\ pc[t] = "wait"
  BY DEF IInv, SpuriousWakeup
<1>2. /\ pc' = [pc EXCEPT ![t] = "woken"]
      /\ UNCHANGED <<queue, nIdle, nTotal, fAllOk, nTodo, ControlMutex, vChecks, fOk, fRet, added>>
  BY DEF SpuriousWakeup
<1>3. \A u \in Threads : pc'[u] = pc[u] \/ (pc[u] = "wait" /\ pc'[u] = "woken")
  BY <1>1, <1>2 DEF TypeOK
<1>4. pc' \in [Threads -> Places]
  BY <1>1, <1>2 DEF TypeOK, Places
<1> QED BY <1>1, <1>2, <1>3, <1>4, WokenStep

\* The master goes to Loop with the others.
LEMMA WaitStep ==
  ASSUME IInv, NEW m \in Masters, Wait(m)
  PROVE  IInv'
<1>1. TypeOK /\ CountInv /\ PlaceInv /\ VerdictInv /\ pc[m] = "control"
  BY DEF IInv, Wait
<1>2. /\ pc' = [pc EXCEPT ![m] = "enter"]
      /\ UNCHANGED <<queue, nIdle, nTotal, fAllOk, nTodo, ControlMutex, vChecks, fOk, fRet, added>>
  BY DEF Wait
<1>3. m \in Threads /\ m \notin Workers /\ Masters \subseteq Threads
  BY CheckQueueAssumption DEF Threads
<1>4. TypeOK'
  BY Zenon, <1>1, <1>2 DEF TypeOK, Places
<1>5. Waiting' = Waiting /\ Inside' = Inside
  BY <1>1, <1>2, <1>3 DEF Waiting, Inside, TypeOK
<1>6. CountInv'
  BY <1>1, <1>2, <1>5 DEF CountInv, Slots
<1>7. PlaceInv'
  BY <1>1, <1>2, <1>3 DEF PlaceInv, TypeOK
<1>8. ControlMutex = m /\ ~AtRest /\ ~AtRest'
  BY <1>1, <1>2, <1>3, CheckQueueAssumption DEF PlaceInv, AtRest, TypeOK
<1>9. VerdictRight'
  BY Zenon, <1>1, <1>2, <1>3 DEF VerdictInv, VerdictRight, AllTrue, TypeOK
<1>10. VerdictInv'
  BY <1>1, <1>2, <1>8, <1>9 DEF VerdictInv, AllTrue
<1> QED BY <1>4, <1>6, <1>7, <1>10 DEF IInv

\* The constructor of the control object: nothing is left of the last one.
LEMMA ControlStep ==
  ASSUME IInv, NEW m \in Masters, Control(m)
  PROVE  IInv'
<1>1. TypeOK /\ CountInv /\ PlaceInv /\ VerdictInv /\ pc[m] = "out" /\ ControlMutex = None
  BY DEF IInv, Control
<1>2. /\ pc' = [pc EXCEPT ![m] = "control"] /\ ControlMutex' = m /\ added' = <<>>
      /\ UNCHANGED <<queue, nIdle, nTotal, fAllOk, nTodo, vChecks, fOk, fRet>>
  BY DEF Control
<1>3. m \in Threads /\ m \notin Workers /\ Masters \subseteq Threads /\ None \notin Masters
  BY CheckQueueAssumption DEF Threads
<1>4. TypeOK'
  <2>1. added' \in Seq(BOOLEAN)
    BY <1>2
  <2> QED BY Zenon, <1>1, <1>2, <2>1 DEF TypeOK, Places
<1>5. Waiting' = Waiting /\ Inside' = Inside
  BY <1>1, <1>2, <1>3 DEF Waiting, Inside, TypeOK
<1>6. CountInv'
  BY <1>1, <1>2, <1>5 DEF CountInv, Slots
<1>7. PlaceInv'
  BY <1>1, <1>2, <1>3 DEF PlaceInv, TypeOK
<1>8. \A u \in Threads : vChecks[u] = <<>>
  BY <1>1, NothingLeft DEF VerdictInv, AtRest
<1>9. queue = <<>> /\ fAllOk /\ ~AtRest'
  BY <1>1, <1>2, <1>3 DEF VerdictInv, AtRest, TypeOK
<1>10. VerdictRight'
  BY <1>1, <1>2, <1>3 DEF VerdictRight, PlaceInv, TypeOK
<1>11. AllTrue(<<>>)
  BY DEF AllTrue
<1>12. VerdictInv'
  BY <1>2, <1>8, <1>9, <1>10, <1>11 DEF VerdictInv, AllTrue
<1> QED BY <1>4, <1>6, <1>7, <1>12 DEF IInv

\* The destructor, after Wait.
LEMMA DestroyStep ==
  ASSUME IInv, NEW m \in Masters, Destroy(m)
  PROVE  IInv'
<1>1. TypeOK /\ CountInv /\ PlaceInv /\ VerdictInv /\ pc[m] = "done"
  BY DEF IInv, Destroy
<1>2. /\ pc' = [pc EXCEPT ![m] = "out"] /\ ControlMutex' = None
      /\ UNCHANGED <<queue, nIdle, nTotal, fAllOk, nTodo, vChecks, fOk, fRet, added>>
  BY DEF Destroy
<1>3. m \in Threads /\ m \notin Workers /\ Masters \subseteq Threads /\ None \notin Masters
  BY CheckQueueAssumption DEF Threads
<1>4. TypeOK'
  BY Zenon, <1>1, <1>2 DEF TypeOK, Places
<1>5. Waiting' = Waiting /\ Inside' = Inside
  BY <1>1, <1>2, <1>3 DEF Waiting, Inside, TypeOK
<1>6. CountInv'
  BY <1>1, <1>2, <1>5 DEF CountInv, Slots
<1>7. PlaceInv'
  BY <1>1, <1>2, <1>3 DEF PlaceInv, TypeOK
<1>8. AtRest /\ AtRest'
  BY <1>1, <1>2, <1>3 DEF PlaceInv, AtRest
<1>9. VerdictRight'
  BY Zenon, <1>1, <1>2, <1>3 DEF VerdictInv, VerdictRight, AllTrue, TypeOK
<1>10. VerdictInv'
  BY <1>1, <1>2, <1>8, <1>9 DEF VerdictInv
<1> QED BY <1>4, <1>6, <1>7, <1>10 DEF IInv

\* Add: the new checks are queued, to do, and part of the verdict.
LEMMA AddStep ==
  ASSUME IInv, NEW m \in Masters, NEW checks \in CheckLists, Add(m, checks)
  PROVE  IInv'
<1>1. TypeOK /\ CountInv /\ PlaceInv /\ VerdictInv /\ pc[m] = "control"
  BY DEF IInv, Add
<1>2. /\ queue' = queue \o checks /\ nTodo' = nTodo + Len(checks) /\ added' = added \o checks
      /\ UNCHANGED <<nIdle, nTotal, fAllOk, ControlMutex, vChecks, fOk, fRet>>
  BY DEF Add
<1>3. checks \in Seq(BOOLEAN)
  <2>1. PICK n \in 0 .. MaxChecks : checks \in [1 .. n -> BOOLEAN]
    BY DEF CheckLists
  <2> QED BY <2>1
<1>4. Workers \subseteq Threads /\ Masters \subseteq Threads /\ None \notin Masters
  BY CheckQueueAssumption DEF Threads
<1>5. /\ pc' \in [Threads -> Places]
      /\ \A u \in Threads : pc'[u] = pc[u] \/ (pc[u] = "wait" /\ pc'[u] = "woken")
  BY Zenon, <1>1, <1>4 DEF Add, NotifyWorkers, TypeOK, Places
<1>6. /\ queue \in Seq(BOOLEAN) /\ added \in Seq(BOOLEAN)
      /\ queue' \in Seq(BOOLEAN) /\ added' \in Seq(BOOLEAN)
      /\ Len(queue') = Len(queue) + Len(checks)
  BY <1>1, <1>2, <1>3 DEF TypeOK
<1>7. nTodo' \in Nat
  BY <1>1, <1>2, <1>3 DEF TypeOK
<1>8. TypeOK'
  BY <1>1, <1>2, <1>5, <1>6, <1>7 DEF TypeOK
<1>9. Waiting' = Waiting /\ Inside' = Inside
  BY <1>2, <1>5 DEF Waiting, Inside
<1>10. CountInv'
  <2> DEFINE c == Cardinality(Slots(vChecks, Threads))
  <2>1. Cardinality(Slots(vChecks', Threads)) = c
    BY <1>2 DEF Slots
  <2>2. c \in Nat /\ Len(queue) \in Nat /\ Len(checks) \in Nat /\ nTodo = Len(queue) + c
    BY SMTT(30), <1>1, <1>3, <1>6, SlotsCount DEF TypeOK, Batches, CountInv
  <2> HIDE DEF c
  <2>3. nTodo' = Len(queue') + c
    BY <1>2, <1>6, <2>2
  <2> QED BY <1>1, <1>2, <1>9, <2>1, <2>3 DEF CountInv
<1>11. PlaceInv'
  BY Zenon, <1>1, <1>2, <1>4, <1>5 DEF PlaceInv
<1>12. ControlMutex = m /\ ~AtRest /\ ~AtRest'
  BY <1>1, <1>2, <1>4, <1>5 DEF PlaceInv, AtRest
<1>13. VerdictRight'
  <2>1. \A u \in Masters : pc'[u] # "done"
    BY <1>1, <1>4, <1>5, <1>12 DEF PlaceInv
  <2> QED BY <2>1 DEF VerdictRight
<1>14. VerdictInv'
  <2>1. /\ AllTrue(added') <=> AllTrue(added) /\ AllTrue(checks)
        /\ AllTrue(queue') <=> AllTrue(queue) /\ AllTrue(checks)
    BY SMTT(30), <1>2, <1>3, <1>6, AllTrueConcat
  <2>2. AllTrue(added) <=>
          /\ fAllOk /\ AllTrue(queue)
          /\ \A u \in Threads : vChecks[u] # <<>> => fOk[u] /\ AllTrue(vChecks[u])
    BY <1>1, <1>12 DEF VerdictInv
  <2>3. AllTrue(added') <=>
          /\ fAllOk' /\ AllTrue(queue')
          /\ \A u \in Threads : vChecks'[u] # <<>> => fOk'[u] /\ AllTrue(vChecks'[u])
    BY <1>2, <2>1, <2>2
  <2> QED BY <1>12, <1>13, <2>3 DEF VerdictInv, AllTrue
<1> QED BY <1>8, <1>10, <1>11, <1>14 DEF IInv

-----------------------------------------------------------------------------

\* Every step of the threads and of the control objects keeps the invariant.
LEMMA NextIInv == IInv /\ [Next]_vars => IInv'
<1> SUFFICES ASSUME IInv, [Next]_vars PROVE IInv'
  OBVIOUS
<1>1. CASE \E t \in Threads : Enter(t) \/ CleanUp(t) \/ Wake(t) \/ SpuriousWakeup(t)
  BY <1>1, EnterStep, CleanUpStep, WakeStep, SpuriousWakeupStep
<1>2. CASE \E m \in Masters : Control(m) \/ Wait(m) \/ Destroy(m)
  BY <1>2, ControlStep, WaitStep, DestroyStep
<1>3. CASE \E m \in Masters : \E checks \in CheckLists : Add(m, checks)
  BY <1>3, AddStep
<1>4. CASE UNCHANGED vars
  <2>1. pc' \in [Threads -> Places] /\ \A u \in Threads : pc'[u] = pc[u]
    BY <1>4 DEF IInv, TypeOK, vars
  <2> QED BY <1>4, <2>1, WokenStep DEF vars
<1> QED BY <1>1, <1>2, <1>3, <1>4 DEF Next

\* The counters, the places of the threads and the verdict so far stay related as
\* the invariant says in every reachable state of CCheckQueue.
THEOREM Inductive == Spec => []IInv
BY InitIInv, NextIInv, PTL DEF Spec

\* nTodo, nIdle and nTotal are what their comments say, for any number of
\* workers, masters and checks and any batch size.
THEOREM CountersRight == Spec => []Accounted
<1>1. IInv => Accounted
  <2> SUFFICES ASSUME IInv PROVE Accounted
    OBVIOUS
  <2>1. TypeOK /\ CountInv /\ IsFiniteSet(Threads) /\ vChecks \in Batches(Threads)
    BY ThreadsFinite DEF IInv, TypeOK, Batches
  <2>2. MapThenSumSet(LAMBDA t : Len(vChecks[t]), Threads) = Cardinality(Slots(vChecks, Threads))
    BY Zenon, <2>1, SumOfBatches
  <2> QED BY Zenon, <2>1, <2>2 DEF CountInv, Accounted, Waiting, Inside
<1> QED BY <1>1, Inductive, PTL

\* Wait returns TRUE exactly when every check added to the control object
\* succeeded, in every interleaving of any number of threads.
THEOREM WaitVerdict == Spec => []VerdictRight
<1>1. IInv => VerdictRight
  BY DEF IInv, VerdictInv
<1> QED BY <1>1, Inductive, PTL

\* A control object finds no check and no verdict of an earlier one.
THEOREM NothingCarriedOver == Spec => []CleanBetween
<1>1. IInv => CleanBetween
  <2> SUFFICES ASSUME IInv, ControlMutex = None
               PROVE  queue = <<>> /\ nTodo = 0 /\ fAllOk /\ \A t \in Threads : vChecks[t] = <<>>
    BY DEF CleanBetween
  <2>1. queue = <<>> /\ nTodo = 0 /\ fAllOk
    BY DEF IInv, VerdictInv, AtRest
  <2> QED BY <2>1, NothingLeft DEF IInv
<1> QED BY <1>1, Inductive, PTL
=============================================================================
