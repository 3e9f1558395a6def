--------------------------- MODULE NetQueueProofs ---------------------------
(***************************************************************************)
(* Safety of the network queue for every set of jobs, callers and sizes.   *)
(***************************************************************************)
EXTENDS NetQueue, FiniteSetTheorems, SequenceTheorems, TLAPS

Taken(q, k) == {q[i] : i \in 1..k}

LEMMA FitFacts ==
  ASSUME NEW r \in Int, NEW len \in Nat
  PROVE  /\ Fit(r, len) \in 0..len
         /\ Fit(r, len) < len => Fit(r, len) >= r
         /\ r >= 0 => Fit(r, len) <= r
         /\ r <= 0 => Fit(r, len) = 0
BY DEF Fit, Least

LEMMA FrontCardinality ==
  ASSUME NEW S, NEW q \in Seq(S), Distinct(q), NEW k \in 0..Len(q)
  PROVE  /\ IsFiniteSet(Taken(q, k))
         /\ Cardinality(Taken(q, k)) = k
<1> DEFINE b == [i \in 1..k |-> q[i]]
<1>1. b \in Bijection(1..k, Taken(q, k))
  <2>1. b \in [1..k -> Taken(q, k)]
    BY DEF Taken
  <2>2. \A i, j \in 1..k : b[i] = b[j] => i = j
    BY DEF Distinct
  <2>3. \A x \in Taken(q, k) : \E i \in 1..k : b[i] = x
    BY DEF Taken
  <2> QED BY <2>1, <2>2, <2>3 DEF Bijection, Injection, Surjection, IsInjective
<1>2. ExistsBijection(1..k, Taken(q, k))
  BY <1>1 DEF ExistsBijection
<1>3. IsFiniteSet(1..k) /\ Cardinality(1..k) = k
  BY FS_Interval
<1> QED BY <1>2, <1>3, FS_Bijection

\* r is the queue q without its first k jobs.
Dropped(S, q, k, r) ==
  /\ r \in Seq(S)
  /\ Len(r) = Len(q) - k
  /\ \A i \in 1..Len(r) : r[i] = q[k + i]
  /\ Distinct(r)
  /\ (r = <<>>) <=> (k = Len(q))
  /\ \A i \in 1..Len(r) : r[i] \notin Taken(q, k)

LEMMA DropFacts ==
  ASSUME NEW S, NEW q \in Seq(S), Distinct(q), NEW k \in 0..Len(q)
  PROVE  Dropped(S, q, k, SubSeq(q, k + 1, Len(q)))
<1> DEFINE r == SubSeq(q, k + 1, Len(q))
<1>1. /\ r \in Seq(S)
      /\ Len(r) = Len(q) - k
      /\ \A i \in 1..Len(r) : r[i] = q[k + i]
  BY SubSeqProperties
<1>2. Distinct(r)
  BY <1>1 DEF Distinct
<1>3. (r = <<>>) <=> (k = Len(q))
  <2> HIDE DEF r
  <2>1. (r = <<>>) <=> (Len(r) = 0)
    BY <1>1, EmptySeq
  <2> QED BY <1>1, <2>1
<1>4. \A i \in 1..Len(r) : r[i] \notin Taken(q, k)
  BY <1>1 DEF Distinct, Taken
<1> QED BY <1>1, <1>2, <1>3, <1>4 DEF Dropped

\* r is the queue q without its k-th job.
Without(S, q, k, r) ==
  /\ r \in Seq(S)
  /\ Distinct(r)
  /\ \A i \in 1..Len(r) : r[i] # q[k]
  /\ \A j : j # q[k] => ((\E i \in 1..Len(r) : r[i] = j) <=>
                          (\E i \in 1..Len(q) : q[i] = j))

LEMMA RemoveAtFacts ==
  ASSUME NEW S, NEW q \in Seq(S), Distinct(q), NEW k \in 1..Len(q)
  PROVE  Without(S, q, k, RemoveAt(q, k))
<1> DEFINE r == RemoveAt(q, k)
           s == SubSeq(q, 1, k - 1)
           t == SubSeq(q, k + 1, Len(q))
<1>1. /\ s \in Seq(S) /\ Len(s) = k - 1
      /\ \A i \in 1..Len(s) : s[i] = q[i]
  BY SubSeqProperties
<1>2. /\ t \in Seq(S) /\ Len(t) = Len(q) - k
      /\ \A i \in 1..Len(t) : t[i] = q[k + i]
  BY SubSeqProperties
<1>3. r = s \o t
  BY DEF RemoveAt
<1>4. /\ r \in Seq(S) /\ Len(r) = Len(q) - 1
      /\ \A i \in 1..Len(r) : r[i] = IF i < k THEN q[i] ELSE q[i + 1]
  <2> HIDE DEF s, t, r
  <2>1. /\ r \in Seq(S) /\ Len(r) = Len(s) + Len(t)
        /\ \A i \in 1..(Len(s) + Len(t)) :
             r[i] = IF i <= Len(s) THEN s[i] ELSE t[i - Len(s)]
    BY <1>1, <1>2, <1>3, ConcatProperties
  <2>2. Len(q) \in Nat
    OBVIOUS
  <2>3. Len(r) = Len(q) - 1
    BY <1>1, <1>2, <2>1, <2>2
  <2>4. ASSUME NEW i \in 1..Len(r)
        PROVE  r[i] = IF i < k THEN q[i] ELSE q[i + 1]
    <3>1. CASE i < k
      <4>1. i \in 1..Len(s) /\ i \in 1..(Len(s) + Len(t))
        BY <1>1, <1>2, <2>2, <3>1
      <4>2. r[i] = s[i] /\ s[i] = q[i]
        BY <1>1, <2>1, <4>1
      <4> QED BY <3>1, <4>2
    <3>2. CASE ~(i < k)
      <4>1. i - Len(s) \in 1..Len(t) /\ k + (i - Len(s)) = i + 1
        BY <1>1, <1>2, <2>3, <2>2, <3>2
      <4> QED BY <1>1, <1>2, <2>1, <2>3, <2>2, <3>2, <4>1
    <3> QED BY <3>1, <3>2
  <2> QED BY <2>1, <2>3, <2>4
<1>5. Distinct(r) /\ \A i \in 1..Len(r) : r[i] # q[k]
  <2> HIDE DEF r
  <2>1. Len(q) \in Nat
    OBVIOUS
  <2>2. ASSUME NEW i \in 1..Len(r)
        PROVE  /\ i \in 1..Len(q) /\ i + 1 \in 1..Len(q)
               /\ r[i] = q[IF i < k THEN i ELSE i + 1]
    BY <1>4, <2>1
  <2>3. \A i \in 1..Len(r) : r[i] # q[k]
    BY <2>1, <2>2 DEF Distinct
  <2>4. ASSUME NEW i \in 1..Len(r), NEW j \in 1..Len(r), r[i] = r[j]
        PROVE  i = j
    BY <2>1, <2>2, <2>4 DEF Distinct
  <2> QED BY <2>3, <2>4 DEF Distinct
<1>6. ASSUME NEW j, j # q[k]
      PROVE  (\E i \in 1..Len(r) : r[i] = j) <=> (\E i \in 1..Len(q) : q[i] = j)
  <2> HIDE DEF r
  <2>1. Len(q) \in Nat
    OBVIOUS
  <2>2. ASSUME NEW i \in 1..Len(r)
        PROVE  \E x \in 1..Len(q) : q[x] = r[i]
    <3>1. CASE i < k
      BY <1>4, <2>1, <3>1
    <3>2. CASE ~(i < k)
      <4>1. i + 1 \in 1..Len(q) /\ r[i] = q[i + 1]
        BY <1>4, <2>1, <3>2
      <4> QED BY <4>1
    <3> QED BY <3>1, <3>2
  <2>3. ASSUME NEW i \in 1..Len(q), i # k
        PROVE  \E x \in 1..Len(r) : r[x] = q[i]
    <3>1. CASE i < k
      BY <1>4, <2>1, <3>1
    <3>2. CASE i > k
      <4>1. i - 1 \in 1..Len(r) /\ ~(i - 1 < k) /\ (i - 1) + 1 = i
        BY <1>4, <2>1, <3>2
      <4>2. r[i - 1] = q[i]
        BY <1>4, <4>1
      <4> QED BY <4>1, <4>2
    <3> QED BY <2>3, <3>1, <3>2
  <2> QED BY <1>6, <2>2, <2>3
<1> QED BY <1>4, <1>5, <1>6 DEF Without

LEMMA JobsFinite == IsFiniteSet(Jobs)
BY NetQueueAssumption, FS_Union DEF Jobs

\* What a set of slot holders says of the two counters.
LEMMA HolderCounts ==
  ASSUME NEW H \in SUBSET Jobs
  PROVE  /\ IsFiniteSet(H) /\ IsFiniteSet(H \cap FgJobs)
         /\ Cardinality(H) \in Nat
         /\ Cardinality(H \cap FgJobs) \in 0..Cardinality(H)
<1>1. IsFiniteSet(H) /\ Cardinality(H) \in Nat
  BY JobsFinite, FS_Subset, FS_CardinalityType
<1>2. IsFiniteSet(H \cap FgJobs) /\ Cardinality(H \cap FgJobs) \in Nat
  BY <1>1, FS_Intersection, FS_CardinalityType
<1>3. Cardinality(H \cap FgJobs) <= Cardinality(H)
  BY <1>1, FS_Intersection
<1> QED BY <1>1, <1>2, <1>3

LEMMA DisjointUnion ==
  ASSUME NEW S, IsFiniteSet(S), NEW T, IsFiniteSet(T), S \cap T = {}
  PROVE  /\ IsFiniteSet(S \cup T)
         /\ Cardinality(S \cup T) = Cardinality(S) + Cardinality(T)
<1>1. Cardinality(S \cap T) = 0
  BY FS_EmptySet
<1>2. Cardinality(S) \in Nat /\ Cardinality(T) \in Nat
  BY FS_CardinalityType
<1>3. IsFiniteSet(S \cup T)
  BY FS_Union
<1>4. Cardinality(S \cup T) = Cardinality(S) + Cardinality(T) - Cardinality(S \cap T)
  BY FS_Union
<1> QED BY <1>1, <1>2, <1>3, <1>4

\* The holders after kf foreground and kb background waiters are granted.
Counted(H, q, r, kf, kb) ==
  LET G == H \cup Taken(q, kf) \cup Taken(r, kb)
  IN  /\ Cardinality(G) = Cardinality(H) + kf + kb
      /\ Cardinality(G \cap FgJobs) = Cardinality(H \cap FgJobs) + kf

LEMMA GrantedCounts ==
  ASSUME NEW H \in SUBSET Jobs,
         NEW q \in Seq(FgJobs), NEW r \in Seq(BgJobs), Distinct(q), Distinct(r),
         \A i \in 1..Len(q) : q[i] \notin H,
         \A i \in 1..Len(r) : r[i] \notin H,
         NEW kf \in 0..Len(q), NEW kb \in 0..Len(r)
  PROVE  Counted(H, q, r, kf, kb)
<1> DEFINE F == Taken(q, kf)
           B == Taken(r, kb)
<1>1. F \subseteq FgJobs /\ B \subseteq BgJobs /\ F \cap H = {} /\ B \cap H = {}
  BY DEF Taken
<1>2. IsFiniteSet(F) /\ Cardinality(F) = kf
  BY FrontCardinality
<1>3. IsFiniteSet(B) /\ Cardinality(B) = kb
  BY FrontCardinality
<1> HIDE DEF F, B
<1>4. IsFiniteSet(H) /\ IsFiniteSet(H \cap FgJobs)
  BY HolderCounts
<1>5. IsFiniteSet(H \cup F) /\ Cardinality(H \cup F) = Cardinality(H) + kf
  <2>1. H \cap F = {}
    BY <1>1
  <2> QED BY <1>2, <1>4, <2>1, DisjointUnion
<1>6. Cardinality(H \cup F \cup B) = Cardinality(H) + kf + kb
  <2>1. (H \cup F) \cap B = {}
    BY <1>1, NetQueueAssumption
  <2> QED BY <1>3, <1>5, <2>1, DisjointUnion
<1>7. (H \cup F \cup B) \cap FgJobs = (H \cap FgJobs) \cup F
  BY <1>1, NetQueueAssumption
<1>8. Cardinality((H \cap FgJobs) \cup F) = Cardinality(H \cap FgJobs) + kf
  <2>1. (H \cap FgJobs) \cap F = {}
    BY <1>1
  <2> QED BY <1>2, <1>4, <2>1, DisjointUnion
<1> QED BY <1>6, <1>7, <1>8 DEF F, B, Counted

\* The numbers kf and kb of jobs grantLocked lets in, of lf and lb waiting,
\* when the background's bound is m.
Rolled(a, f, n, m, lf, lb, kf, kb) ==
  /\ kf \in 0..lf /\ kb \in 0..lb
  /\ a + kf + kb \in Nat
  /\ f + kf \in 0..(a + kf + kb)
  /\ a + kf + kb < n => /\ kf = lf
                        /\ kb # lb => (a + kf + kb) - (f + kf) >= m

LEMMA GrantArithmetic ==
  ASSUME NEW a \in Nat, NEW f \in 0..a, NEW n \in Nat, NEW m \in Nat,
         NEW lf \in Nat, NEW lb \in Nat, NEW kf, NEW kb,
         kf = Fit(n - a, lf),
         kb = Fit(Least(n - a - kf, m - (a - f)), lb)
  PROVE  Rolled(a, f, n, m, lf, lb, kf, kb)
BY DEF Fit, Least, Rolled

\* What grantLocked leaves: the counters count the new holders, the queues
\* lost exactly the granted prefix, nobody who may have a slot waits beside
\* one, and whether the foreground is busy did not change.
LEMMA GrantLemma ==
  ASSUME NEW STATE a, NEW STATE f, NEW STATE n, NEW STATE h, NEW STATE g,
         NEW ACTION H, H \in SUBSET Jobs, n \in 1..MaxSlots,
         fg \in Seq(FgJobs), bg \in Seq(BgJobs), Distinct(fg), Distinct(bg),
         \A i \in 1..Len(fg) : fg[i] \notin H,
         \A i \in 1..Len(bg) : bg[i] \notin H,
         a = Cardinality(H), f = Cardinality(H \cap FgJobs),
         grantLocked(a, f, n, h, g)
  PROVE  \E kf \in 0..Len(fg), kb \in 0..Len(bg) :
           LET G == Taken(fg, kf) \cup Taken(bg, kb)
           IN  /\ active' = Cardinality(H \cup G)
               /\ fgActive' = Cardinality((H \cup G) \cap FgJobs)
               /\ active' \in Nat /\ fgActive' \in 0..active'
               /\ granted' = g \cup G
               /\ fg' = SubSeq(fg, kf + 1, Len(fg))
               /\ bg' = SubSeq(bg, kb + 1, Len(bg))
               /\ active' < n =>
                    /\ fg' = <<>>
                    /\ bg' # <<>> => active' - fgActive' >=
                                       BgMax(n, FgBusyLocked(fgActive', fg', h))
               /\ FgBusyLocked(fgActive', fg', h) <=> FgBusyLocked(f, fg, h)
<1>1. a \in Nat /\ f \in 0..a /\ n \in Nat /\ Len(fg) \in Nat /\ Len(bg) \in Nat
  BY HolderCounts, NetQueueAssumption
<1>2. PICK kf, kb, w, m :
        /\ kf = Fit(n - a, Len(fg))
        /\ w = SubSeq(fg, kf + 1, Len(fg))
        /\ m = BgMax(n, FgBusyLocked(f + kf, w, h))
        /\ kb = Fit(Least(n - a - kf, m - (a - f)), Len(bg))
        /\ active' = a + kf + kb /\ fgActive' = f + kf
        /\ fg' = w /\ bg' = SubSeq(bg, kb + 1, Len(bg))
        /\ granted' = g \cup Taken(fg, kf) \cup Taken(bg, kb)
  BY Zenon DEF grantLocked, Taken
<1>3. m \in Nat
  BY <1>1, <1>2 DEF BgMax
<1>4. /\ kf \in 0..Len(fg) /\ kb \in 0..Len(bg)
      /\ active' \in Nat /\ fgActive' \in 0..active'
      /\ active' < n => /\ kf = Len(fg)
                        /\ kb # Len(bg) => active' - fgActive' >= m
  <2>1. /\ kf \in 0..Len(fg) /\ kb \in 0..Len(bg)
        /\ a + kf + kb \in Nat
        /\ f + kf \in 0..(a + kf + kb)
        /\ a + kf + kb < n =>
             /\ kf = Len(fg)
             /\ kb # Len(bg) => (a + kf + kb) - (f + kf) >= m
    <3>1. kf = Fit(n - a, Len(fg)) /\ kb = Fit(Least(n - a - kf, m - (a - f)), Len(bg))
      BY <1>2
    <3>2. Rolled(a, f, n, m, Len(fg), Len(bg), kf, kb)
      BY <1>1, <1>3, <3>1, GrantArithmetic
    <3> QED BY <3>2 DEF Rolled
  <2> QED BY <1>2, <2>1
<1>5. /\ Cardinality(H \cup Taken(fg, kf) \cup Taken(bg, kb)) = a + kf + kb
      /\ Cardinality((H \cup Taken(fg, kf) \cup Taken(bg, kb)) \cap FgJobs) = f + kf
  <2>1. kf \in 0..Len(fg) /\ kb \in 0..Len(bg)
    BY <1>4
  <2>2. Counted(H, fg, bg, kf, kb)
    BY <2>1, GrantedCounts
  <2> QED BY <2>2 DEF Counted
<1>6. (w = <<>>) <=> (kf = Len(fg))
  <2>1. Dropped(FgJobs, fg, kf, SubSeq(fg, kf + 1, Len(fg)))
    BY <1>4, DropFacts
  <2> QED BY <1>2, <2>1 DEF Dropped
<1>7. (bg' = <<>>) <=> (kb = Len(bg))
  <2>1. Dropped(BgJobs, bg, kb, SubSeq(bg, kb + 1, Len(bg)))
    BY <1>4, DropFacts
  <2> QED BY <1>2, <2>1 DEF Dropped
<1>8. FgBusyLocked(f + kf, w, h) <=> FgBusyLocked(f, fg, h)
  <2>1. (fg = <<>>) <=> (Len(fg) = 0)
    BY EmptySeq
  <2>2. (f + kf > 0 \/ w # <<>>) <=> (f > 0 \/ fg # <<>>)
    BY <1>1, <1>4, <1>6, <2>1
  <2> QED BY <2>2 DEF FgBusyLocked
<1>9. H \cup Taken(fg, kf) \cup Taken(bg, kb) = H \cup (Taken(fg, kf) \cup Taken(bg, kb))
  OBVIOUS
<1>10. granted' = g \cup (Taken(fg, kf) \cup Taken(bg, kb))
  BY <1>2
<1>11. active' < n =>
         /\ fg' = <<>>
         /\ bg' # <<>> => active' - fgActive' >=
                            BgMax(n, FgBusyLocked(fgActive', fg', h))
  BY <1>2, <1>4, <1>6, <1>7
<1>12. /\ active' = Cardinality(H \cup (Taken(fg, kf) \cup Taken(bg, kb)))
       /\ fgActive' = Cardinality((H \cup (Taken(fg, kf) \cup Taken(bg, kb))) \cap FgJobs)
  BY <1>2, <1>5, <1>9
<1>13. FgBusyLocked(fgActive', fg', h) <=> FgBusyLocked(f, fg, h)
  BY <1>2, <1>8
<1> USE <1>4
<1> WITNESS kf \in 0..Len(fg), kb \in 0..Len(bg)
<1> QED BY <1>2, <1>4, <1>10, <1>11, <1>12, <1>13

\* The state a critical section that ends in grantLocked leaves.  Before the
\* grants, g are the jobs granted and pc' says where each job will be.
LEMMA GrantPreserves ==
  ASSUME TypeOK, Distinct(fg), Distinct(bg),
         NEW STATE a, NEW STATE f, NEW STATE n, NEW STATE h, NEW STATE g,
         n \in 1..MaxSlots, g \in SUBSET Jobs,
         pc' \in [Jobs -> {"out", "waiting", "leaving", "holding"}],
         \A j \in Jobs : /\ pc'[j] \in Pending <=> (j \in g \/ Queued(j))
                         /\ ~(j \in g /\ Queued(j)),
         a = Cardinality({j \in Jobs : pc'[j] = "holding"} \cup g),
         f = Cardinality(({j \in Jobs : pc'[j] = "holding"} \cup g) \cap FgJobs),
         slots' = n, holding' = h,
         grantLocked(a, f, n, h, g)
  PROVE  /\ active' \in Nat /\ fgActive' \in 0..active'
         /\ fg' \in Seq(FgJobs) /\ bg' \in Seq(BgJobs) /\ granted' \subseteq Jobs
         /\ SlotAccounting' /\ WaitersTracked' /\ NoStrandedSlot'
         /\ FgBusy' <=> FgBusyLocked(f, fg, h)
<1> DEFINE H == {j \in Jobs : pc'[j] = "holding"} \cup g
<1>1. fg \in Seq(FgJobs) /\ bg \in Seq(BgJobs)
  BY DEF TypeOK
<1>2. H \in SUBSET Jobs
  OBVIOUS
<1>3. /\ \A i \in 1..Len(fg) : fg[i] \in FgJobs /\ Queued(fg[i])
      /\ \A i \in 1..Len(bg) : bg[i] \in BgJobs /\ Queued(bg[i])
  BY <1>1 DEF Queued
<1>4. \A j \in Jobs : Queued(j) => j \notin H
  BY DEF Pending
<1>5. /\ \A i \in 1..Len(fg) : fg[i] \notin H
      /\ \A i \in 1..Len(bg) : bg[i] \notin H
  BY <1>3, <1>4 DEF Jobs
<1>6. a = Cardinality(H) /\ f = Cardinality(H \cap FgJobs)
  OBVIOUS
<1> HIDE DEF H
<1>7. PICK kf \in 0..Len(fg), kb \in 0..Len(bg) :
        /\ active' = Cardinality(H \cup (Taken(fg, kf) \cup Taken(bg, kb)))
        /\ fgActive' = Cardinality((H \cup (Taken(fg, kf) \cup Taken(bg, kb))) \cap FgJobs)
        /\ active' \in Nat /\ fgActive' \in 0..active'
        /\ granted' = g \cup (Taken(fg, kf) \cup Taken(bg, kb))
        /\ fg' = SubSeq(fg, kf + 1, Len(fg))
        /\ bg' = SubSeq(bg, kb + 1, Len(bg))
        /\ active' < n =>
             /\ fg' = <<>>
             /\ bg' # <<>> => active' - fgActive' >=
                                BgMax(n, FgBusyLocked(fgActive', fg', h))
        /\ FgBusyLocked(fgActive', fg', h) <=> FgBusyLocked(f, fg, h)
  BY <1>1, <1>2, <1>5, <1>6, GrantLemma
<1> DEFINE G == Taken(fg, kf) \cup Taken(bg, kb)
<1>8. /\ fg' \in Seq(FgJobs) /\ Distinct(fg') /\ Len(fg') = Len(fg) - kf
      /\ \A i \in 1..Len(fg') : fg'[i] = fg[kf + i]
      /\ \A i \in 1..Len(fg') : fg'[i] \notin Taken(fg, kf)
  <2>1. Dropped(FgJobs, fg, kf, SubSeq(fg, kf + 1, Len(fg)))
    BY <1>1, DropFacts
  <2>2. Dropped(FgJobs, fg, kf, fg')
    BY <1>7, <2>1
  <2> QED BY <2>2 DEF Dropped
<1>9. /\ bg' \in Seq(BgJobs) /\ Distinct(bg') /\ Len(bg') = Len(bg) - kb
      /\ \A i \in 1..Len(bg') : bg'[i] = bg[kb + i]
      /\ \A i \in 1..Len(bg') : bg'[i] \notin Taken(bg, kb)
  <2>1. Dropped(BgJobs, bg, kb, SubSeq(bg, kb + 1, Len(bg)))
    BY <1>1, DropFacts
  <2>2. Dropped(BgJobs, bg, kb, bg')
    BY <1>7, <2>1
  <2> QED BY <2>2 DEF Dropped
<1>10. /\ Taken(fg, kf) \subseteq FgJobs /\ Taken(bg, kb) \subseteq BgJobs
       /\ \A j \in G : Queued(j)
  BY <1>3 DEF Taken
<1>11. \A j \in Jobs : Queued(j) <=> (j \in G \/ Queued(j)')
  <2>1. ASSUME NEW i \in 1..Len(fg)
        PROVE  fg[i] \in Taken(fg, kf) \/ \E k \in 1..Len(fg') : fg'[k] = fg[i]
    <3>1. CASE i <= kf
      BY <3>1 DEF Taken
    <3>2. CASE i > kf
      <4>1. i - kf \in 1..Len(fg') /\ kf + (i - kf) = i
        BY <1>1, <1>8, <3>2
      <4> QED BY <1>8, <4>1
    <3> QED BY <1>1, <3>1, <3>2
  <2>2. ASSUME NEW i \in 1..Len(bg)
        PROVE  bg[i] \in Taken(bg, kb) \/ \E k \in 1..Len(bg') : bg'[k] = bg[i]
    <3>1. CASE i <= kb
      BY <3>1 DEF Taken
    <3>2. CASE i > kb
      <4>1. i - kb \in 1..Len(bg') /\ kb + (i - kb) = i
        BY <1>1, <1>9, <3>2
      <4> QED BY <1>9, <4>1
    <3> QED BY <1>1, <3>1, <3>2
  <2>3. \A i \in 1..Len(fg') : kf + i \in 1..Len(fg) /\ fg'[i] = fg[kf + i]
    BY <1>1, <1>8
  <2>4. \A i \in 1..Len(bg') : kb + i \in 1..Len(bg) /\ bg'[i] = bg[kb + i]
    BY <1>1, <1>9
  <2> HIDE DEF G
  <2>5. ASSUME NEW j \in Jobs, Queued(j)
        PROVE  j \in G \/ Queued(j)'
    <3>1. CASE \E i \in 1..Len(fg) : fg[i] = j
      BY <2>1, <3>1 DEF Queued, G
    <3>2. CASE \E i \in 1..Len(bg) : bg[i] = j
      BY <2>2, <3>2 DEF Queued, G
    <3> QED BY <2>5, <3>1, <3>2 DEF Queued
  <2>6. ASSUME NEW j \in Jobs, Queued(j)'
        PROVE  Queued(j)
    <3>1. CASE \E i \in 1..Len(fg') : fg'[i] = j
      BY <2>3, <3>1 DEF Queued
    <3>2. CASE \E i \in 1..Len(bg') : bg'[i] = j
      BY <2>4, <3>2 DEF Queued
    <3> QED BY <2>6, <3>1, <3>2 DEF Queued
  <2>7. \A j \in G : Queued(j)
    BY <1>10
  <2> QED BY <2>5, <2>6, <2>7
<1>12. \A j \in Jobs : ~(j \in G /\ Queued(j)')
  <2>1. \A i \in 1..Len(fg') : fg'[i] \in FgJobs
    BY <1>8
  <2>2. \A i \in 1..Len(bg') : bg'[i] \in BgJobs
    BY <1>9
  <2> QED BY <1>8, <1>9, <1>10, <2>1, <2>2, NetQueueAssumption DEF Queued
<1>13. WaitersTracked'
  <2> HIDE DEF G
  <2>1. granted' = g \cup G
    BY <1>7 DEF G
  <2>2. \A j \in Jobs : /\ pc'[j] \in Pending <=> (j \in granted' \/ Queued(j)')
                        /\ ~(j \in granted' /\ Queued(j)')
    BY <1>11, <1>12, <2>1
  <2> QED BY <1>8, <1>9, <2>2 DEF WaitersTracked
<1>14. SlotHolders' = H \cup G
  BY <1>7 DEF SlotHolders, H
<1>15. SlotAccounting'
  <2>1. active' = Cardinality(H \cup G) /\ fgActive' = Cardinality((H \cup G) \cap FgJobs)
    BY <1>7
  <2> HIDE DEF G
  <2> QED BY <1>14, <2>1 DEF SlotAccounting
<1>16. NoStrandedSlot' /\ (FgBusy' <=> FgBusyLocked(f, fg, h))
  BY <1>7 DEF NoStrandedSlot, FgBusy, BgActive
<1>17. granted' \subseteq Jobs
  BY <1>7, <1>10 DEF Jobs
<1> QED BY <1>7, <1>8, <1>9, <1>13, <1>15, <1>16, <1>17

(***************************************************************************)
(* The inductive invariant.  Counting the slot holders needs to know where *)
(* each job is; that nobody waits beside a slot it may have needs the      *)
(* counts; and that the idle channel is exact needs that granting changes  *)
(* nothing about the foreground being busy.                                *)
(***************************************************************************)
IInv ==
  /\ TypeOK
  /\ SlotAccounting
  /\ WaitersTracked
  /\ NoStrandedSlot
  /\ IdleChannelExact
  /\ IdleWakeupIsReal

\* A section that leaves the idle channel alone wakes nobody.
LEMMA IdleUnchanged ==
  ASSUME TypeOK, IdleWakeupIsReal, Observe, idle' = idle
  PROVE  /\ idle' \in [IdleWaits -> {"out", "blocked", "ready"}]
         /\ sawIdle' \in [IdleWaits -> BOOLEAN]
         /\ IdleWakeupIsReal'
<1>1. idle \in [IdleWaits -> {"out", "blocked", "ready"}]
  BY DEF TypeOK
<1>2. sawIdle' \in [IdleWaits -> BOOLEAN]
  BY DEF Observe, FgBusyLocked
<1>3. ASSUME NEW w \in IdleWaits, idle'[w] = "ready"
      PROVE  sawIdle'[w]
  BY <1>3 DEF IdleWakeupIsReal, Observe
<1> QED BY <1>1, <1>2, <1>3 DEF IdleWakeupIsReal

\* A section that ends in markFgIdleIfLocked keeps the idle channel exact if
\* it does not make the foreground busy, and wakes callers only when idle.
LEMMA IdleMarked ==
  ASSUME TypeOK, IdleChannelExact, IdleWakeupIsReal, Observe, markFgIdleIfLocked,
         FgBusy' => FgBusy
  PROVE  /\ idle' \in [IdleWaits -> {"out", "blocked", "ready"}]
         /\ sawIdle' \in [IdleWaits -> BOOLEAN]
         /\ fgIdle' \in BOOLEAN
         /\ IdleWakeupIsReal' /\ IdleChannelExact'
<1>1. idle \in [IdleWaits -> {"out", "blocked", "ready"}] /\ fgIdle \in BOOLEAN
  BY DEF TypeOK
<1>2. FgBusy' = FgBusyLocked(fgActive', fg', holding')
  BY DEF FgBusy
<1>3. CASE FgBusyLocked(fgActive', fg', holding')
  <2>1. fgIdle' = fgIdle /\ idle' = idle
    BY <1>3 DEF markFgIdleIfLocked
  <2>2. IdleChannelExact'
    BY <1>2, <1>3, <2>1 DEF IdleChannelExact
  <2> QED BY <1>1, <2>1, <2>2, IdleUnchanged
<1>4. CASE ~FgBusyLocked(fgActive', fg', holding')
  <2>1. fgIdle' = TRUE /\ CloseIdle
    BY <1>4 DEF markFgIdleIfLocked
  <2>2. sawIdle' = [w \in IdleWaits |-> TRUE]
    BY <1>4 DEF Observe
  <2>3. idle' \in [IdleWaits -> {"out", "blocked", "ready"}]
    BY <1>1, <2>1 DEF CloseIdle
  <2>4. IdleChannelExact'
    BY <1>2, <1>4, <2>1 DEF IdleChannelExact
  <2> QED BY <2>1, <2>2, <2>3, <2>4 DEF IdleWakeupIsReal
<1> QED BY <1>3, <1>4

LEMMA InitIInv == Init => IInv
<1> SUFFICES ASSUME Init PROVE IInv
  OBVIOUS
<1> USE DEF Init
<1>1. TypeOK
  <2>1. fg \in Seq(FgJobs) /\ bg \in Seq(BgJobs)
    BY EmptySeq
  <2> QED BY <2>1 DEF TypeOK
<1>2. SlotAccounting
  <2>1. SlotHolders = {} /\ SlotHolders \cap FgJobs = {}
    BY DEF SlotHolders
  <2> QED BY <2>1, FS_EmptySet DEF SlotAccounting
<1>3. Len(fg) = 0 /\ Len(bg) = 0
  BY EmptySeq
<1>4. WaitersTracked
  BY <1>3 DEF WaitersTracked, Distinct, Queued, Pending
<1>5. NoStrandedSlot /\ IdleChannelExact /\ IdleWakeupIsReal
  <2>1. ~FgBusy
    BY DEF FgBusy, FgBusyLocked
  <2>2. NoStrandedSlot
    BY DEF NoStrandedSlot
  <2>3. IdleChannelExact
    BY <2>1 DEF IdleChannelExact
  <2>4. IdleWakeupIsReal
    BY DEF IdleWakeupIsReal
  <2> QED BY <2>2, <2>3, <2>4
<1> QED BY <1>1, <1>2, <1>4, <1>5 DEF IInv

\* r is the queue q with x at its end.
Extended(S, q, x, r) ==
  /\ r \in Seq(S) /\ r # <<>> /\ Distinct(r)
  /\ \A j : (\E i \in 1..Len(r) : r[i] = j) <=>
              (j = x \/ \E i \in 1..Len(q) : q[i] = j)

LEMMA AppendFacts ==
  ASSUME NEW S, NEW q \in Seq(S), Distinct(q), NEW x \in S,
         \A i \in 1..Len(q) : q[i] # x
  PROVE  Extended(S, q, x, Append(q, x))
<1> DEFINE r == Append(q, x)
<1>1. /\ r \in Seq(S) /\ Len(r) = Len(q) + 1 /\ Len(q) \in Nat
      /\ r[Len(q) + 1] = x
      /\ \A i \in 1..Len(q) : r[i] = q[i]
  OBVIOUS
<1> HIDE DEF r
<1>2. r # <<>>
  BY <1>1, EmptySeq
<1>3. Distinct(r)
  <2>1. \A i \in 1..Len(r) : i \in 1..Len(q) \/ i = Len(q) + 1
    BY <1>1
  <2> QED BY <1>1, <2>1 DEF Distinct
<1>4. ASSUME NEW j
      PROVE  (\E i \in 1..Len(r) : r[i] = j) <=>
               (j = x \/ \E i \in 1..Len(q) : q[i] = j)
  <2>1. \A i \in 1..Len(r) : i \in 1..Len(q) \/ i = Len(q) + 1
    BY <1>1
  <2>2. Len(q) + 1 \in 1..Len(r) /\ \A i \in 1..Len(q) : i \in 1..Len(r)
    BY <1>1
  <2> QED BY <1>1, <2>1, <2>2
<1> QED BY <1>1, <1>2, <1>3, <1>4 DEF Extended, r

LEMMA HoldersAreJobs ==
  ASSUME TypeOK
  PROVE  /\ SlotHolders \in SUBSET Jobs
         /\ IsFiniteSet(SlotHolders) /\ IsFiniteSet(SlotHolders \cap FgJobs)
<1>1. SlotHolders \in SUBSET Jobs
  BY DEF SlotHolders, TypeOK
<1> QED BY <1>1, HolderCounts

LEMMA AcquireNowIInv ==
  ASSUME IInv, NEW j \in Jobs, AcquireNow(j)
  PROVE  IInv'
<1> USE DEF IInv
<1>1. /\ pc[j] = "out" /\ Room(j)
      /\ active' = active + 1
      /\ fgActive' = IF j \in FgJobs THEN fgActive + 1 ELSE fgActive
      /\ fgIdle' = (fgIdle /\ j \notin FgJobs)
      /\ pc' = [pc EXCEPT ![j] = "holding"]
      /\ slots' = slots /\ fg' = fg /\ bg' = bg /\ holding' = holding
      /\ granted' = granted /\ idle' = idle
      /\ Observe
  BY DEF AcquireNow
<1>2. j \notin SlotHolders
  BY <1>1 DEF WaitersTracked, Pending, SlotHolders
<1>3. SlotHolders' = SlotHolders \cup {j}
  BY <1>1 DEF SlotHolders, TypeOK
<1>4. TypeOK'
  <2>1. active' \in Nat /\ fgActive' \in 0..active'
    BY <1>1 DEF TypeOK
  <2>2. idle' \in [IdleWaits -> {"out", "blocked", "ready"}]
          /\ sawIdle' \in [IdleWaits -> BOOLEAN]
    BY <1>1, IdleUnchanged
  <2>3. pc' \in [Jobs -> {"out", "waiting", "leaving", "holding"}]
    BY <1>1 DEF TypeOK
  <2> QED BY <1>1, <2>1, <2>2, <2>3 DEF TypeOK
<1>5. SlotAccounting'
  <2>1. Cardinality(SlotHolders') = active + 1
    BY <1>2, <1>3, HoldersAreJobs, FS_AddElement DEF SlotAccounting
  <2>2. CASE j \in FgJobs
    <3>1. SlotHolders' \cap FgJobs = (SlotHolders \cap FgJobs) \cup {j}
      BY <1>3, <2>2
    <3>2. Cardinality((SlotHolders \cap FgJobs) \cup {j}) = fgActive + 1
      BY <1>2, HoldersAreJobs, FS_AddElement DEF SlotAccounting
    <3> QED BY <1>1, <2>1, <2>2, <3>1, <3>2 DEF SlotAccounting
  <2>3. CASE j \notin FgJobs
    <3>1. SlotHolders' \cap FgJobs = SlotHolders \cap FgJobs
      BY <1>3, <2>3
    <3> QED BY <1>1, <2>1, <2>3, <3>1 DEF SlotAccounting
  <2> QED BY <2>2, <2>3
<1>6. WaitersTracked'
  BY <1>1, <1>2 DEF WaitersTracked, TypeOK, Pending, Queued, SlotHolders
<1>7. NoStrandedSlot'
  <2>1. /\ active \in Nat /\ fgActive \in Nat /\ slots \in Nat /\ active < slots
        /\ fg = <<>>
    BY <1>1, NetQueueAssumption DEF TypeOK, Room, NoStrandedSlot
  <2>2. CASE j \in FgJobs
    <3>1. BgActive' = BgActive
      BY <1>1, <2>1, <2>2 DEF BgActive
    <3>2. BgMax(slots, FgBusy)' <= BgMax(slots, FgBusy) /\ BgMax(slots, FgBusy)' \in Int
      BY <1>1, <2>1, <2>2 DEF BgMax, FgBusy, FgBusyLocked
    <3>3. BgActive \in Int /\ BgMax(slots, FgBusy) \in Int
      BY <2>1 DEF BgActive, BgMax
    <3>4. bg # <<>> => BgActive >= BgMax(slots, FgBusy)
      BY <2>1 DEF NoStrandedSlot
    <3> QED BY <1>1, <2>1, <3>1, <3>2, <3>3, <3>4 DEF NoStrandedSlot
  <2>3. CASE j \notin FgJobs
    <3>1. BgActive' = BgActive + 1 /\ BgMax(slots, FgBusy)' = BgMax(slots, FgBusy)
      BY <1>1, <2>1, <2>3 DEF BgActive, FgBusy
    <3>2. BgActive \in Int /\ BgMax(slots, FgBusy) \in Int
      BY <2>1 DEF BgActive, BgMax
    <3>3. bg # <<>> => BgActive >= BgMax(slots, FgBusy)
      BY <2>1 DEF NoStrandedSlot
    <3> QED BY <1>1, <2>1, <3>1, <3>2, <3>3 DEF NoStrandedSlot
  <2> QED BY <2>2, <2>3
<1>8. IdleChannelExact'
  <2>1. fgActive \in Nat
    BY DEF TypeOK
  <2>2. CASE j \in FgJobs
    <3>1. fgActive' > 0
      BY <1>1, <2>1, <2>2
    <3>2. fgIdle' = FALSE
      BY <1>1, <2>2
    <3> QED BY <3>1, <3>2 DEF IdleChannelExact, FgBusy, FgBusyLocked
  <2>3. CASE j \notin FgJobs
    <3>1. fgIdle' = fgIdle
      BY <1>1, <2>3 DEF TypeOK
    <3>2. FgBusy' = FgBusy
      BY <1>1, <2>3 DEF FgBusy
    <3> QED BY <3>1, <3>2 DEF IdleChannelExact
  <2> QED BY <2>2, <2>3
<1>9. IdleWakeupIsReal'
  BY <1>1, IdleUnchanged
<1> QED BY <1>4, <1>5, <1>6, <1>7, <1>8, <1>9

LEMMA AcquireWaitIInv ==
  ASSUME IInv, NEW j \in Jobs, AcquireWait(j)
  PROVE  IInv'
<1> USE DEF IInv
<1>1. /\ pc[j] = "out" /\ ~Room(j)
      /\ fg' = IF j \in FgJobs THEN Append(fg, j) ELSE fg
      /\ bg' = IF j \in FgJobs THEN bg ELSE Append(bg, j)
      /\ fgIdle' = (fgIdle /\ j \notin FgJobs)
      /\ pc' = [pc EXCEPT ![j] = "waiting"]
      /\ slots' = slots /\ active' = active /\ fgActive' = fgActive
      /\ holding' = holding /\ granted' = granted /\ idle' = idle
      /\ Observe
  BY DEF AcquireWait
<1>2. fg \in Seq(FgJobs) /\ bg \in Seq(BgJobs) /\ Distinct(fg) /\ Distinct(bg)
  BY DEF TypeOK, WaitersTracked
<1>3. ~Queued(j) /\ j \notin granted
  BY <1>1 DEF WaitersTracked, Pending
<1>4. /\ fg' \in Seq(FgJobs) /\ bg' \in Seq(BgJobs) /\ Distinct(fg') /\ Distinct(bg')
      /\ \A x \in Jobs : Queued(x)' <=> (x = j \/ Queued(x))
      /\ j \in FgJobs => fg' # <<>> /\ bg' = bg
      /\ j \notin FgJobs => fg' = fg
  <2>1. CASE j \in FgJobs
    <3>1. Extended(FgJobs, fg, j, Append(fg, j))
      BY <1>2, <1>3, <2>1, AppendFacts DEF Queued
    <3>2. Extended(FgJobs, fg, j, fg') /\ bg' = bg
      BY <1>1, <2>1, <3>1
    <3> QED BY <1>2, <2>1, <3>2 DEF Extended, Queued
  <2>2. CASE j \notin FgJobs
    <3>1. j \in BgJobs
      BY <2>2 DEF Jobs
    <3>2. Extended(BgJobs, bg, j, Append(bg, j))
      BY <1>2, <1>3, <3>1, AppendFacts DEF Queued
    <3>3. Extended(BgJobs, bg, j, bg') /\ fg' = fg
      BY <1>1, <2>2, <3>2
    <3> QED BY <1>2, <2>2, <3>3 DEF Extended, Queued
  <2> QED BY <2>1, <2>2
<1>5. pc' \in [Jobs -> {"out", "waiting", "leaving", "holding"}]
  BY <1>1 DEF TypeOK
<1>6. TypeOK'
  <2>1. idle' \in [IdleWaits -> {"out", "blocked", "ready"}]
          /\ sawIdle' \in [IdleWaits -> BOOLEAN]
    BY <1>1, IdleUnchanged
  <2> QED BY <1>1, <1>4, <1>5, <2>1 DEF TypeOK
<1>7. SlotAccounting'
  <2>1. SlotHolders' = SlotHolders
    BY <1>1, <1>3 DEF SlotHolders, TypeOK
  <2> QED BY <1>1, <2>1 DEF SlotAccounting
<1>8. WaitersTracked'
  <2>1. ASSUME NEW x \in Jobs
        PROVE  /\ pc'[x] \in Pending <=> (x \in granted' \/ Queued(x)')
               /\ ~(x \in granted' /\ Queued(x)')
    <3>1. CASE x = j
      BY <1>1, <1>3, <1>4, <3>1 DEF TypeOK, Pending
    <3>2. CASE x # j
      <4>1. pc'[x] = pc[x] /\ granted' = granted /\ (Queued(x)' <=> Queued(x))
        BY <1>1, <1>4, <3>2 DEF TypeOK
      <4>2. /\ pc[x] \in Pending <=> (x \in granted \/ Queued(x))
            /\ ~(x \in granted /\ Queued(x))
        BY DEF WaitersTracked
      <4> QED BY <4>1, <4>2
    <3> QED BY <3>1, <3>2
  <2> QED BY <1>4, <2>1 DEF WaitersTracked
<1>9. NoStrandedSlot'
  <2>1. active \in Int /\ slots \in Int
    BY DEF TypeOK
  <2>2. CASE j \in FgJobs
    BY <1>1, <2>1, <2>2 DEF Room, NoStrandedSlot
  <2>3. CASE j \notin FgJobs
    <3>1. active < slots => fg = <<>> /\ ~(BgActive < BgMax(slots, FgBusy))
      BY <1>1, <2>3 DEF Room, NoStrandedSlot, BgActive
    <3>2. BgActive \in Int /\ BgMax(slots, FgBusy) \in Int
      BY DEF TypeOK, BgActive, BgMax
    <3>3. BgActive' = BgActive /\ BgMax(slots, FgBusy)' = BgMax(slots, FgBusy)
      BY <1>1, <2>3 DEF BgActive, FgBusy
    <3> QED BY <1>1, <1>4, <2>3, <3>1, <3>2, <3>3 DEF NoStrandedSlot
  <2> QED BY <2>2, <2>3
<1>10. IdleChannelExact'
  BY <1>1, <1>4 DEF IdleChannelExact, FgBusy, FgBusyLocked
<1>11. IdleWakeupIsReal'
  BY <1>1, IdleUnchanged
<1> QED BY <1>6, <1>7, <1>8, <1>9, <1>10, <1>11

LEMMA ReceiveIInv ==
  ASSUME IInv, NEW j \in Jobs, Receive(j)
  PROVE  IInv'
<1> USE DEF IInv
<1>1. /\ pc[j] = "waiting" /\ j \in granted
      /\ pc' = [pc EXCEPT ![j] = "holding"] /\ granted' = granted \ {j}
      /\ slots' = slots /\ active' = active /\ fgActive' = fgActive
      /\ fg' = fg /\ bg' = bg /\ holding' = holding /\ fgIdle' = fgIdle
      /\ idle' = idle /\ Observe
  BY DEF Receive
<1>2. SlotHolders' = SlotHolders
  BY <1>1 DEF SlotHolders, TypeOK
<1>3. SlotAccounting'
  BY <1>1, <1>2 DEF SlotAccounting
<1>4. WaitersTracked'
  BY <1>1 DEF WaitersTracked, TypeOK, Pending, Queued
<1>5. NoStrandedSlot' /\ IdleChannelExact'
  BY <1>1 DEF NoStrandedSlot, IdleChannelExact, FgBusy, BgActive
<1>6. TypeOK' /\ IdleWakeupIsReal'
  BY <1>1, IdleUnchanged DEF TypeOK
<1> QED BY <1>3, <1>4, <1>5, <1>6

LEMMA GiveUpIInv ==
  ASSUME IInv, NEW j \in Jobs, GiveUp(j)
  PROVE  IInv'
<1> USE DEF IInv
<1>1. /\ pc[j] = "waiting" /\ pc' = [pc EXCEPT ![j] = "leaving"]
      /\ slots' = slots /\ active' = active /\ fgActive' = fgActive
      /\ fg' = fg /\ bg' = bg /\ holding' = holding /\ fgIdle' = fgIdle
      /\ granted' = granted /\ idle' = idle /\ Observe
  BY DEF GiveUp
<1>2. SlotHolders' = SlotHolders
  BY <1>1 DEF SlotHolders, TypeOK
<1>3. SlotAccounting'
  BY <1>1, <1>2 DEF SlotAccounting
<1>4. WaitersTracked'
  BY <1>1 DEF WaitersTracked, TypeOK, Pending, Queued
<1>5. NoStrandedSlot' /\ IdleChannelExact'
  BY <1>1 DEF NoStrandedSlot, IdleChannelExact, FgBusy, BgActive
<1>6. TypeOK' /\ IdleWakeupIsReal'
  BY <1>1, IdleUnchanged DEF TypeOK
<1> QED BY <1>3, <1>4, <1>5, <1>6

LEMMA LeaveQueueIInv ==
  ASSUME IInv, NEW j \in Jobs, LeaveQueue(j)
  PROVE  IInv'
<1> USE DEF IInv
<1>1. /\ pc[j] = "leaving" /\ j \notin granted
      /\ pc' = [pc EXCEPT ![j] = "out"]
      /\ slots' = slots /\ active' = active /\ fgActive' = fgActive
      /\ holding' = holding /\ granted' = granted
      /\ markFgIdleIfLocked /\ Observe
  BY DEF LeaveQueue
<1>2. fg \in Seq(FgJobs) /\ bg \in Seq(BgJobs) /\ Distinct(fg) /\ Distinct(bg)
  BY DEF TypeOK, WaitersTracked
<1>3. /\ fg' \in Seq(FgJobs) /\ bg' \in Seq(BgJobs) /\ Distinct(fg') /\ Distinct(bg')
      /\ \A x \in Jobs : Queued(x)' <=> (x # j /\ Queued(x))
      /\ fg = <<>> => fg' = <<>>
      /\ bg = <<>> => bg' = <<>>
  <2>1. CASE \E i \in 1..Len(fg) : fg[i] = j /\ fg' = RemoveAt(fg, i) /\ bg' = bg
    <3>1. PICK i \in 1..Len(fg) : fg[i] = j /\ fg' = RemoveAt(fg, i) /\ bg' = bg
      BY <2>1
    <3>2. Without(FgJobs, fg, i, RemoveAt(fg, i))
      BY <1>2, RemoveAtFacts
    <3>3. Without(FgJobs, fg, i, fg')
      BY <3>1, <3>2
    <3>4. j \in FgJobs /\ fg # <<>>
      BY <1>2, <3>1
    <3>5. \A k \in 1..Len(bg) : bg[k] # j
      BY <1>2, <3>4, NetQueueAssumption
    <3> QED BY <1>2, <3>1, <3>3, <3>4, <3>5 DEF Without, Queued
  <2>2. CASE \E i \in 1..Len(bg) : bg[i] = j /\ bg' = RemoveAt(bg, i) /\ fg' = fg
    <3>1. PICK i \in 1..Len(bg) : bg[i] = j /\ bg' = RemoveAt(bg, i) /\ fg' = fg
      BY <2>2
    <3>2. Without(BgJobs, bg, i, RemoveAt(bg, i))
      BY <1>2, RemoveAtFacts
    <3>3. Without(BgJobs, bg, i, bg')
      BY <3>1, <3>2
    <3>4. j \in BgJobs /\ bg # <<>>
      BY <1>2, <3>1
    <3>5. \A k \in 1..Len(fg) : fg[k] # j
      BY <1>2, <3>4, NetQueueAssumption
    <3> QED BY <1>2, <3>1, <3>3, <3>4, <3>5 DEF Without, Queued
  <2> QED BY <2>1, <2>2 DEF LeaveQueue
<1>4. SlotAccounting'
  <2>1. SlotHolders' = SlotHolders
    BY <1>1 DEF SlotHolders, TypeOK
  <2> QED BY <1>1, <2>1 DEF SlotAccounting
<1>5. WaitersTracked'
  <2>1. ASSUME NEW x \in Jobs
        PROVE  /\ pc'[x] \in Pending <=> (x \in granted' \/ Queued(x)')
               /\ ~(x \in granted' /\ Queued(x)')
    <3>1. CASE x = j
      BY <1>1, <1>3, <3>1 DEF TypeOK, Pending
    <3>2. CASE x # j
      BY <1>1, <1>3, <3>2 DEF TypeOK, WaitersTracked
    <3> QED BY <3>1, <3>2
  <2> QED BY <1>3, <2>1 DEF WaitersTracked
<1>6. FgBusy' => FgBusy
  BY <1>1, <1>3 DEF FgBusy, FgBusyLocked
<1>7. NoStrandedSlot'
  \* A slot is free only if no fetch waits; then it is a walk that left, and
  \* the foreground is as busy as before.
  <2>1. active < slots => (FgBusy' <=> FgBusy)
    BY <1>1, <1>3 DEF NoStrandedSlot, FgBusy, FgBusyLocked
  <2>2. active < slots => BgMax(slots, FgBusy)' = BgMax(slots, FgBusy)
    BY <1>1, <2>1 DEF BgMax
  <2>3. BgActive' = BgActive
    BY <1>1 DEF BgActive
  <2> QED BY <1>1, <1>3, <2>2, <2>3 DEF NoStrandedSlot
<1>8. /\ idle' \in [IdleWaits -> {"out", "blocked", "ready"}]
      /\ sawIdle' \in [IdleWaits -> BOOLEAN]
      /\ fgIdle' \in BOOLEAN
      /\ IdleWakeupIsReal' /\ IdleChannelExact'
  BY <1>1, <1>6, IdleMarked
<1>9. TypeOK'
  BY <1>1, <1>3, <1>8 DEF TypeOK
<1> QED BY <1>4, <1>5, <1>7, <1>8, <1>9

\* A job gives its slot back: by its release function, or because it was
\* granted while it gave up.
LEMMA ReleaseSlotIInv ==
  ASSUME IInv, NEW j \in Jobs, NEW STATE g,
         \/ pc[j] = "holding" /\ g = granted
         \/ pc[j] = "leaving" /\ j \in granted /\ g = granted \ {j},
         pc' = [pc EXCEPT ![j] = "out"], ReleaseSlot(j, g), Observe
  PROVE  IInv'
<1> USE DEF IInv
<1> DEFINE f == IF j \in FgJobs THEN fgActive - 1 ELSE fgActive
           H == {x \in Jobs : pc'[x] = "holding"} \cup g
<1>1. /\ grantLocked(active - 1, f, slots, holding, g)
      /\ slots' = slots /\ holding' = holding /\ markFgIdleIfLocked
  BY DEF ReleaseSlot
<1>2. j \in SlotHolders /\ (pc[j] = "holding" => j \notin granted)
  BY DEF SlotHolders, WaitersTracked, Pending
<1>3. H = SlotHolders \ {j}
  BY <1>2 DEF SlotHolders, TypeOK
<1>4. Cardinality(H) = active - 1
  BY <1>2, <1>3, HoldersAreJobs, FS_RemoveElement DEF SlotAccounting
<1>5. Cardinality(H \cap FgJobs) = f
  <2>1. CASE j \in FgJobs
    <3>1. H \cap FgJobs = (SlotHolders \cap FgJobs) \ {j}
      BY <1>3
    <3>2. Cardinality((SlotHolders \cap FgJobs) \ {j}) = fgActive - 1
      BY <1>2, <2>1, HoldersAreJobs, FS_RemoveElement DEF SlotAccounting
    <3> QED BY <2>1, <3>1, <3>2
  <2>2. CASE j \notin FgJobs
    <3>1. H \cap FgJobs = SlotHolders \cap FgJobs
      BY <1>3, <2>2
    <3> QED BY <2>2, <3>1 DEF SlotAccounting
  <2> QED BY <2>1, <2>2
<1>6. pc' \in [Jobs -> {"out", "waiting", "leaving", "holding"}] /\ g \in SUBSET Jobs
  BY DEF TypeOK
<1>7. \A x \in Jobs : /\ pc'[x] \in Pending <=> (x \in g \/ Queued(x))
                      /\ ~(x \in g /\ Queued(x))
  BY DEF TypeOK, WaitersTracked, Pending
<1>8. /\ active' \in Nat /\ fgActive' \in 0..active'
      /\ fg' \in Seq(FgJobs) /\ bg' \in Seq(BgJobs) /\ granted' \subseteq Jobs
      /\ SlotAccounting' /\ WaitersTracked' /\ NoStrandedSlot'
      /\ FgBusy' <=> FgBusyLocked(f, fg, holding)
  <2>1. slots \in 1..MaxSlots /\ Distinct(fg) /\ Distinct(bg)
    BY DEF TypeOK, WaitersTracked
  <2> HIDE DEF f
  <2> QED BY <1>1, <1>4, <1>5, <1>6, <1>7, <2>1, GrantPreserves
<1>9. FgBusy' => FgBusy
  <2>1. fgActive \in Nat
    BY DEF TypeOK
  <2>2. f > 0 => fgActive > 0
    BY <2>1
  <2> QED BY <1>8, <2>2 DEF FgBusy, FgBusyLocked
<1>10. /\ idle' \in [IdleWaits -> {"out", "blocked", "ready"}]
       /\ sawIdle' \in [IdleWaits -> BOOLEAN]
       /\ fgIdle' \in BOOLEAN
       /\ IdleWakeupIsReal' /\ IdleChannelExact'
  BY <1>1, <1>9, IdleMarked
<1>11. TypeOK'
  BY <1>1, <1>6, <1>8, <1>10 DEF TypeOK
<1> QED BY <1>8, <1>10, <1>11

\* The end of a hold and a resize: no job moves, free slots are handed out.
LEMMA RegrantIInv ==
  ASSUME IInv, Observe, pc' = pc, holding' \subseteq holding, slots' \in 1..MaxSlots,
         grantLocked(active, fgActive, slots', holding', granted)
  PROVE  /\ SlotAccounting' /\ WaitersTracked' /\ NoStrandedSlot'
         /\ active' \in Nat /\ fgActive' \in 0..active' /\ granted' \subseteq Jobs
         /\ fg' \in Seq(FgJobs) /\ bg' \in Seq(BgJobs)
         /\ FgBusy' <=> FgBusyLocked(fgActive, fg, holding')
<1> USE DEF IInv
<1>1. PICK n, h : n = slots' /\ h = holding'
  OBVIOUS
<1>2. {x \in Jobs : pc'[x] = "holding"} \cup granted = SlotHolders
  BY DEF SlotHolders
<1>3. /\ active = Cardinality({x \in Jobs : pc'[x] = "holding"} \cup granted)
      /\ fgActive = Cardinality(({x \in Jobs : pc'[x] = "holding"} \cup granted) \cap FgJobs)
  BY <1>2 DEF SlotAccounting
<1>4. /\ pc' \in [Jobs -> {"out", "waiting", "leaving", "holding"}]
      /\ granted \in SUBSET Jobs
      /\ \A x \in Jobs : /\ pc'[x] \in Pending <=> (x \in granted \/ Queued(x))
                         /\ ~(x \in granted /\ Queued(x))
      /\ Distinct(fg) /\ Distinct(bg)
  BY DEF TypeOK, WaitersTracked
<1>5. n \in 1..MaxSlots /\ grantLocked(active, fgActive, n, h, granted)
  BY <1>1
<1> QED BY <1>1, <1>3, <1>4, <1>5, GrantPreserves

LEMMA UnholdIInv ==
  ASSUME IInv, NEW c \in Callers, Unhold(c)
  PROVE  IInv'
<1> USE DEF IInv
<1>1. /\ holding' = holding \ {c} /\ slots' = slots /\ pc' = pc
      /\ grantLocked(active, fgActive, slots', holding', granted)
      /\ markFgIdleIfLocked /\ Observe
  BY DEF Unhold
<1>2. /\ SlotAccounting' /\ WaitersTracked' /\ NoStrandedSlot'
      /\ active' \in Nat /\ fgActive' \in 0..active' /\ granted' \subseteq Jobs
      /\ fg' \in Seq(FgJobs) /\ bg' \in Seq(BgJobs)
      /\ FgBusy' <=> FgBusyLocked(fgActive, fg, holding')
  BY <1>1, RegrantIInv DEF TypeOK
<1>3. FgBusy' => FgBusy
  BY <1>1, <1>2 DEF FgBusy, FgBusyLocked
<1>4. /\ idle' \in [IdleWaits -> {"out", "blocked", "ready"}]
      /\ sawIdle' \in [IdleWaits -> BOOLEAN]
      /\ fgIdle' \in BOOLEAN
      /\ IdleWakeupIsReal' /\ IdleChannelExact'
  BY <1>1, <1>3, IdleMarked
<1>5. TypeOK'
  BY <1>1, <1>2, <1>4 DEF TypeOK
<1> QED BY <1>2, <1>4, <1>5

LEMMA SetSlotsIInv ==
  ASSUME IInv, NEW n \in 1..MaxSlots, SetSlots(n)
  PROVE  IInv'
<1> USE DEF IInv
<1>1. /\ slots' = n /\ holding' = holding /\ pc' = pc /\ fgIdle' = fgIdle
      /\ idle' = idle /\ Observe
      /\ grantLocked(active, fgActive, slots', holding', granted)
  BY DEF SetSlots
<1>2. /\ SlotAccounting' /\ WaitersTracked' /\ NoStrandedSlot'
      /\ active' \in Nat /\ fgActive' \in 0..active' /\ granted' \subseteq Jobs
      /\ fg' \in Seq(FgJobs) /\ bg' \in Seq(BgJobs)
      /\ FgBusy' <=> FgBusyLocked(fgActive, fg, holding')
  BY <1>1, RegrantIInv
<1>3. IdleChannelExact'
  BY <1>1, <1>2 DEF IdleChannelExact, FgBusy
<1>4. /\ idle' \in [IdleWaits -> {"out", "blocked", "ready"}]
      /\ sawIdle' \in [IdleWaits -> BOOLEAN]
      /\ IdleWakeupIsReal'
  BY <1>1, IdleUnchanged
<1>5. TypeOK'
  BY <1>1, <1>2, <1>4 DEF TypeOK
<1> QED BY <1>2, <1>3, <1>4, <1>5

LEMMA HoldIInv ==
  ASSUME IInv, NEW c \in Callers, Hold(c)
  PROVE  IInv'
<1> USE DEF IInv
<1>1. /\ holding' = holding \cup {c} /\ fgIdle' = FALSE
      /\ slots' = slots /\ active' = active /\ fgActive' = fgActive
      /\ fg' = fg /\ bg' = bg /\ granted' = granted /\ pc' = pc
      /\ idle' = idle /\ Observe
  BY DEF Hold
<1>2. SlotAccounting' /\ WaitersTracked'
  BY <1>1 DEF SlotAccounting, SlotHolders, WaitersTracked, Queued
<1>3. FgBusy'
  BY <1>1 DEF FgBusy, FgBusyLocked
<1>4. IdleChannelExact'
  BY <1>1, <1>3 DEF IdleChannelExact
<1>5. NoStrandedSlot'
  <2>1. slots \in Nat /\ BgActive \in Int
    BY NetQueueAssumption DEF TypeOK, BgActive
  <2>2. BgMax(slots, FgBusy)' <= BgMax(slots, FgBusy)
    BY <1>1, <1>3, <2>1 DEF BgMax
  <2>3. BgMax(slots, FgBusy) \in Int /\ BgMax(slots, FgBusy)' \in Int
    BY <1>1, <2>1 DEF BgMax
  <2>4. BgActive' = BgActive
    BY <1>1 DEF BgActive
  <2> QED BY <1>1, <2>1, <2>2, <2>3, <2>4 DEF NoStrandedSlot
<1>6. TypeOK' /\ IdleWakeupIsReal'
  BY <1>1, IdleUnchanged DEF TypeOK
<1> QED BY <1>2, <1>4, <1>5, <1>6

LEMMA WaitFgIdleIInv ==
  ASSUME IInv, NEW w \in IdleWaits, WaitFgIdle(w) \/ WaitFgIdleReturns(w)
  PROVE  IInv'
<1> USE DEF IInv
<1>1. /\ slots' = slots /\ active' = active /\ fgActive' = fgActive
      /\ fg' = fg /\ bg' = bg /\ granted' = granted /\ pc' = pc
      /\ holding' = holding /\ fgIdle' = fgIdle
  BY DEF WaitFgIdle, WaitFgIdleReturns
<1>2. SlotAccounting' /\ WaitersTracked' /\ NoStrandedSlot' /\ IdleChannelExact'
  BY <1>1 DEF SlotAccounting, SlotHolders, WaitersTracked, Queued, NoStrandedSlot,
              IdleChannelExact, FgBusy, BgActive
<1>3. /\ idle' \in [IdleWaits -> {"out", "blocked", "ready"}]
      /\ sawIdle' \in [IdleWaits -> BOOLEAN]
      /\ IdleWakeupIsReal'
  <2>1. CASE WaitFgIdle(w)
    BY <2>1 DEF WaitFgIdle, TypeOK, IdleWakeupIsReal, IdleChannelExact, FgBusy,
                FgBusyLocked
  <2>2. CASE WaitFgIdleReturns(w)
    <3>1. idle' = [idle EXCEPT ![w] = "out"] /\ Observe
      BY <2>2 DEF WaitFgIdleReturns
    <3>2. idle' \in [IdleWaits -> {"out", "blocked", "ready"}]
            /\ sawIdle' \in [IdleWaits -> BOOLEAN]
      BY <3>1 DEF TypeOK, Observe, FgBusyLocked
    <3>3. ASSUME NEW v \in IdleWaits, idle'[v] = "ready"
          PROVE  sawIdle'[v]
      <4>1. idle[v] = "ready"
        BY <3>1, <3>3 DEF TypeOK
      <4> QED BY <3>1, <4>1 DEF IdleWakeupIsReal, Observe
    <3> QED BY <3>2, <3>3 DEF IdleWakeupIsReal
  <2> QED BY <2>1, <2>2
<1>4. TypeOK'
  BY <1>1, <1>3 DEF TypeOK
<1> QED BY <1>2, <1>3, <1>4

LEMMA NextIInv == IInv /\ [Next]_vars => IInv'
<1> SUFFICES ASSUME IInv, [Next]_vars
             PROVE  IInv'
  OBVIOUS
<1>1. ASSUME NEW j \in Jobs, AcquireNow(j) PROVE IInv'
  BY <1>1, AcquireNowIInv
<1>2. ASSUME NEW j \in Jobs, AcquireWait(j) PROVE IInv'
  BY <1>2, AcquireWaitIInv
<1>3. ASSUME NEW j \in Jobs, Receive(j) PROVE IInv'
  BY <1>3, ReceiveIInv
<1>4. ASSUME NEW j \in Jobs, GiveUp(j) PROVE IInv'
  BY <1>4, GiveUpIInv
<1>5. ASSUME NEW j \in Jobs, LeaveQueue(j) PROVE IInv'
  BY <1>5, LeaveQueueIInv
<1>6. ASSUME NEW j \in Jobs, LeaveGranted(j) PROVE IInv'
  BY <1>6, ReleaseSlotIInv DEF LeaveGranted
<1>7. ASSUME NEW j \in Jobs, Release(j) PROVE IInv'
  BY <1>7, ReleaseSlotIInv DEF Release
<1>8. ASSUME NEW c \in Callers, Hold(c) PROVE IInv'
  BY <1>8, HoldIInv
<1>9. ASSUME NEW c \in Callers, Unhold(c) PROVE IInv'
  BY <1>9, UnholdIInv
<1>10. ASSUME NEW n \in 1..MaxSlots, SetSlots(n) PROVE IInv'
  BY <1>10, SetSlotsIInv
<1>11. ASSUME NEW w \in IdleWaits, WaitFgIdle(w) \/ WaitFgIdleReturns(w) PROVE IInv'
  BY <1>11, WaitFgIdleIInv
<1>12. CASE UNCHANGED vars
  BY <1>12 DEF vars, IInv, TypeOK, SlotAccounting, SlotHolders, WaitersTracked,
     Queued, NoStrandedSlot, BgActive, IdleChannelExact, FgBusy, IdleWakeupIsReal
<1> QED BY <1>1, <1>2, <1>3, <1>4, <1>5, <1>6, <1>7, <1>8, <1>9, <1>10, <1>11, <1>12
           DEF Next

\* Every behaviour of the queue, for every number of slots, jobs and callers,
\* keeps the invariant.
THEOREM Invariance == Spec => []IInv
BY InitIInv, NextIInv, PTL DEF Spec

\* No slot is leaked or given twice: acquire, releaser and grantLocked keep
\* active and fgActive equal to the jobs that hold a slot.
THEOREM SlotsAccounted == Spec => []SlotAccounting
BY Invariance, PTL DEF IInv

\* A job inside acquire is queued once or granted, and nobody else is.
THEOREM WaitersAreTracked == Spec => []WaitersTracked
BY Invariance, PTL DEF IInv

\* acquire's comment: a free slot never coexists with a waiter it may go to.
THEOREM NoSlotIsStranded == Spec => []NoStrandedSlot
BY Invariance, PTL DEF IInv

\* waitFgIdle returns true only for a foreground that was idle.
THEOREM IdleIsReal == Spec => [](IdleChannelExact /\ IdleWakeupIsReal)
BY Invariance, PTL DEF IInv

\* A job that gets its slot at once passes no waiter it should queue behind.
THEOREM NobodyIsOvertaken == Spec => NoOvertaking
<1> DEFINE A == \A j \in Jobs : pc[j] = "out" /\ pc'[j] = "holding" =>
                  /\ fg = <<>>
                  /\ j \in BgJobs => bg = <<>>
<1>1. IInv /\ [Next]_vars => [A]_vars
  <2> SUFFICES ASSUME IInv, Next, NEW j \in Jobs, pc[j] = "out", pc'[j] = "holding"
               PROVE  fg = <<>> /\ (j \in BgJobs => bg = <<>>)
    BY DEF A
  <2>1. pc \in [Jobs -> {"out", "waiting", "leaving", "holding"}]
    BY DEF IInv, TypeOK
  <2>2. AcquireNow(j)
    BY <2>1 DEF Next, AcquireNow, AcquireWait, Receive, GiveUp, LeaveQueue,
       LeaveGranted, Release, Hold, Unhold, SetSlots, WaitFgIdle, WaitFgIdleReturns
  <2>3. active < slots /\ Room(j)
    BY <2>2 DEF AcquireNow, Room
  <2>4. fg = <<>> /\ (bg # <<>> => BgActive >= BgMax(slots, FgBusy))
    BY <2>3 DEF IInv, NoStrandedSlot
  <2>5. ASSUME j \in BgJobs
        PROVE  bg = <<>>
    <3>1. j \notin FgJobs
      BY <2>5, NetQueueAssumption
    <3>2. BgActive < BgMax(slots, FgBusy)
      BY <2>3, <3>1 DEF Room, BgActive
    <3>3. BgActive \in Int /\ BgMax(slots, FgBusy) \in Int
      BY DEF IInv, TypeOK, BgActive, BgMax
    <3> QED BY <2>4, <3>2, <3>3
  <2> QED BY <2>4, <2>5
<1> QED BY <1>1, Invariance, PTL DEF Spec, NoOvertaking

\* What is granted of either queue fits in the room there is.
Fits(a, f, n, m, lf, lb, kf, kb) ==
  /\ kf \in 0..lf /\ kb \in 0..lb
  /\ kf > 0 \/ kb > 0 => a + kf + kb <= n
  /\ kb > 0 => kf = lf /\ (a + kf + kb) - (f + kf) <= m

LEMMA FitsRoom ==
  ASSUME NEW a \in Nat, NEW f \in 0..a, NEW n \in Nat, NEW m \in Nat,
         NEW lf \in Nat, NEW lb \in Nat, NEW kf, NEW kb,
         kf = Fit(n - a, lf),
         kb = Fit(Least(n - a - kf, m - (a - f)), lb)
  PROVE  Fits(a, f, n, m, lf, lb, kf, kb)
BY DEF Fit, Least, Fits

\* What grantLocked lets in, it lets in within the size n; and if it is of the
\* background, within the background's share and with no fetch left to wait.
LEMMA GrantAdmits ==
  ASSUME NEW STATE a, NEW STATE f, NEW STATE n, NEW STATE h, NEW STATE g,
         fg \in Seq(FgJobs), bg \in Seq(BgJobs), a \in Nat, f \in 0..a, n \in Nat,
         grantLocked(a, f, n, h, g), NEW j, j \in granted', j \notin g
  PROVE  /\ active' <= n
         /\ j \in BgJobs => /\ fg' = <<>>
                            /\ active' - fgActive' <= BgMax(n, FgBusyLocked(fgActive', fg', h))
<1>1. Len(fg) \in Nat /\ Len(bg) \in Nat
  OBVIOUS
<1>2. PICK kf, kb, w, m :
        /\ kf = Fit(n - a, Len(fg))
        /\ w = SubSeq(fg, kf + 1, Len(fg))
        /\ m = BgMax(n, FgBusyLocked(f + kf, w, h))
        /\ kb = Fit(Least(n - a - kf, m - (a - f)), Len(bg))
        /\ active' = a + kf + kb /\ fgActive' = f + kf
        /\ fg' = w
        /\ granted' = g \cup Taken(fg, kf) \cup Taken(bg, kb)
  BY Zenon DEF grantLocked, Taken
<1>3. m \in Nat
  BY <1>2 DEF BgMax
<1>4. Fits(a, f, n, m, Len(fg), Len(bg), kf, kb)
  <2>1. kf = Fit(n - a, Len(fg)) /\ kb = Fit(Least(n - a - kf, m - (a - f)), Len(bg))
    BY <1>2
  <2> QED BY <1>1, <1>3, <2>1, FitsRoom
<1>5. kf \in 0..Len(fg) /\ kb \in 0..Len(bg)
  BY <1>4 DEF Fits
<1>6. kf > 0 \/ kb > 0
  <2>1. \A q : Taken(q, 0) = {}
    BY DEF Taken
  <2>2. kf # 0 \/ kb # 0
    BY <1>2, <2>1
  <2> QED BY <1>1, <1>5, <2>2
<1>7. active' <= n
  BY <1>2, <1>4, <1>6 DEF Fits
<1>8. ASSUME j \in BgJobs
      PROVE  /\ fg' = <<>>
             /\ active' - fgActive' <= BgMax(n, FgBusyLocked(fgActive', fg', h))
  <2>1. j \notin Taken(fg, kf)
    BY <1>5, <1>8, NetQueueAssumption DEF Taken
  <2>2. kb > 0
    BY <1>2, <1>5, <2>1 DEF Taken
  <2>3. kf = Len(fg) /\ active' - fgActive' <= m
    BY <1>2, <1>4, <2>2 DEF Fits
  <2>4. w = <<>>
    <3>1. kf + 1 \in Int /\ Len(fg) \in Int /\ Len(fg) < kf + 1
      BY <1>1, <2>3
    <3>2. SubSeq(fg, kf + 1, Len(fg)) = <<>>
      BY <3>1, SubSeqEmpty
    <3> QED BY <1>2, <3>2
  <2> QED BY <1>2, <2>3, <2>4
<1> QED BY <1>7, <1>8

\* The header of netq.go: a slot goes to a waiting fetch before any background job,
\* and background work never gets the last slot, nor more than one while a download
\* runs, whatever holds, resizes and departures the grants fall between.
THEOREM EveryoneIsAdmittedInTurn == Spec => AdmittedInTurn
<1> DEFINE A == \A j \in Jobs : j \in SlotHolders' /\ j \notin SlotHolders =>
                  /\ active' <= slots'
                  /\ j \in BgJobs => fg' = <<>> /\ BgActive' <= BgMax(slots', FgBusy')
<1>1. IInv /\ [Next]_vars => [A]_vars
  <2> SUFFICES ASSUME IInv, Next, NEW j \in Jobs, j \in SlotHolders', j \notin SlotHolders
               PROVE  /\ active' <= slots'
                      /\ j \in BgJobs => fg' = <<>> /\ BgActive' <= BgMax(slots', FgBusy')
    BY DEF A
  <2>1. /\ pc \in [Jobs -> {"out", "waiting", "leaving", "holding"}]
        /\ fg \in Seq(FgJobs) /\ bg \in Seq(BgJobs) /\ slots \in Nat /\ active \in Nat
        /\ fgActive \in 0..active /\ granted \subseteq Jobs
    BY DEF IInv, TypeOK
  <2>2. pc[j] # "holding" /\ j \notin granted /\ (pc'[j] = "holding" \/ j \in granted')
    BY DEF SlotHolders
  <2>3. ASSUME NEW k \in Jobs, AcquireNow(k)
        PROVE  /\ active' <= slots'
               /\ j \in BgJobs => fg' = <<>> /\ BgActive' <= BgMax(slots', FgBusy')
    <3>1. /\ active < slots /\ active' = active + 1 /\ slots' = slots /\ fg' = fg
          /\ j = k /\ holding' = holding
      BY <2>1, <2>2, <2>3 DEF AcquireNow, Room
    <3>2. ASSUME j \in BgJobs PROVE fg' = <<>> /\ BgActive' <= BgMax(slots', FgBusy')
      <4>1. /\ j \notin FgJobs /\ fg = <<>> /\ fgActive' = fgActive
            /\ active - fgActive < BgMax(slots, FgBusy)
        BY <2>3, <3>1, <3>2, NetQueueAssumption DEF AcquireNow, Room
      <4>2. FgBusy' <=> FgBusy
        BY <3>1, <4>1 DEF FgBusy, FgBusyLocked
      <4>3. BgMax(slots, FgBusy) \in Int /\ BgMax(slots', FgBusy') = BgMax(slots, FgBusy)
        BY <2>1, <3>1, <4>2 DEF BgMax
      <4> QED BY <2>1, <3>1, <4>1, <4>3 DEF BgActive
    <3> QED BY <2>1, <3>1, <3>2
  <2>4. ASSUME NEW a \in Nat, NEW f \in 0..a, NEW g, j \notin g, pc'[j] # "holding",
               slots' \in Nat, grantLocked(a, f, slots', holding', g)
        PROVE  /\ active' <= slots'
               /\ j \in BgJobs => fg' = <<>> /\ BgActive' <= BgMax(slots', FgBusy')
    <3>1. PICK n, h : n = slots' /\ h = holding'
      OBVIOUS
    <3>2. n \in Nat /\ grantLocked(a, f, n, h, g)
      BY <2>4, <3>1
    <3>3. /\ active' <= n
          /\ j \in BgJobs => /\ fg' = <<>>
                             /\ active' - fgActive' <= BgMax(n, FgBusyLocked(fgActive', fg', h))
      BY <2>1, <2>2, <2>4, <3>2, GrantAdmits
    <3> QED BY <3>1, <3>3 DEF BgActive, FgBusy
  <2>5. ASSUME NEW k \in Jobs, NEW g, pc[k] = "holding" \/ k \in granted,
               g \subseteq granted, pc' = [pc EXCEPT ![k] = "out"], ReleaseSlot(k, g)
        PROVE  /\ active' <= slots'
               /\ j \in BgJobs => fg' = <<>> /\ BgActive' <= BgMax(slots', FgBusy')
    <3>1. j # k /\ pc'[j] # "holding" /\ j \notin g
      BY <2>1, <2>2, <2>5
    <3> DEFINE f == IF k \in FgJobs THEN fgActive - 1 ELSE fgActive
    <3>2. /\ grantLocked(active - 1, f, slots', holding', g)
          /\ slots' \in Nat
      BY <2>1, <2>5 DEF ReleaseSlot
    <3>3. active - 1 \in Nat /\ f \in 0..(active - 1)
      <4>1. k \in SlotHolders
        BY <2>5 DEF SlotHolders
      <4>2. /\ IsFiniteSet(SlotHolders) /\ active = Cardinality(SlotHolders)
            /\ fgActive = Cardinality(SlotHolders \cap FgJobs)
        BY HoldersAreJobs DEF IInv, SlotAccounting
      <4>3. IsFiniteSet(SlotHolders \ {k}) /\ Cardinality(SlotHolders \ {k}) = active - 1
        BY <4>1, <4>2, FS_RemoveElement
      <4>4. CASE k \in FgJobs
        <5>1. /\ IsFiniteSet(SlotHolders \cap FgJobs) /\ k \in SlotHolders \cap FgJobs
          BY <4>1, <4>2, <4>4, FS_Intersection
        <5>2. fgActive - 1 = Cardinality((SlotHolders \cap FgJobs) \ {k})
              /\ IsFiniteSet((SlotHolders \cap FgJobs) \ {k})
          BY <4>2, <5>1, FS_RemoveElement
        <5>3. fgActive - 1 \in Nat
          BY <5>2, FS_CardinalityType
        <5> QED BY <2>1, <4>4, <5>3
      <4>5. CASE k \notin FgJobs
        <5>1. SlotHolders \cap FgJobs \subseteq SlotHolders \ {k}
          BY <4>5
        <5>2. fgActive <= active - 1 /\ active - 1 \in Nat
          BY <4>2, <4>3, <5>1, FS_Subset, FS_CardinalityType
        <5> QED BY <2>1, <4>5, <5>2
      <4> QED BY <4>4, <4>5
    <3> HIDE DEF f
    <3> QED BY <2>4, <3>1, <3>2, <3>3
  <2>6. ASSUME NEW k \in Jobs, LeaveGranted(k) \/ Release(k)
        PROVE  /\ active' <= slots'
               /\ j \in BgJobs => fg' = <<>> /\ BgActive' <= BgMax(slots', FgBusy')
    <3>1. CASE Release(k)
      BY <2>5, <3>1 DEF Release
    <3>2. CASE LeaveGranted(k)
      BY <2>5, <3>2 DEF LeaveGranted
    <3> QED BY <2>6, <3>1, <3>2
  <2>7. ASSUME NEW c \in Callers, Unhold(c)
        PROVE  /\ active' <= slots'
               /\ j \in BgJobs => fg' = <<>> /\ BgActive' <= BgMax(slots', FgBusy')
    <3>1. /\ pc' = pc /\ slots' = slots
          /\ grantLocked(active, fgActive, slots', holding', granted)
      BY <2>7 DEF Unhold
    <3> QED BY <2>1, <2>2, <2>4, <3>1
  <2>8. ASSUME NEW n \in 1..MaxSlots, SetSlots(n)
        PROVE  /\ active' <= slots'
               /\ j \in BgJobs => fg' = <<>> /\ BgActive' <= BgMax(slots', FgBusy')
    <3>1. /\ pc' = pc /\ slots' \in Nat
          /\ grantLocked(active, fgActive, slots', holding', granted)
      BY <2>8 DEF SetSlots
    <3> QED BY <2>1, <2>2, <2>4, <3>1
  <2>9. ASSUME NEW k \in Jobs, AcquireWait(k) \/ Receive(k) \/ GiveUp(k) \/ LeaveQueue(k)
        PROVE  FALSE
    BY <2>1, <2>2, <2>9 DEF AcquireWait, Receive, GiveUp, LeaveQueue
  <2>10. ASSUME (\E c \in Callers : Hold(c)) \/ (\E w \in IdleWaits : WaitFgIdle(w) \/ WaitFgIdleReturns(w))
         PROVE  FALSE
    BY <2>2, <2>10 DEF Hold, WaitFgIdle, WaitFgIdleReturns
  <2> QED BY <2>3, <2>6, <2>7, <2>8, <2>9, <2>10 DEF Next
<1> QED BY <1>1, Invariance, PTL DEF Spec, AdmittedInTurn
=============================================================================
