------------------------------ MODULE IrqProofs -----------------------------
(***************************************************************************)
(* The reset as the interrupt manager leads it: for any clients, queues and *)
(* times, whatever other timers are set and stopped meanwhile.              *)
(***************************************************************************)
EXTENDS IrqMgr, FiniteSetTheorems, SequenceTheorems, WellFoundedInduction, TLAPS

Mesg == {"RETRACE", "PRE_NMI", "PRENMI450", "PRENMI480", "PRENMI500"}
Told == {"prenmi", "nmi"}
Stage == {"out", "linked", "asked", "in", "removed"}

TimersOK == timers \in Seq(Timer) /\ IsInjective(timers)

Typed ==
    /\ TimersOK
    /\ irqQ \in Seq(Mesg) /\ irqMsg \in Mesg \ {"RETRACE"}
    /\ resetStatus \in {0, 1, 2} /\ pressed \in BOOLEAN
    /\ clients \in Seq(Client) /\ adding \in [Client -> Stage]
    /\ told \in [Client -> SUBSET Told] /\ missed \subseteq Client

(* One step of the reset is on its way: a message in irqQ, or the timer that *)
(* will send it, or the button that is not pressed yet.                     *)
OneChain ==
    /\ \A i, j \in DOMAIN irqQ : irqQ[i] # "RETRACE" /\ irqQ[j] # "RETRACE" => i = j
    /\ \A i \in DOMAIN irqQ : irqQ[i] # "RETRACE" => pressed /\ ~Active(irqTimer)
    /\ \A i \in DOMAIN irqQ : irqQ[i] \notin {"RETRACE", "PRE_NMI"} => resetStatus # 0
    /\ Active(irqTimer) => resetStatus # 0
    /\ resetStatus # 0 => pressed

(* What each client knows, from the moment it looks at the status: before   *)
(* that it is in the list already, so that nothing passes it by.            *)
ToldOK ==
    \A c \in Client :
        /\ adding[c] \in {"linked", "asked", "in"} => c \in Range(clients)
        /\ adding[c] \in {"asked", "in"} /\ c \notin missed /\ resetStatus # 0 => "prenmi" \in told[c]
        /\ adding[c] = "in" /\ c \notin missed /\ resetStatus = 2 => "nmi" \in told[c]

IrqInv == Typed /\ OneChain /\ ToldOK

-----------------------------------------------------------------------------
(* Lists of timers.                                                         *)

(* t is s with e put in at place i: those from there on move up. *)
PutInAt(S, t, s, i, e) ==
    /\ t \in Seq(S) /\ Len(t) = Len(s) + 1
    /\ \A j \in 1 .. Len(s) + 1 : t[j] = IF j < i THEN s[j] ELSE IF j = i THEN e ELSE s[j - 1]

(* t is s without the element at place i. *)
TakenOutAt(S, t, s, i) ==
    /\ t \in Seq(S) /\ Len(t) = Len(s) - 1
    /\ \A j \in 1 .. Len(s) - 1 : t[j] = IF j < i THEN s[j] ELSE s[j + 1]

LEMMA InsertAtIs ==
    ASSUME NEW S, NEW s \in Seq(S), NEW e \in S, NEW i \in 1 .. Len(s) + 1
    PROVE  PutInAt(S, InsertAt(s, i, e), s, i, e)
<1>0. Len(s) \in Nat /\ i \in Nat \ {0} /\ i <= Len(s) + 1
    OBVIOUS
<1> DEFINE t == InsertAt(s, i, e)
           a == SubSeq(s, 1, i - 1)
           b == <<e>>
           c == SubSeq(s, i, Len(s))
<1>1. \A j \in 1 .. Len(s) : s[j] \in S
    OBVIOUS
<1>2. a \in Seq(S) /\ Len(a) = i - 1 /\ \A j \in 1 .. i - 1 : a[j] = s[j]
    BY <1>1, SubSeqProperties
<1>3. c \in Seq(S) /\ Len(c) = Len(s) + 1 - i /\ \A j \in 1 .. Len(s) + 1 - i : c[j] = s[i + j - 1]
    BY <1>1, SubSeqProperties
<1>4. b \in Seq(S) /\ Len(b) = 1 /\ b[1] = e
    OBVIOUS
<1>5. t = (a \o b) \o c
    BY DEF InsertAt
<1> DEFINE ab == a \o b
<1> HIDE DEF a, b, c
<1>6. /\ ab \in Seq(S) /\ Len(ab) = i
      /\ \A j \in 1 .. i : ab[j] = IF j <= Len(a) THEN a[j] ELSE b[j - Len(a)]
  <2>1. /\ ab \in Seq(S) /\ Len(ab) = Len(a) + Len(b)
        /\ \A j \in 1 .. Len(a) + Len(b) :
               ab[j] = IF j <= Len(a) THEN a[j] ELSE b[j - Len(a)]
      BY <1>2, <1>4, ConcatProperties
  <2>2. Len(a) + Len(b) = i
      BY <1>0, <1>2, <1>4
  <2> QED
      BY <2>1, <2>2
<1> HIDE DEF ab, t
<1>7. \A j \in 1 .. i : ab[j] = IF j < i THEN s[j] ELSE e
    BY <1>0, <1>2, <1>4, <1>6
<1>8. /\ t \in Seq(S) /\ Len(t) = Len(s) + 1
      /\ \A j \in 1 .. Len(s) + 1 : t[j] = IF j <= i THEN ab[j] ELSE c[j - i]
  <2>1. t = ab \o c
      BY <1>5 DEF ab
  <2>2. /\ ab \o c \in Seq(S) /\ Len(ab \o c) = Len(ab) + Len(c)
        /\ \A j \in 1 .. Len(ab) + Len(c) :
               (ab \o c)[j] = IF j <= Len(ab) THEN ab[j] ELSE c[j - Len(ab)]
      BY <1>3, <1>6, ConcatProperties
  <2>3. Len(ab) + Len(c) = Len(s) + 1
      BY <1>0, <1>3, <1>6
  <2> QED
      BY <1>6, <2>1, <2>2, <2>3
<1>9. ASSUME NEW j \in 1 .. Len(s) + 1
      PROVE  t[j] = IF j < i THEN s[j] ELSE IF j = i THEN e ELSE s[j - 1]
  <2>1. CASE j <= i
      BY <1>0, <1>7, <1>8, <2>1
  <2>2. CASE i < j
    <3>1. j - i \in 1 .. Len(s) + 1 - i /\ i + (j - i) - 1 = j - 1
        BY <1>0, <2>2
    <3>2. c[j - i] = s[j - 1]
        BY <1>3, <3>1
    <3> QED
        BY <1>0, <1>8, <2>2, <3>2
  <2> QED
      BY <2>1, <2>2
<1> QED
    BY <1>8, <1>9 DEF t, PutInAt

LEMMA Inserted ==
    ASSUME NEW S, NEW s \in Seq(S), IsInjective(s), NEW e \in S, ~Contains(s, e),
           NEW i \in 1 .. Len(s) + 1
    PROVE  /\ InsertAt(s, i, e) \in Seq(S) /\ IsInjective(InsertAt(s, i, e))
           /\ \A x : Contains(InsertAt(s, i, e), x) => x = e \/ Contains(s, x)
<1> DEFINE t == InsertAt(s, i, e)
<1>0. Len(s) \in Nat /\ i \in Nat \ {0} /\ i <= Len(s) + 1
    OBVIOUS
<1>1. /\ t \in Seq(S) /\ Len(t) = Len(s) + 1
      /\ \A j \in 1 .. Len(s) + 1 : t[j] = IF j < i THEN s[j] ELSE IF j = i THEN e ELSE s[j - 1]
  <2>1. PutInAt(S, InsertAt(s, i, e), s, i, e)
      BY InsertAtIs
  <2> QED
      BY <2>1 DEF PutInAt
<1> HIDE DEF t
<1>2. \A j \in 1 .. Len(s) : s[j] # e
    BY DEF Contains
<1>3. ASSUME NEW j \in 1 .. Len(t), NEW k \in 1 .. Len(t), t[j] = t[k]
      PROVE  j = k
  <2> DEFINE f(n) == IF n < i THEN n ELSE n - 1
  <2>1. \A n \in 1 .. Len(t) : n # i => f(n) \in 1 .. Len(s) /\ t[n] = s[f(n)]
      BY <1>1
  <2>2. t[i] = e
      BY <1>1
  <2>3. CASE j = i \/ k = i
      BY <1>2, <1>3, <2>1, <2>2, <2>3
  <2>4. CASE j # i /\ k # i
    <3>1. f(j) \in 1 .. Len(s) /\ f(k) \in 1 .. Len(s) /\ s[f(j)] = s[f(k)]
        BY <1>3, <2>1, <2>4
    <3>2. f(j) = f(k)
        BY <3>1 DEF IsInjective
    <3> QED
        BY <2>4, <3>2
  <2> QED
      BY <2>3, <2>4
<1>4. \A x : Contains(t, x) => x = e \/ Contains(s, x)
    BY <1>1 DEF Contains
<1> QED
    BY <1>1, <1>3, <1>4 DEF t, IsInjective

LEMMA RemoveAtIs ==
    ASSUME NEW S, NEW s \in Seq(S), NEW i \in 1 .. Len(s)
    PROVE  TakenOutAt(S, RemoveAt(s, i), s, i)
<1> DEFINE t == RemoveAt(s, i)
           a == SubSeq(s, 1, i - 1)
           c == SubSeq(s, i + 1, Len(s))
<1>1. \A j \in 1 .. Len(s) : s[j] \in S
    OBVIOUS
<1>2. a \in Seq(S) /\ Len(a) = i - 1 /\ \A j \in 1 .. i - 1 : a[j] = s[j]
    BY <1>1, SubSeqProperties
<1>3. c \in Seq(S) /\ Len(c) = Len(s) - i /\ \A j \in 1 .. Len(s) - i : c[j] = s[i + j]
    BY <1>1, SubSeqProperties
<1>4. t = a \o c
    BY DEF RemoveAt
<1> HIDE DEF a, c, t
<1>5. t \in Seq(S) /\ Len(t) = Len(s) - 1
    BY <1>2, <1>3, <1>4, ConcatProperties
<1>6. \A j \in 1 .. Len(s) - 1 : t[j] = IF j < i THEN a[j] ELSE c[j - i + 1]
    BY <1>2, <1>3, <1>4, ConcatProperties
<1>7. ASSUME NEW j \in 1 .. Len(s) - 1 PROVE t[j] = IF j < i THEN s[j] ELSE s[j + 1]
  <2>1. CASE j < i
      BY <1>2, <1>6, <2>1
  <2>2. CASE i <= j
    <3>1. j - i + 1 \in 1 .. Len(s) - i /\ i + (j - i + 1) = j + 1
        BY <2>2
    <3> QED
        BY <1>3, <1>6, <2>2, <3>1
  <2> QED
      BY <2>1, <2>2
<1> QED
    BY <1>5, <1>7 DEF t, TakenOutAt

LEMMA Removed ==
    ASSUME NEW S, NEW s \in Seq(S), IsInjective(s), NEW i \in 1 .. Len(s)
    PROVE  /\ RemoveAt(s, i) \in Seq(S) /\ IsInjective(RemoveAt(s, i))
           /\ \A x : Contains(RemoveAt(s, i), x) => Contains(s, x)
<1> DEFINE t == RemoveAt(s, i)
<1>1. /\ t \in Seq(S) /\ Len(t) = Len(s) - 1
      /\ \A j \in 1 .. Len(s) - 1 : t[j] = IF j < i THEN s[j] ELSE s[j + 1]
  <2>1. TakenOutAt(S, RemoveAt(s, i), s, i)
      BY RemoveAtIs
  <2> QED
      BY <2>1 DEF TakenOutAt
<1> HIDE DEF t
<1>2. ASSUME NEW j \in 1 .. Len(t), NEW k \in 1 .. Len(t), t[j] = t[k]
      PROVE  j = k
  <2> DEFINE f(n) == IF n < i THEN n ELSE n + 1
  <2>1. f(j) \in 1 .. Len(s) /\ f(k) \in 1 .. Len(s) /\ s[f(j)] = s[f(k)]
      BY <1>1, <1>2
  <2>2. f(j) = f(k)
      BY <2>1 DEF IsInjective
  <2> QED
      BY <2>2
<1>3. \A x : Contains(t, x) => Contains(s, x)
    BY <1>1 DEF Contains
<1> QED
    BY <1>1, <1>2, <1>3 DEF t, IsInjective

(* The first k are gone. *)
LEMMA Dropped ==
    ASSUME NEW S, NEW s \in Seq(S), IsInjective(s), NEW k \in 0 .. Len(s)
    PROVE  LET t == SubSeq(s, k + 1, Len(s)) IN
           /\ t \in Seq(S) /\ IsInjective(t)
           /\ \A x : Contains(t, x) => Contains(s, x) /\ \A j \in 1 .. k : x # s[j]
<1> DEFINE t == SubSeq(s, k + 1, Len(s))
<1>1. /\ t \in Seq(S) /\ Len(t) = Len(s) - k
      /\ \A j \in 1 .. Len(s) - k : t[j] = s[j + k]
    OBVIOUS
<1> HIDE DEF t
<1>2. ASSUME NEW i \in 1 .. Len(t), NEW j \in 1 .. Len(t), t[i] = t[j]
      PROVE  i = j
  <2>1. i + k \in DOMAIN s /\ j + k \in DOMAIN s /\ s[i + k] = s[j + k]
      BY <1>1, <1>2
  <2>2. i + k = j + k
      BY <2>1 DEF IsInjective
  <2> QED
      BY <1>1, <2>2
<1>3. ASSUME NEW x, Contains(t, x)
      PROVE  Contains(s, x) /\ \A j \in 1 .. k : x # s[j]
  <2>1. PICK j \in 1 .. Len(s) - k : x = s[j + k]
      BY <1>1, <1>3 DEF Contains
  <2> QED
      BY <2>1 DEF Contains, IsInjective
<1> QED
    BY <1>1, <1>2, <1>3 DEF t, IsInjective

(* How many of the timers: a place in the list. *)
LEMMA CountOfTimers ==
    ASSUME TimersOK, NEW T \in SUBSET DOMAIN timers
    PROVE  Cardinality(T) \in 0 .. Len(timers)
<1>1. DOMAIN timers = 1 .. Len(timers) /\ Len(timers) \in Nat
    BY DEF TimersOK
<1>2. IsFiniteSet(1 .. Len(timers)) /\ Cardinality(1 .. Len(timers)) = Len(timers)
    BY <1>1, FS_Interval
<1>3. IsFiniteSet(T) /\ Cardinality(T) <= Len(timers)
    BY <1>1, <1>2, FS_Subset
<1> QED
    BY <1>1, <1>3, FS_CardinalityType

-----------------------------------------------------------------------------
(* When the timers of a list run out: RunsOut is a fold over the list, here *)
(* shown to add up the waits from the first to each.                       *)

(* A set of numbers has a least one: the form of induction used below.      *)
LEMMA LeastNumber ==
    ASSUME NEW S \in SUBSET Nat, S # {}
    PROVE  \E n \in S : \A m \in S : n <= m
<1> DEFINE R == OpToRel(<, Nat)
<1>1. \A m, n \in Nat : m < n => <<m, n>> \in R
    BY DEF OpToRel
<1>2. \E n \in S : \A m \in S : <<m, n>> \notin R
    BY NatLessThanWellFounded, WFMin
<1> HIDE DEF R
<1>3. PICK n \in S : \A m \in S : <<m, n>> \notin R
    BY <1>2
<1>4. ASSUME NEW m \in S PROVE n <= m
  <2>1. m \in Nat /\ n \in Nat /\ ~(m < n)
      BY <1>1, <1>3
  <2> QED
      BY <2>1
<1> QED
    BY <1>4

(* What the fold in RunsOut iterates over: g[T] is the sum of the waits of  *)
(* the timers at the places in T.                                           *)
Sums(g, f, n) ==
    g = [T \in SUBSET (1 .. n) |-> IF T = {} THEN 0 ELSE g[T \ {Max(T)}] + f[Max(T)]]

LEMMA MaxIs ==
    ASSUME NEW n \in Nat, NEW T \in SUBSET (1 .. n), NEW k \in T, \A x \in T : x <= k
    PROVE  Max(T) = k
<1>1. \E x \in T : \A y \in T : x >= y
    OBVIOUS
<1>2. Max(T) \in T /\ \A y \in T : Max(T) >= y
    BY <1>1 DEF Max
<1>3. \A x \in T : x \in Int /\ x <= k
    OBVIOUS
<1>4. \A x \in T : x >= k => x = k
    BY <1>3
<1> HIDE DEF Max
<1> QED
    BY <1>2, <1>4

LEMMA MaxOfInterval ==
    ASSUME NEW n \in Nat, NEW k \in 1 .. n
    PROVE  Max(1 .. k) = k /\ (1 .. k) \ {k} = 1 .. k - 1
<1>1. 1 .. k \in SUBSET (1 .. n) /\ k \in 1 .. k /\ \A x \in 1 .. k : x <= k
    OBVIOUS
<1>2. Max(1 .. k) = k
    BY <1>1, MaxIs
<1>3. (1 .. k) \ {k} = 1 .. k - 1
    OBVIOUS
<1> QED
    BY <1>2, <1>3

LEMMA MaxIn ==
    ASSUME NEW n \in Nat, NEW T \in SUBSET (1 .. n), T # {}
    PROVE  Max(T) \in T /\ \A x \in T : x <= Max(T)
<1> DEFINE S == {k \in Nat : \A x \in T : x <= k}
<1>1. S \in SUBSET Nat /\ n \in S
    OBVIOUS
<1>2. PICK k \in S : \A m \in S : k <= m
    BY <1>1, LeastNumber
<1>3. k \in T
  <2>1. SUFFICES ASSUME k \notin T PROVE FALSE
      OBVIOUS
  <2>2. PICK x \in T : TRUE
      OBVIOUS
  <2>3. k - 1 \in S
      BY <1>2, <2>1, <2>2
  <2> QED
      BY <1>2, <2>3
<1> QED
    BY <1>2, <1>3, MaxIs

(* The recursion has a solution. *)
LEMMA SumsExist ==
    ASSUME NEW f, NEW n \in Nat
    PROVE  \E g : Sums(g, f, n)
<1> DEFINE Bad == {m \in Nat : ~\E g : Sums(g, f, m)}
<1>1. SUFFICES ASSUME Bad # {} PROVE FALSE
    OBVIOUS
<1>2. PICK m \in Bad : \A k \in Bad : m <= k
    BY <1>1, LeastNumber
<1>3. CASE m = 0
  <2> DEFINE g == [T \in SUBSET (1 .. 0) |-> 0]
  <2>1. SUBSET (1 .. 0) = {{}}
      OBVIOUS
  <2>2. Sums(g, f, 0)
      BY <2>1 DEF Sums
  <2> QED
      BY <1>2, <1>3, <2>2
<1>4. CASE m # 0
  <2>1. m - 1 \in Nat /\ m - 1 \notin Bad
      BY <1>2, <1>4
  <2>2. PICK h : Sums(h, f, m - 1)
      BY <2>1
  <2> DEFINE g == [T \in SUBSET (1 .. m) |->
                      IF m \in T THEN h[T \ {m}] + f[m] ELSE h[T]]
  <2>3. ASSUME NEW T \in SUBSET (1 .. m)
        PROVE  g[T] = IF T = {} THEN 0 ELSE g[T \ {Max(T)}] + f[Max(T)]
    <3>1. CASE m \in T
      <4>1. Max(T) = m
          BY <3>1, MaxIs
      <4>2. T \ {m} \in SUBSET (1 .. m) /\ m \notin T \ {m}
          OBVIOUS
      <4>3. g[T \ {m}] = h[T \ {m}] /\ g[T] = h[T \ {m}] + f[m]
          BY <3>1, <4>2
      <4> QED
          BY <3>1, <4>1, <4>3
    <3>2. CASE m \notin T
      <4>1. T \in SUBSET (1 .. m - 1) /\ g[T] = h[T]
          BY <1>2, <3>2
      <4>2. h[T] = IF T = {} THEN 0 ELSE h[T \ {Max(T)}] + f[Max(T)]
          BY <2>2, <4>1 DEF Sums
      <4>3. T # {} => g[T \ {Max(T)}] = h[T \ {Max(T)}]
          BY <3>2
      <4> QED
          BY <4>1, <4>2, <4>3
    <3> QED
        BY <3>1, <3>2
  <2>4. Sums(g, f, m)
    <3>1. g = [T \in SUBSET (1 .. m) |-> g[T]]
        OBVIOUS
    <3> HIDE DEF g
    <3> QED
        BY <2>3, <3>1 DEF Sums
  <2> QED
      BY <1>2, <2>4
<1> QED
    BY <1>3, <1>4

LEMMA FoldIsSums ==
    ASSUME NEW q \in Seq(Timer), NEW val, NEW i \in 0 .. Len(q)
    PROVE  \E g : Sums(g, [j \in 1 .. Len(q) |-> val[q[j]]], i) /\ RunsOut(q, val, i) = g[1 .. i]
<1> DEFINE p == SubSeq(q, 1, i)
           f == [j \in 1 .. Len(q) |-> val[q[j]]]
           D == DOMAIN p
           g == CHOOSE g : g = [T \in SUBSET D |->
                                  IF T = {} THEN 0 ELSE g[T \ {Max(T)}] + val[p[Max(T)]]]
<1>1. RunsOut(q, val, i) = g[D]
    BY DEF RunsOut, FoldLeft, MapThenFoldSet
<1>2. D = 1 .. i /\ \A j \in 1 .. i : p[j] = q[j]
    OBVIOUS
<1>0. i \in Nat
    OBVIOUS
<1>3. PICK h : Sums(h, f, i)
    BY <1>0, SumsExist
<1> HIDE DEF p, D
<1>4. \A T \in SUBSET D : T # {} => Max(T) \in D
    BY <1>0, <1>2, MaxIn
<1>5. \A T \in SUBSET D : T # {} => val[p[Max(T)]] = f[Max(T)]
    BY <1>2, <1>4
<1> HIDE DEF f
<1>6. \A e : e = [T \in SUBSET D |-> IF T = {} THEN 0 ELSE e[T \ {Max(T)}] + val[p[Max(T)]]]
             <=> Sums(e, f, i)
    BY <1>2, <1>5 DEF Sums
<1>7. \E e : e = [T \in SUBSET D |-> IF T = {} THEN 0 ELSE e[T \ {Max(T)}] + val[p[Max(T)]]]
    BY <1>3, <1>6
<1>8. g = [T \in SUBSET D |-> IF T = {} THEN 0 ELSE g[T \ {Max(T)}] + val[p[Max(T)]]]
    BY <1>7
<1> HIDE DEF g
<1>9. Sums(g, f, i)
    BY <1>6, <1>8
<1> QED
    BY <1>1, <1>2, <1>9 DEF f

LEMMA SumsOfIntervals ==
    ASSUME NEW n \in Nat, NEW f, NEW g, Sums(g, f, n)
    PROVE  g[1 .. 0] = 0 /\ \A k \in 1 .. n : g[1 .. k] = g[1 .. k - 1] + f[k]
<1>1. \A T \in SUBSET (1 .. n) : g[T] = IF T = {} THEN 0 ELSE g[T \ {Max(T)}] + f[Max(T)]
    BY DEF Sums
<1>2. 1 .. 0 = {} /\ 1 .. 0 \in SUBSET (1 .. n)
    OBVIOUS
<1>3. ASSUME NEW k \in 1 .. n PROVE g[1 .. k] = g[1 .. k - 1] + f[k]
  <2>1. Max(1 .. k) = k /\ (1 .. k) \ {k} = 1 .. k - 1
      BY MaxOfInterval
  <2>2. 1 .. k \in SUBSET (1 .. n) /\ 1 .. k # {}
      OBVIOUS
  <2> QED
      BY <1>1, <2>1, <2>2
<1> QED
    BY <1>1, <1>2, <1>3

(* W adds up the waits of the timers of s. *)
AddsUp(W, s, val) == W[0] = 0 /\ \A i \in 1 .. Len(s) : W[i] = W[i - 1] + val[s[i]]

LEMMA RunsOutIs ==
    ASSUME NEW s \in Seq(Timer), NEW val, NEW W, AddsUp(W, s, val), NEW i \in 0 .. Len(s)
    PROVE  RunsOut(s, val, i) = W[i]
<1> DEFINE f == [j \in 1 .. Len(s) |-> val[s[j]]]
<1>0. Len(s) \in Nat /\ i \in Nat /\ i <= Len(s)
    OBVIOUS
<1>1. PICK g : Sums(g, f, i) /\ RunsOut(s, val, i) = g[1 .. i]
    BY FoldIsSums
<1>2. \A j \in 1 .. Len(s) : f[j] = val[s[j]]
    OBVIOUS
<1> HIDE DEF f
<1>3. g[1 .. 0] = 0 /\ \A k \in 1 .. i : g[1 .. k] = g[1 .. k - 1] + f[k]
    BY <1>0, <1>1, SumsOfIntervals
<1> DEFINE Bad == {k \in Nat : k <= i /\ g[1 .. k] # W[k]}
<1>4. ASSUME Bad # {} PROVE FALSE
  <2>1. PICK k \in Bad : \A m \in Bad : k <= m
      BY <1>4, LeastNumber
  <2>2. k # 0
      BY <1>3, <2>1 DEF AddsUp
  <2>3. k - 1 \in Nat /\ k - 1 \notin Bad /\ k \in 1 .. i /\ k \in 1 .. Len(s)
      BY <1>0, <2>1, <2>2
  <2>4. g[1 .. k - 1] = W[k - 1]
      BY <2>1, <2>3
  <2>5. g[1 .. k] = g[1 .. k - 1] + f[k]
      BY <1>3, <2>3
  <2>6. W[k] = W[k - 1] + f[k]
      BY <1>2, <2>3 DEF AddsUp
  <2>7. g[1 .. k] # W[k]
      BY <2>1
  <2> QED
      BY <2>4, <2>5, <2>6, <2>7
<1>5. g[1 .. i] = W[i]
    BY <1>0, <1>4
<1> QED
    BY <1>1, <1>5

(* The time a timer runs out is that of the one before it, and its own wait. *)
LEMMA RunsOutAddsUp ==
    ASSUME NEW s \in Seq(Timer), NEW val \in [Timer -> Int]
    PROVE  /\ RunsOut(s, val, 0) = 0
           /\ \A i \in 0 .. Len(s) : RunsOut(s, val, i) \in Int
           /\ \A i \in 1 .. Len(s) : RunsOut(s, val, i) = RunsOut(s, val, i - 1) + val[s[i]]
<1> DEFINE f == [j \in 1 .. Len(s) |-> val[s[j]]]
<1>0. Len(s) \in Nat /\ Len(s) \in 0 .. Len(s) /\ \A j \in 1 .. Len(s) : val[s[j]] \in Int
    OBVIOUS
<1>1. PICK g : Sums(g, f, Len(s))
    BY <1>0, FoldIsSums
<1>2. \A j \in 1 .. Len(s) : f[j] = val[s[j]]
    OBVIOUS
<1> HIDE DEF f
<1>3. g[1 .. 0] = 0 /\ \A k \in 1 .. Len(s) : g[1 .. k] = g[1 .. k - 1] + f[k]
    BY <1>0, <1>1, SumsOfIntervals
<1> DEFINE W == [k \in 0 .. Len(s) |-> g[1 .. k]]
<1>4. W[0] = 0 /\ \A i \in 1 .. Len(s) : W[i] = W[i - 1] + val[s[i]]
  <2>1. W[0] = 0
      BY <1>0, <1>3
  <2>2. ASSUME NEW i \in 1 .. Len(s) PROVE W[i] = W[i - 1] + val[s[i]]
    <3>1. i \in 0 .. Len(s) /\ i - 1 \in 0 .. Len(s)
        BY <1>0
    <3>2. W[i] = g[1 .. i] /\ W[i - 1] = g[1 .. i - 1]
        BY <3>1
    <3> QED
        BY <1>2, <1>3, <3>2
  <2> QED
      BY <2>1, <2>2
<1> HIDE DEF W
<1>5. \A i \in 0 .. Len(s) : RunsOut(s, val, i) = W[i]
  <2>1. AddsUp(W, s, val)
      BY <1>4 DEF AddsUp
  <2> QED
      BY <2>1, RunsOutIs
<1> DEFINE Bad == {k \in Nat : k <= Len(s) /\ W[k] \notin Int}
<1>6. ASSUME Bad # {} PROVE FALSE
  <2>1. PICK k \in Bad : \A m \in Bad : k <= m
      BY <1>6, LeastNumber
  <2>2. k # 0
      BY <1>4, <2>1
  <2>3. k - 1 \in Nat /\ k - 1 \notin Bad /\ k \in 1 .. Len(s)
      BY <1>0, <2>1, <2>2
  <2> QED
      BY <1>0, <1>4, <2>1, <2>3
<1>7. \A i \in 0 .. Len(s) : W[i] \in Int
    BY <1>0, <1>6
<1>8. \A i \in 1 .. Len(s) : i \in 0 .. Len(s) /\ i - 1 \in 0 .. Len(s)
    BY <1>0
<1>9. 0 \in 0 .. Len(s)
    BY <1>0
<1> QED
    BY <1>4, <1>5, <1>7, <1>8, <1>9

(* A later timer does not run out before an earlier one. *)
LEMMA RunsOutGrows ==
    ASSUME NEW s \in Seq(Timer), NEW val \in [Timer -> Nat],
           NEW i \in 0 .. Len(s), NEW j \in 0 .. Len(s), i <= j
    PROVE  RunsOut(s, val, i) <= RunsOut(s, val, j)
<1> DEFINE W(k) == RunsOut(s, val, k)
<1>0. Len(s) \in Nat /\ val \in [Timer -> Int] /\ \A k \in 1 .. Len(s) : val[s[k]] \in Nat
    OBVIOUS
<1>1. /\ \A k \in 0 .. Len(s) : W(k) \in Int
      /\ \A k \in 1 .. Len(s) : W(k) = W(k - 1) + val[s[k]]
    BY <1>0, RunsOutAddsUp
<1> HIDE DEF W
<1> DEFINE Bad == {k \in Nat : i <= k /\ k <= Len(s) /\ ~(W(i) <= W(k))}
<1>2. ASSUME Bad # {} PROVE FALSE
  <2>1. PICK k \in Bad : \A m \in Bad : k <= m
      BY <1>2, LeastNumber
  <2>2. k # i
      BY <1>1, <2>1
  <2>3. k - 1 \in Nat /\ k - 1 \notin Bad /\ k \in 1 .. Len(s) /\ i <= k - 1 /\ k - 1 <= Len(s)
      BY <1>0, <2>1, <2>2
  <2>4. W(i) <= W(k - 1)
      BY <2>3
  <2>5. W(k) = W(k - 1) + val[s[k]] /\ val[s[k]] \in Nat /\ W(k - 1) \in Int /\ W(i) \in Int
      BY <1>0, <1>1, <2>3
  <2>6. ~(W(i) <= W(k))
      BY <2>1
  <2> QED
      BY <2>4, <2>5, <2>6
<1> QED
    BY <1>0, <1>2 DEF W

(* A set of places that holds all places before those it holds. *)
LEMMA FirstPlaces ==
    ASSUME NEW n \in Nat, NEW T \in SUBSET (1 .. n), \A i \in T : 1 .. i \subseteq T
    PROVE  Cardinality(T) \in 0 .. n /\ T = 1 .. Cardinality(T)
<1> DEFINE Out == {m \in Nat : m >= 1 /\ m \notin T}
<1>1. PICK m \in Out : \A k \in Out : m <= k
  <2>1. n + 1 \in Out
      OBVIOUS
  <2> QED
      BY <2>1, LeastNumber
<1>2. T = 1 .. m - 1
  <2>1. ASSUME NEW i \in T PROVE i \in 1 .. m - 1
    <3>1. m \notin 1 .. i
        BY <1>1
    <3> QED
        BY <1>1, <3>1
  <2>2. ASSUME NEW i \in 1 .. m - 1 PROVE i \in T
      BY <1>1
  <2> QED
      BY <2>1, <2>2
<1>3. m - 1 \in 0 .. n
  <2>1. m <= n + 1
      BY <1>1
  <2> QED
      BY <1>1, <2>1
<1>4. Cardinality(1 .. m - 1) = m - 1
    BY <1>3, FS_Interval
<1> QED
    BY <1>2, <1>3, <1>4

-----------------------------------------------------------------------------
(* What the three operations do to the list.                                *)

LEMMA SetStep ==
    ASSUME TimersOK, NEW t \in Timer, NEW v, osSetTimer(t, v)
    PROVE  \/ Active(t) /\ timers' = timers
           \/ /\ ~Active(t) /\ TimersOK' /\ damaged' = damaged
              /\ \A u : Contains(timers', u) => u = t \/ Active(u)
<1>1. CASE Active(t)
    BY <1>1 DEF osSetTimer
<1>2. CASE ~Active(t)
  <2>1. PICK val : timers' = InsertAt(timers, Place(val, v), t)
      BY <1>2 DEF osSetTimer, __osInsertTimer, __osSetTimerIntr
  <2>2. damaged' = damaged
      BY <1>2 DEF osSetTimer
  <2>3. Place(val, v) \in 1 .. Len(timers) + 1
    <3> DEFINE T == {i \in DOMAIN timers : RunsOut(timers, val, i) < v}
    <3>1. Cardinality(T) \in 0 .. Len(timers)
        BY CountOfTimers
    <3>2. Len(timers) \in Nat
        BY DEF TimersOK
    <3> QED
        BY <3>1, <3>2 DEF Place
  <2> QED
      BY <1>2, <2>1, <2>2, <2>3, Inserted DEF TimersOK, Active
<1> QED
    BY <1>1, <1>2

LEMMA StopStep ==
    ASSUME TimersOK, NEW t, osStopTimer(t)
    PROVE  TimersOK' /\ damaged' = damaged /\ \A u : Contains(timers', u) => Active(u)
<1>1. CASE UNCHANGED listVars
    BY <1>1 DEF listVars, TimersOK, Active
<1>2. ASSUME NEW i \in DOMAIN timers, timers' = RemoveAt(timers, i), damaged' = damaged
      PROVE  TimersOK' /\ damaged' = damaged /\ \A u : Contains(timers', u) => Active(u)
    BY <1>2, Removed DEF TimersOK, Active
<1> QED
    BY <1>1, <1>2 DEF osStopTimer, osStopTimer_Test, osStopTimer_Remove, osStopTimer_Fault

LEMMA InterruptStep ==
    ASSUME TimersOK, __osTimerInterrupt
    PROVE  /\ TimersOK' /\ damaged' = damaged
           /\ \A u : Contains(timers', u) => Active(u)
           /\ \A u \in SentBy(Expired) : Active(u) /\ ~Contains(timers', u)
<1>1. damaged' = damaged
    BY DEF __osTimerInterrupt
<1>2. Expired \in 0 .. Len(timers)
  <2> DEFINE T == {i \in DOMAIN timers : RunsOut(timers, value, i) = value[timers[1]]}
  <2>1. Cardinality(T) \in 0 .. Len(timers)
      BY CountOfTimers
  <2>2. Len(timers) \in Nat
      BY DEF TimersOK
  <2> QED
      BY <2>1, <2>2 DEF Expired
<1>3. timers' = SubSeq(timers, Expired + 1, Len(timers))
  <2>1. CASE Expired = 0
    <3>1. timers' = timers
        BY <2>1 DEF __osTimerInterrupt, __osSetTimerIntr
    <3>2. SubSeq(timers, 1, Len(timers)) = timers
        BY DEF TimersOK
    <3> QED
        BY <2>1, <3>1, <3>2
  <2>2. CASE Expired # 0
      BY <2>2 DEF __osTimerInterrupt, __osSetTimerIntr
  <2> QED
      BY <2>1, <2>2
<1>4. /\ TimersOK'
      /\ \A u : Contains(timers', u) => Active(u) /\ \A j \in 1 .. Expired : u # timers[j]
    BY <1>2, <1>3, Dropped DEF TimersOK, Active
<1>5. \A j \in 1 .. Expired : Active(timers[j])
    BY <1>2 DEF TimersOK, Active, Contains
<1> QED
    BY <1>1, <1>4, <1>5 DEF SentBy

-----------------------------------------------------------------------------
(* No timer runs out early.  The waits in the list and what is due of each  *)
(* timer are followed through each operation.                              *)

StopCalls == [Timer -> {"none", "tested", "fault"}]

TimersInv == TimersTypeOK /\ NeverEarly /\ \A t \in Timer : ~Active(t) => due[t] = 0

LEMMA StillDue ==
    ASSUME NEW W, timers' \in Seq(Timer), AddsUp(W, timers', value'),
           \A i \in 1 .. Len(timers') :
               due'[timers'[i]] > 0 => W[i] - elapsed' >= due'[timers'[i]]
    PROVE  NeverEarly'
<1>1. ASSUME NEW i \in DOMAIN timers' PROVE RunsOut(timers', value', i) = W[i]
  <2>1. i \in 0 .. Len(timers')
      OBVIOUS
  <2> QED
      BY <2>1, RunsOutIs
<1>2. DOMAIN timers' = 1 .. Len(timers')
    OBVIOUS
<1> QED
    BY <1>1, <1>2 DEF NeverEarly

(* What has passed is taken off the first wait: nothing runs out earlier.    *)
LEMMA SettledDue ==
    ASSUME TimersInv
    PROVE  /\ Settled \in [Timer -> Nat]
           /\ \A i \in 1 .. Len(timers) :
                  due[timers[i]] > 0 => RunsOut(timers, Settled, i) >= due[timers[i]]
<1>0. /\ timers \in Seq(Timer) /\ value \in [Timer -> Nat] /\ elapsed \in Nat /\ due \in [Timer -> Nat]
      /\ value \in [Timer -> Int] /\ Len(timers) \in Nat
      /\ \A i, j \in 1 .. Len(timers) : timers[i] = timers[j] => i = j
    BY DEF TimersInv, TimersTypeOK, IsInjective
<1>1. CASE timers = <<>>
    BY <1>0, <1>1 DEF Settled
<1>2. CASE timers # <<>>
  <2> DEFINE f == timers[1]
             rest == IF elapsed < value[f] THEN value[f] - elapsed ELSE 1
             W == [i \in 0 .. Len(timers) |->
                      IF i = 0 THEN 0 ELSE RunsOut(timers, value, i) - value[f] + rest]
  <2>1. 1 \in 1 .. Len(timers) /\ f \in Timer
      BY <1>0, <1>2
  <2>2. rest \in Nat /\ rest >= value[f] - elapsed
      BY <1>0, <2>1
  <2>3. /\ Settled = [value EXCEPT ![f] = rest]
        /\ Settled \in [Timer -> Nat] /\ Settled[f] = rest
        /\ \A t \in Timer \ {f} : Settled[t] = value[t]
      BY <1>0, <1>2, <2>1, <2>2 DEF Settled
  <2> HIDE DEF rest
  <2>4. /\ RunsOut(timers, value, 0) = 0
        /\ \A i \in 0 .. Len(timers) : RunsOut(timers, value, i) \in Int
        /\ \A i \in 1 .. Len(timers) :
               RunsOut(timers, value, i) = RunsOut(timers, value, i - 1) + value[timers[i]]
      BY <1>0, RunsOutAddsUp
  <2>5. ASSUME NEW i \in 1 .. Len(timers) PROVE W[i] = W[i - 1] + Settled[timers[i]]
    <3>1. i \in 0 .. Len(timers) /\ i - 1 \in 0 .. Len(timers)
        BY <1>0
    <3>2. timers[i] \in Timer /\ value[timers[i]] \in Nat /\ value[f] \in Nat
        BY <1>0, <2>1
    <3>3. RunsOut(timers, value, i) = RunsOut(timers, value, i - 1) + value[timers[i]]
        BY <2>4
    <3>4. RunsOut(timers, value, i - 1) \in Int
        BY <2>4, <3>1
    <3>5. CASE i = 1
      <4>1. RunsOut(timers, value, 1) = value[f]
          BY <2>4, <3>2, <3>3, <3>5
      <4> QED
          BY <1>0, <2>1, <2>2, <2>3, <3>1, <3>2, <3>5, <4>1
    <3>6. CASE i # 1
      <4>1. timers[i] # f /\ i - 1 # 0
          BY <1>0, <2>1, <3>6
      <4> QED
          BY <2>2, <2>3, <3>1, <3>2, <3>3, <3>4, <4>1
    <3> QED
        BY <3>5, <3>6
  <2>6. W[0] = 0
      BY <1>0
  <2>7. \A i \in 1 .. Len(timers) : W[i] = RunsOut(timers, value, i) - value[f] + rest
      BY <1>0
  <2> HIDE DEF W
  <2>8. \A i \in 0 .. Len(timers) : RunsOut(timers, Settled, i) = W[i]
    <3>1. AddsUp(W, timers, Settled)
        BY <2>5, <2>6 DEF AddsUp
    <3> QED
        BY <1>0, <3>1, RunsOutIs
  <2>9. ASSUME NEW i \in 1 .. Len(timers), due[timers[i]] > 0
        PROVE  RunsOut(timers, Settled, i) >= due[timers[i]]
    <3>1. RunsOut(timers, value, i) - elapsed >= due[timers[i]]
        BY <1>0, <2>9 DEF TimersInv, NeverEarly
    <3>2. i \in 0 .. Len(timers) /\ due[timers[i]] \in Nat /\ value[f] \in Nat
        BY <1>0, <2>1
    <3> DEFINE r == RunsOut(timers, value, i)
    <3>3. r \in Int
        BY <2>4, <3>2
    <3>4. RunsOut(timers, Settled, i) = r - value[f] + rest
        BY <2>7, <2>8, <3>2
    <3> HIDE DEF r
    <3>5. rest \in Nat /\ value[f] \in Nat /\ due[timers[i]] \in Nat /\ elapsed \in Nat
        BY <1>0, <2>2, <3>2
    <3>6. r - elapsed >= due[timers[i]]
        BY <3>1 DEF r
    <3>7. r - value[f] + rest >= due[timers[i]]
        BY <2>2, <3>3, <3>5, <3>6
    <3> QED
        BY <3>4, <3>7
  <2> QED
      BY <2>3, <2>9
<1> QED
    BY <1>1, <1>2

(* The timers that run out before v are the first of the list. *)
LEMMA PlaceIs ==
    ASSUME TimersInv, NEW val \in [Timer -> Nat], NEW v \in Nat \ {0}
    PROVE  /\ Place(val, v) \in 1 .. Len(timers) + 1
           /\ RunsOut(timers, val, Place(val, v) - 1) < v
           /\ Place(val, v) <= Len(timers) => RunsOut(timers, val, Place(val, v)) >= v
<1> DEFINE R(i) == RunsOut(timers, val, i)
           T == {i \in DOMAIN timers : R(i) < v}
           n == Len(timers)
<1>0. timers \in Seq(Timer) /\ n \in Nat /\ DOMAIN timers = 1 .. n /\ val \in [Timer -> Int]
    BY DEF TimersInv, TimersTypeOK
<1>1. R(0) = 0 /\ \A i \in 0 .. n : R(i) \in Int
    BY <1>0, RunsOutAddsUp
<1>2. \A i, j \in 0 .. n : i <= j => R(i) <= R(j)
    BY <1>0, RunsOutGrows
<1>3. Place(val, v) = Cardinality(T) + 1
    BY DEF Place
<1> HIDE DEF R
<1>4. T \in SUBSET (1 .. n) /\ \A i \in T : 1 .. i \subseteq T
    BY <1>0, <1>1, <1>2
<1>5. PICK c \in 0 .. n : Cardinality(T) = c /\ T = 1 .. c
    BY <1>0, <1>4, FirstPlaces
<1>6. R(c) < v
  <2>1. CASE c = 0
      BY <1>1, <2>1
  <2>2. CASE c # 0
    <3>1. c \in T
        BY <1>5, <2>2
    <3> QED
        BY <3>1
  <2> QED
      BY <2>1, <2>2
<1>7. ASSUME c + 1 <= n PROVE R(c + 1) >= v
  <2>1. c + 1 \in DOMAIN timers /\ c + 1 \notin 1 .. c /\ c + 1 \in 0 .. n
      BY <1>0, <1>7
  <2>2. ~(R(c + 1) < v)
      BY <1>5, <2>1
  <2>3. R(c + 1) \in Int
      BY <1>1, <2>1
  <2> QED
      BY <2>2, <2>3
<1> HIDE DEF T
<1>8. Place(val, v) = c + 1 /\ c + 1 - 1 = c /\ c + 1 \in 1 .. n + 1
    BY <1>0, <1>3, <1>5
<1> QED
    BY <1>6, <1>7, <1>8 DEF R

LEMMA SetKeeps ==
    ASSUME TimersInv, NEW t \in Timer, NEW v \in Nat \ {0}, osSetTimer(t, v), ~Active(t)
    PROVE  TimersInv' /\ due' = [due EXCEPT ![t] = v]
<1> DEFINE val == Settled
           R(i) == RunsOut(timers, val, i)
           n == Len(timers)
           p == Place(val, v)
           wait == v - R(p - 1)
           after == IF p > n THEN val ELSE [val EXCEPT ![timers[p]] = @ - wait]
<1>0. /\ timers \in Seq(Timer) /\ n \in Nat /\ DOMAIN timers = 1 .. n /\ due \in [Timer -> Nat]
      /\ \A i, j \in 1 .. n : timers[i] = timers[j] => i = j
      /\ \A i \in 1 .. n : timers[i] \in Timer
      /\ IsInjective(timers) /\ damaged \in BOOLEAN /\ stopCall \in StopCalls
    BY DEF TimersInv, TimersTypeOK, IsInjective, StopCalls
<1>1. /\ due' = [due EXCEPT ![t] = v] /\ damaged' = damaged /\ stopCall' = stopCall
      /\ __osSetTimerIntr(InsertAt(timers, p, t), [after EXCEPT ![t] = wait])
    BY DEF osSetTimer, __osInsertTimer
<1>2. /\ timers' = InsertAt(timers, p, t) /\ value' = [after EXCEPT ![t] = wait] /\ elapsed' = 0
      /\ left' = IF timers' = <<>> THEN 0
                 ELSE IF value'[timers'[1]] < MinWait THEN MinWait ELSE value'[timers'[1]]
    BY <1>1 DEF __osSetTimerIntr
<1>3. /\ val \in [Timer -> Nat]
      /\ \A i \in 1 .. n : due[timers[i]] > 0 => R(i) >= due[timers[i]]
    BY SettledDue
<1> HIDE DEF val
<1>4. p \in 1 .. n + 1 /\ R(p - 1) < v /\ (p <= n => R(p) >= v)
    BY <1>3, PlaceIs
<1>5. /\ R(0) = 0 /\ \A i \in 0 .. n : R(i) \in Int
      /\ \A i \in 1 .. n : R(i) = R(i - 1) + val[timers[i]]
    BY <1>0, <1>3, RunsOutAddsUp, SMTT(40)
<1> HIDE DEF R, p
<1>6. wait \in Nat /\ wait = v - R(p - 1)
  <2>1. p - 1 \in 0 .. n
      BY <1>0, <1>4
  <2> QED
      BY <1>4, <1>5, <2>1
<1> HIDE DEF wait
<1>7. /\ after \in [Timer -> Nat]
      /\ p <= n => after[timers[p]] = val[timers[p]] - wait
      /\ \A i \in 1 .. n : i # p => after[timers[i]] = val[timers[i]]
  <2>1. CASE p > n
      BY <1>0, <1>3, <1>4, <2>1
  <2>2. CASE p <= n
    <3>1. p \in 1 .. n /\ timers[p] \in Timer /\ p - 1 \in 0 .. n
        BY <1>0, <1>4, <2>2
    <3>2. val[timers[p]] \in Nat /\ R(p - 1) \in Int /\ R(p) = R(p - 1) + val[timers[p]]
        BY <1>3, <1>5, <3>1
    <3>3. val[timers[p]] - wait \in Nat
        BY <1>4, <1>6, <2>2, <3>2
    <3>4. after = [val EXCEPT ![timers[p]] = val[timers[p]] - wait]
        BY <1>0, <1>4, <2>2
    <3> HIDE DEF after
    <3>5. after \in [Timer -> Nat] /\ after[timers[p]] = val[timers[p]] - wait
        BY <1>3, <3>1, <3>3, <3>4
    <3>6. \A i \in 1 .. n : i # p => timers[i] # timers[p]
        BY <1>0, <3>1
    <3>7. \A i \in 1 .. n : i # p => after[timers[i]] = val[timers[i]]
        BY <1>0, <1>3, <3>4, <3>6
    <3> QED
        BY <3>5, <3>7
  <2> QED
      BY <1>0, <1>4, <2>1, <2>2
<1> HIDE DEF after
<1>8. /\ value' \in [Timer -> Nat] /\ value'[t] = wait
      /\ \A i \in 1 .. n : value'[timers[i]] = after[timers[i]]
  <2>1. \A i \in 1 .. n : timers[i] # t
      BY <1>0 DEF Active, Contains
  <2> QED
      BY <1>0, <1>2, <1>6, <1>7, <2>1
<1>9. PutInAt(Timer, timers', timers, p, t)
    BY <1>0, <1>2, <1>4, InsertAtIs
<1>10. /\ timers' \in Seq(Timer) /\ Len(timers') = n + 1
       /\ \A i \in 1 .. n + 1 :
              timers'[i] = IF i < p THEN timers[i] ELSE IF i = p THEN t ELSE timers[i - 1]
    BY <1>9 DEF PutInAt
<1> DEFINE W == [i \in 0 .. n + 1 |-> IF i < p THEN R(i) ELSE IF i = p THEN v ELSE R(i - 1)]
<1>11. ASSUME NEW i \in 1 .. n + 1 PROVE W[i] = W[i - 1] + value'[timers'[i]]
  <2>0. i \in 0 .. n + 1 /\ i - 1 \in 0 .. n + 1 /\ p \in Nat
      BY <1>0, <1>4
  <2>1. CASE i < p
    <3>1. i \in 1 .. n /\ i # p /\ i - 1 < p
        BY <1>0, <1>4, <2>0, <2>1
    <3>2. value'[timers'[i]] = val[timers[i]]
        BY <1>7, <1>8, <1>10, <2>1, <3>1
    <3> QED
        BY <1>5, <2>0, <2>1, <3>1, <3>2
  <2>2. CASE i = p
    <3>1. W[i] = v /\ W[i - 1] = R(p - 1) /\ R(p - 1) \in Int
        BY <1>0, <1>4, <1>5, <2>0, <2>2
    <3>2. value'[timers'[i]] = v - R(p - 1)
        BY <1>6, <1>8, <1>10, <2>2
    <3> QED
        BY <3>1, <3>2
  <2>3. CASE i = p + 1
    <3>1. p \in 1 .. n /\ p <= n /\ i - 1 = p /\ ~(i < p) /\ i # p /\ p - 1 \in 0 .. n
        BY <1>0, <1>4, <2>0, <2>3
    <3>2. W[i] = R(p) /\ W[i - 1] = v
        BY <2>0, <3>1
    <3>3. value'[timers'[i]] = val[timers[p]] - wait
        BY <1>7, <1>8, <1>10, <3>1
    <3>4. R(p) = R(p - 1) + val[timers[p]] /\ R(p - 1) \in Int /\ val[timers[p]] \in Nat
        BY <1>0, <1>3, <1>5, <3>1
    <3> QED
        BY <1>6, <3>2, <3>3, <3>4
  <2>4. CASE i > p + 1
    <3>1. /\ i - 1 \in 1 .. n /\ i - 1 # p /\ ~(i < p) /\ i # p /\ ~(i - 1 < p)
          /\ i - 1 - 1 \in 0 .. n
        BY <1>0, <1>4, <2>0, <2>4
    <3>2. W[i] = R(i - 1) /\ W[i - 1] = R(i - 1 - 1)
        BY <2>0, <3>1
    <3>3. value'[timers'[i]] = val[timers[i - 1]]
        BY <1>7, <1>8, <1>10, <3>1
    <3> QED
        BY <1>5, <3>1, <3>2, <3>3
  <2> QED
      BY <2>0, <2>1, <2>2, <2>3, <2>4
<1>12. W[0] = 0
    BY <1>0, <1>4, <1>5
<1>13. AddsUp(W, timers', value')
  <2> HIDE DEF W
  <2> QED
      BY <1>10, <1>11, <1>12 DEF AddsUp
<1>14. due' \in [Timer -> Nat] /\ due'[t] = v /\ \A u \in Timer \ {t} : due'[u] = due[u]
    BY <1>0, <1>1
<1>15. ASSUME NEW i \in 1 .. Len(timers'), due'[timers'[i]] > 0
       PROVE  W[i] - elapsed' >= due'[timers'[i]]
  <2>0. i \in 0 .. n + 1 /\ i \in 1 .. n + 1 /\ p \in Nat /\ elapsed' = 0
      BY <1>0, <1>2, <1>4, <1>10
  <2>1. CASE i = p
      BY <1>10, <1>14, <2>0, <2>1
  <2>2. CASE i # p
    <3> DEFINE j == IF i < p THEN i ELSE i - 1
    <3>1. j \in 1 .. n /\ W[i] = R(j) /\ timers'[i] = timers[j]
        BY <1>0, <1>4, <1>10, <2>0, <2>2
    <3> HIDE DEF j
    <3>2. timers[j] # t /\ timers[j] \in Timer
        BY <1>0, <3>1 DEF Active, Contains
    <3>3. R(j) >= due[timers[j]] /\ due'[timers'[i]] = due[timers[j]]
        BY <1>3, <1>14, <1>15, <3>1, <3>2
    <3>4. R(j) \in Int /\ due[timers[j]] \in Nat
        BY <1>0, <1>5, <3>1, <3>2
    <3> QED
        BY <2>0, <3>1, <3>3, <3>4
  <2> QED
      BY <2>1, <2>2
<1> HIDE DEF W
<1>16. NeverEarly'
    BY <1>10, <1>13, <1>15, StillDue
<1>17. IsInjective(timers')
    BY <1>0, <1>2, <1>4, Inserted DEF Active
<1>18. left' \in Int
  <2>1. timers' # <<>> => timers'[1] \in Timer
      BY <1>10
  <2>2. timers' # <<>> => value'[timers'[1]] \in Nat
      BY <1>8, <2>1
  <2> QED
      BY <1>2, <2>2, TimersAssumption
<1>19. \A u \in Timer : ~Active(u)' => due'[u] = 0
  <2>1. ASSUME NEW i \in 1 .. n PROVE \E j \in 1 .. n + 1 : timers'[j] = timers[i]
    <3>2. CASE i < p
      <4>1. i \in 1 .. n + 1 /\ timers'[i] = timers[i]
          BY <1>0, <1>10, <3>2
      <4> QED
          BY <4>1
    <3>3. CASE i >= p
      <4>1. i + 1 \in 1 .. n + 1 /\ ~(i + 1 < p) /\ i + 1 # p /\ i + 1 - 1 = i
          BY <1>0, <1>4, <3>3
      <4>2. timers'[i + 1] = timers[i]
          BY <1>10, <4>1
      <4> QED
          BY <4>1, <4>2
    <3> QED
        BY <1>4, <3>2, <3>3
  <2>2. p \in 1 .. n + 1 /\ timers'[p] = t
      BY <1>0, <1>4, <1>10
  <2>3. TAKE u \in Timer
  <2>4. CASE u = t
      BY <2>2, <2>4, <1>10 DEF Active, Contains
  <2>5. CASE u # t
    <3>1. Active(u) => Active(u)'
      <4>1. ASSUME NEW i \in 1 .. n, timers[i] = u PROVE \E j \in 1 .. n + 1 : timers'[j] = u
          BY <2>1, <4>1
      <4> QED
          BY <1>10, <4>1 DEF Active, Contains
    <3>2. ~Active(u) => due[u] = 0
        BY DEF TimersInv
    <3> QED
        BY <1>14, <2>5, <3>1, <3>2
  <2> QED
      BY <2>4, <2>5
<1> QED
    BY <1>0, <1>1, <1>2, <1>8, <1>10, <1>14, <1>16, <1>17, <1>18, <1>19
    DEF TimersInv, TimersTypeOK, StopCalls

(* A timer set while it is in the list (damaged) leaves the model's list as *)
(* it is, and so does the test of osStopTimer.                              *)
LEMMA TimersUnchanged ==
    ASSUME TimersInv, UNCHANGED <<timers, value, elapsed, left, due>>, damaged' \in BOOLEAN,
           stopCall' \in StopCalls
    PROVE  TimersInv'
BY DEF TimersInv, TimersTypeOK, StopCalls, NeverEarly, Active

(* The wait of a timer that is taken out goes to the next. *)
LEMMA StopKeeps ==
    ASSUME TimersInv, NEW t \in Timer, osStopTimer(t)
    PROVE  TimersInv'
<1> DEFINE n == Len(timers)
           R(i) == RunsOut(timers, value, i)
<1>0. /\ timers \in Seq(Timer) /\ n \in Nat /\ DOMAIN timers = 1 .. n /\ due \in [Timer -> Nat]
      /\ \A i, j \in 1 .. n : timers[i] = timers[j] => i = j
      /\ \A i \in 1 .. n : timers[i] \in Timer
      /\ value \in [Timer -> Nat] /\ value \in [Timer -> Int] /\ elapsed \in Nat /\ left \in Int
      /\ IsInjective(timers) /\ damaged \in BOOLEAN /\ n = Len(timers)
    BY SMTT(40) DEF TimersInv, TimersTypeOK, IsInjective
<1> HIDE DEF n
<1>1. CASE UNCHANGED listVars /\ stopCall' \in StopCalls
    BY <1>0, <1>1, TimersUnchanged DEF listVars
<1>2. ASSUME NEW p \in 1 .. n, timers[p] = t, timers' = RemoveAt(timers, p), value' = HandedOn(p),
             elapsed' = IF timers' = <<>> THEN 0 ELSE elapsed,
             left' = IF timers' = <<>> THEN 0 ELSE left,
             due' = [due EXCEPT ![t] = 0], damaged' = damaged, stopCall' \in StopCalls
      PROVE  TimersInv'
  <2>0. p \in Nat /\ 1 <= p /\ p <= n /\ n \in Nat
      BY <1>0
  <2>1. TakenOutAt(Timer, timers', timers, p)
      BY <1>0, <1>2, RemoveAtIs
  <2>2. /\ timers' \in Seq(Timer) /\ Len(timers') = n - 1
        /\ \A i \in 1 .. n - 1 : timers'[i] = IF i < p THEN timers[i] ELSE timers[i + 1]
      BY <1>0, <2>1 DEF TakenOutAt
  <2>3. IsInjective(timers')
      BY <1>0, <1>2, Removed
  <2>4. /\ value' \in [Timer -> Nat]
        /\ p < n => value'[timers[p + 1]] = value[timers[p + 1]] + value[t]
        /\ \A i \in 1 .. n : i # p + 1 => value'[timers[i]] = value[timers[i]]
    <3>1. CASE p = n
        BY <1>0, <1>2, <2>0, <3>1 DEF HandedOn
    <3>2. CASE p # n
      <4>0. p + 1 \in 1 .. n /\ p < n
          BY <2>0, <3>2
      <4>1. timers[p + 1] \in Timer
          BY <1>0, <4>0
      <4>2. value' = [value EXCEPT ![timers[p + 1]] = value[timers[p + 1]] + value[t]]
          BY <1>0, <1>2, <3>2 DEF HandedOn
      <4>3. \A i \in 1 .. n : i # p + 1 => timers[i] # timers[p + 1]
          BY <1>0, <4>0
      <4>4. value[timers[p + 1]] + value[t] \in Nat
          BY <1>0, <4>1, SMTT(40)
      <4> QED
          BY <1>0, <4>0, <4>1, <4>2, <4>3, <4>4
    <3> QED
        BY <3>1, <3>2
  <2>5. /\ R(0) = 0 /\ \A i \in 0 .. n : R(i) \in Int
        /\ \A i \in 1 .. n : R(i) = R(i - 1) + value[timers[i]]
      BY <1>0, RunsOutAddsUp
  <2> DEFINE W == [i \in 0 .. n - 1 |-> IF i < p THEN R(i) ELSE R(i + 1)]
  <2>6. \A i \in 1 .. n : due[timers[i]] > 0 => R(i) - elapsed >= due[timers[i]]
      BY <1>0 DEF TimersInv, NeverEarly
  <2> HIDE DEF R
  <2>7. ASSUME NEW i \in 1 .. n - 1 PROVE W[i] = W[i - 1] + value'[timers'[i]]
    <3>0. i \in 0 .. n - 1 /\ i - 1 \in 0 .. n - 1 /\ p \in Nat /\ i \in 1 .. n
        BY <1>0
    <3>1. CASE i < p
      <4>1. W[i] = R(i) /\ W[i - 1] = R(i - 1) /\ i # p + 1
          BY <3>0, <3>1
      <4>2. value'[timers'[i]] = value[timers[i]]
          BY <2>2, <2>4, <3>0, <3>1, <4>1
      <4> QED
          BY <2>5, <3>0, <4>1, <4>2
    <3>2. CASE i = p
      <4>1. /\ W[i] = R(p + 1) /\ W[i - 1] = R(p - 1) /\ p < n /\ p + 1 \in 1 .. n
            /\ ~(i < p) /\ p - 1 \in 0 .. n /\ p + 1 - 1 = p /\ timers[p + 1] \in Timer
          BY <1>0, <3>0, <3>2
      <4>2. value'[timers'[i]] = value[timers[p + 1]] + value[t]
          BY <2>2, <2>4, <3>2, <4>1
      <4>3. /\ R(p + 1) = R(p) + value[timers[p + 1]] /\ R(p) = R(p - 1) + value[t]
            /\ R(p - 1) \in Int /\ value[t] \in Nat /\ value[timers[p + 1]] \in Nat
          BY <1>0, <1>2, <2>5, <4>1
      <4> QED
          BY <4>1, <4>2, <4>3
    <3>3. CASE i > p
      <4>1. /\ W[i] = R(i + 1) /\ W[i - 1] = R(i) /\ i + 1 \in 1 .. n /\ i + 1 - 1 = i
            /\ ~(i < p) /\ i + 1 # p + 1
          BY <1>0, <3>0, <3>3
      <4>2. value'[timers'[i]] = value[timers[i + 1]]
          BY <2>2, <2>4, <4>1
      <4>3. R(i + 1) = R(i) + value[timers[i + 1]]
          BY <2>5, <4>1
      <4> QED
          BY <4>1, <4>2, <4>3
    <3> QED
        BY <3>0, <3>1, <3>2, <3>3
  <2>8. W[0] = 0
      BY <1>0, <2>5
  <2>9. AddsUp(W, timers', value')
    <3> HIDE DEF W
    <3> QED
        BY <2>2, <2>7, <2>8 DEF AddsUp
  <2>10. due' \in [Timer -> Nat] /\ due'[t] = 0 /\ \A u \in Timer \ {t} : due'[u] = due[u]
      BY <1>0, <1>2
  <2>11. ASSUME NEW i \in 1 .. Len(timers'), due'[timers'[i]] > 0
         PROVE  W[i] - elapsed' >= due'[timers'[i]]
    <3> DEFINE j == IF i < p THEN i ELSE i + 1
    <3>0. i \in 1 .. n - 1 /\ i \in 0 .. n - 1
        BY <2>0, <2>2
    <3>1. j \in 1 .. n /\ W[i] = R(j) /\ timers'[i] = timers[j] /\ j # p
      <4>1. j \in 1 .. n /\ j # p
          BY <2>0, <3>0
      <4>2. timers'[i] = timers[j]
          BY <2>2, <3>0
      <4>3. W[i] = R(j)
          BY <3>0
      <4> QED
          BY <4>1, <4>2, <4>3
    <3>2. elapsed' = elapsed
      <4>1. Len(timers') # 0
          BY <2>0, <2>2, <3>0
      <4> QED
          BY <1>2, <2>2, <4>1
    <3> HIDE DEF j, W
    <3>3. timers[j] # t /\ timers[j] \in Timer
        BY <1>0, <1>2, <3>1
    <3>4. due'[timers'[i]] = due[timers[j]]
        BY <2>10, <3>1, <3>3
    <3> QED
        BY <2>6, <2>11, <3>1, <3>2, <3>4
  <2> HIDE DEF W
  <2>12. NeverEarly'
      BY <2>2, <2>9, <2>11, StillDue
  <2>13. \A u \in Timer : ~Active(u)' => due'[u] = 0
    <3>1. ASSUME NEW i \in 1 .. n, i # p PROVE \E j \in 1 .. n - 1 : timers'[j] = timers[i]
      <4>1. CASE i < p
        <5>0. i \in 1 .. n - 1
            BY <2>0, <4>1
        <5>1. i \in 1 .. n - 1 /\ timers'[i] = timers[i]
            BY <2>2, <4>1, <5>0
        <5> QED
            BY <5>1
      <4>2. CASE i > p
        <5>1. i - 1 \in 1 .. n - 1 /\ ~(i - 1 < p) /\ i - 1 + 1 = i
            BY <2>0, <4>2
        <5>2. timers'[i - 1] = timers[i]
            BY <2>2, <5>1
        <5> QED
            BY <5>1, <5>2
      <4> QED
          BY <3>1, <4>1, <4>2
    <3>2. TAKE u \in Timer
    <3>3. CASE u # t
      <4>1. Active(u) => Active(u)'
        <5>1. ASSUME NEW i \in 1 .. n, timers[i] = u PROVE \E j \in 1 .. n - 1 : timers'[j] = u
            BY <1>2, <3>1, <3>3, <5>1
        <5> QED
            BY <1>0, <2>2, <5>1 DEF Active, Contains
      <4>2. ~Active(u) => due[u] = 0
          BY DEF TimersInv
      <4> QED
          BY <2>10, <3>3, <4>1, <4>2
    <3> QED
        BY <2>10, <3>3
  <2>14. left' \in Int /\ elapsed' \in Nat /\ damaged' \in BOOLEAN
      BY <1>0, <1>2
  <2> QED
      BY <1>2, <2>2, <2>3, <2>4, <2>10, <2>12, <2>13, <2>14 DEF TimersInv, TimersTypeOK, StopCalls
<1>3. stopCall' \in StopCalls
    BY DEF TimersInv, TimersTypeOK, StopCalls, osStopTimer,
           osStopTimer_Test, osStopTimer_Remove, osStopTimer_Fault
<1> QED
    BY <1>0, <1>1, <1>2, <1>3 DEF osStopTimer, osStopTimer_Test, osStopTimer_Remove, osStopTimer_Fault

(* Those whose messages the interrupt sends are due. *)
LEMMA InterruptKeeps ==
    ASSUME TimersInv, __osTimerInterrupt
    PROVE  /\ TimersInv' /\ \A u \in SentBy(Expired) : due[u] = 0
           /\ \A u \in Timer : due'[u] = due[u]
<1> DEFINE n == Len(timers)
           R(i) == RunsOut(timers, value, i)
           f == timers[1]
           T == {i \in DOMAIN timers : R(i) = value[f]}
<1>0. /\ timers \in Seq(Timer) /\ n \in Nat /\ DOMAIN timers = 1 .. n /\ due \in [Timer -> Nat]
      /\ \A i, j \in 1 .. n : timers[i] = timers[j] => i = j
      /\ \A i \in 1 .. n : timers[i] \in Timer
      /\ value \in [Timer -> Nat] /\ value \in [Timer -> Int] /\ elapsed \in Nat
      /\ damaged \in BOOLEAN /\ timers # <<>> /\ n # 0 /\ n = Len(timers)
      /\ stopCall \in [Timer -> {"none", "tested", "fault"}]
    BY SMTT(40) DEF TimersInv, TimersTypeOK, IsInjective, __osTimerInterrupt, Pending
<1>1. /\ R(0) = 0 /\ \A i \in 0 .. n : R(i) \in Int
      /\ \A i \in 1 .. n : R(i) = R(i - 1) + value[timers[i]]
    BY <1>0, RunsOutAddsUp
<1>2. \A i, j \in 0 .. n : i <= j => R(i) <= R(j)
    BY <1>0, RunsOutGrows
<1>3. \A i \in 1 .. n : due[timers[i]] > 0 => R(i) - elapsed >= due[timers[i]]
    BY <1>0 DEF TimersInv, NeverEarly
<1>4. /\ Expired = IF elapsed < value[f] THEN 0 ELSE Cardinality(T)
      /\ IF Expired = 0
         THEN __osSetTimerIntr(timers, [value EXCEPT ![f] = value[f] - elapsed])
         ELSE __osSetTimerIntr(SubSeq(timers, Expired + 1, n), value)
      /\ due' = [t \in Timer |-> IF Contains(timers', t) THEN due[t] ELSE 0]
      /\ damaged' = damaged /\ stopCall' = stopCall
    BY DEF Expired, __osTimerInterrupt
<1> HIDE DEF R, n
<1>5. 1 \in 1 .. n /\ f \in Timer /\ value[f] \in Nat /\ R(1) = value[f]
  <2>1. 1 \in 1 .. n /\ f \in Timer /\ value[f] \in Nat
      BY <1>0
  <2> QED
      BY <1>1, <2>1
<1>6. PICK c \in 0 .. n : Cardinality(T) = c /\ T = 1 .. c
  <2>1. ASSUME NEW i \in T, NEW j \in 1 .. i PROVE j \in T
    <3>2. i \in 1 .. n /\ R(i) = value[f] /\ j \in 1 .. n /\ 1 <= j /\ j <= i
        BY <1>0
    <3>3. R(1) <= R(j) /\ R(j) <= R(i) /\ R(j) \in Int /\ R(1) \in Int
        BY <1>0, <1>1, <1>2, <3>2
    <3> QED
        BY <1>0, <1>5, <3>2, <3>3
  <2>2. T \in SUBSET (1 .. n)
      BY <1>0
  <2> HIDE DEF T
  <2>3. \A i \in T : 1 .. i \subseteq T
      BY <2>1
  <2> QED
      BY <1>0, <2>2, <2>3, FirstPlaces
<1>7. 1 <= c /\ R(c) = value[f]
  <2>1. 1 \in T
      BY <1>0, <1>5
  <2>2. c \in T
      BY <1>6, <2>1
  <2> QED
      BY <1>6, <2>1, <2>2
<1>8. CASE elapsed < value[f]
  <2> DEFINE rest == value[f] - elapsed
             W == [i \in 0 .. n |-> IF i = 0 THEN 0 ELSE R(i) - elapsed]
  <2>1. /\ timers' = timers /\ value' = [value EXCEPT ![f] = rest] /\ elapsed' = 0
        /\ left' = IF rest < MinWait THEN MinWait ELSE rest
        /\ Expired = 0
      BY <1>0, <1>4, <1>5, <1>8 DEF __osSetTimerIntr
  <2>2. rest \in Nat
      BY <1>0, <1>5, <1>8
  <2>3. value' \in [Timer -> Nat] /\ value'[f] = rest /\ \A u \in Timer \ {f} : value'[u] = value[u]
      BY <1>0, <1>5, <2>1, <2>2
  <2>4. due' = due
    <3>1. \A u \in Timer : ~Contains(timers, u) => due[u] = 0
        BY DEF TimersInv, Active
    <3>2. due = [u \in Timer |-> due[u]]
        BY <1>0
    <3> QED
        BY <1>4, <2>1, <3>1, <3>2
  <2>5. ASSUME NEW i \in 1 .. n PROVE W[i] = W[i - 1] + value'[timers'[i]]
    <3>1. i \in 0 .. n /\ i - 1 \in 0 .. n
        BY <1>0
    <3>2. CASE i = 1
        BY <1>0, <1>1, <1>5, <2>1, <2>3, <3>1, <3>2
    <3>3. CASE i # 1
      <4>1. timers[i] # f /\ timers[i] \in Timer /\ i - 1 # 0
          BY <1>0, <1>5, <3>3
      <4>2. W[i] = R(i) - elapsed /\ W[i - 1] = R(i - 1) - elapsed
          BY <3>1, <4>1
      <4>3. value'[timers'[i]] = value[timers[i]] /\ value[timers[i]] \in Nat
          BY <1>0, <2>1, <2>3, <4>1
      <4>4. R(i) = R(i - 1) + value[timers[i]] /\ R(i - 1) \in Int
          BY <1>1, <3>1
      <4> QED
          BY <1>0, <4>2, <4>3, <4>4
    <3> QED
        BY <3>2, <3>3
  <2>6. W[0] = 0 /\ \A i \in 1 .. n : W[i] = R(i) - elapsed
      BY <1>0
  <2> HIDE DEF W
  <2>7. AddsUp(W, timers', value')
      BY <1>0, <2>1, <2>5, <2>6 DEF AddsUp
  <2>8. ASSUME NEW i \in 1 .. Len(timers'), due'[timers'[i]] > 0
        PROVE  W[i] - elapsed' >= due'[timers'[i]]
    <3>1. i \in 1 .. n /\ W[i] = R(i) - elapsed /\ R(i) \in Int /\ elapsed' = 0
        BY <1>0, <1>1, <2>1, <2>6
    <3>2. R(i) - elapsed >= due[timers[i]]
        BY <1>3, <2>1, <2>4, <2>8, <3>1
    <3> QED
        BY <1>0, <2>1, <2>4, <3>1, <3>2
  <2>9. NeverEarly'
      BY <1>0, <2>1, <2>7, <2>8, StillDue
  <2>10. SentBy(Expired) = {}
      BY <2>1 DEF SentBy
  <2>11. TimersTypeOK'
    <3>1. left' \in Int /\ elapsed' \in Nat /\ damaged' = damaged
        BY <1>4, <2>1, <2>2, TimersAssumption
    <3> QED
        BY <1>0, <1>4, <2>1, <2>3, <2>4, <3>1 DEF TimersInv, TimersTypeOK
  <2>12. \A u \in Timer : ~Active(u)' => due'[u] = 0
      BY <2>1, <2>4 DEF TimersInv, Active
  <2> QED
      BY <2>4, <2>9, <2>10, <2>11, <2>12 DEF TimersInv
<1>9. CASE ~(elapsed < value[f])
  <2>1. /\ timers' = SubSeq(timers, c + 1, n) /\ value' = value /\ elapsed' = 0
        /\ left' = IF timers' = <<>> THEN 0
                   ELSE IF value[timers'[1]] < MinWait THEN MinWait ELSE value[timers'[1]]
        /\ Expired = c
    <3>1. Expired = c /\ c # 0
        BY <1>4, <1>6, <1>7, <1>9
    <3>2. __osSetTimerIntr(SubSeq(timers, c + 1, n), value)
        BY <1>4, <3>1
    <3> QED
        BY <3>1, <3>2 DEF __osSetTimerIntr
  <2>2. /\ timers' \in Seq(Timer) /\ Len(timers') = n - c
        /\ \A i \in 1 .. n - c : timers'[i] = timers[i + c]
    <3>1. /\ SubSeq(timers, c + 1, Len(timers)) \in Seq(Timer)
          /\ Len(SubSeq(timers, c + 1, Len(timers))) = Len(timers) - c
          /\ \A i \in 1 .. Len(timers) - c : SubSeq(timers, c + 1, Len(timers))[i] = timers[i + c]
      <4>1. timers \in Seq(Timer) /\ c \in 0 .. Len(timers)
          BY <1>0
      <4> QED
          BY <4>1
    <3> QED
        BY <1>0, <2>1, <3>1
  <2>3. IsInjective(timers')
    <3>1. IsInjective(timers)
        BY DEF TimersInv, TimersTypeOK
    <3> QED
        BY <1>0, <2>1, <3>1, Dropped
  <2>4. \A i \in 1 .. c : due[timers[i]] = 0
    <3>1. TAKE i \in 1 .. c
    <3>2. i \in 1 .. n /\ i \in 0 .. n /\ c \in 0 .. n /\ i <= c /\ due[timers[i]] \in Nat
        BY <1>0
    <3>3. R(i) <= value[f] /\ R(i) \in Int
        BY <1>1, <1>2, <1>7, <3>2
    <3>4. due[timers[i]] > 0 => R(i) - elapsed >= due[timers[i]]
        BY <1>3, <3>2
    <3> QED
        BY <1>0, <1>5, <1>9, <3>2, <3>3, <3>4
  <2>5. \A u \in SentBy(Expired) : due[u] = 0
      BY <2>1, <2>4 DEF SentBy
  <2>6. \A u \in Timer : ~Contains(timers', u) => due[u] = 0
    <3>1. TAKE u \in Timer
    <3>2. CASE ~Active(u)
        BY <3>2 DEF TimersInv
    <3>3. ASSUME NEW i \in 1 .. n, timers[i] = u, ~Contains(timers', u) PROVE due[u] = 0
      <4>1. CASE i <= c
          BY <2>4, <3>3, <4>1
      <4>2. CASE i > c
        <5>1. i - c \in 1 .. n - c /\ i - c + c = i
            BY <1>0, <4>2
        <5>2. timers'[i - c] = u
            BY <2>2, <3>3, <5>1
        <5> QED
            BY <2>2, <3>3, <5>1, <5>2 DEF Contains
      <4> QED
          BY <4>1, <4>2
    <3> QED
        BY <1>0, <3>2, <3>3 DEF Active, Contains
  <2>7. due' = due
    <3>1. due = [u \in Timer |-> due[u]]
        BY <1>0
    <3> QED
        BY <1>4, <2>6, <3>1
  <2> DEFINE W == [i \in 0 .. n - c |-> R(i + c) - R(c)]
  <2>8. ASSUME NEW i \in 1 .. n - c PROVE W[i] = W[i - 1] + value'[timers'[i]]
    <3>1. /\ i \in 0 .. n - c /\ i - 1 \in 0 .. n - c /\ i + c \in 1 .. n
          /\ i + c - 1 = i - 1 + c /\ i - 1 + c \in 0 .. n /\ c \in 0 .. n
        BY <1>0
    <3>2. W[i] = R(i + c) - R(c) /\ W[i - 1] = R(i - 1 + c) - R(c)
        BY <3>1
    <3>3. R(i + c) = R(i - 1 + c) + value[timers[i + c]] /\ R(i - 1 + c) \in Int /\ R(c) \in Int
        BY <1>1, <3>1
    <3>4. value'[timers'[i]] = value[timers[i + c]] /\ value[timers[i + c]] \in Nat
        BY <1>0, <2>1, <2>2, <3>1
    <3> QED
        BY <3>2, <3>3, <3>4
  <2>9. W[0] = 0 /\ \A i \in 1 .. n - c : W[i] = R(i + c) - R(c)
    <3>1. W[0] = R(0 + c) - R(c) /\ 0 + c = c /\ R(c) \in Int
        BY <1>0, <1>1
    <3> QED
        BY <1>0, <3>1
  <2> HIDE DEF W
  <2>10. AddsUp(W, timers', value')
      BY <2>2, <2>8, <2>9 DEF AddsUp
  <2>11. ASSUME NEW i \in 1 .. Len(timers'), due'[timers'[i]] > 0
         PROVE  W[i] - elapsed' >= due'[timers'[i]]
    <3>1. i \in 1 .. n - c /\ i + c \in 1 .. n /\ i + c \in 0 .. n /\ timers'[i] = timers[i + c]
        BY <1>0, <2>2
    <3>2. W[i] = R(i + c) - value[f] /\ R(i + c) \in Int
        BY <1>1, <1>7, <2>9, <3>1
    <3>3. R(i + c) - elapsed >= due[timers[i + c]] /\ due[timers[i + c]] \in Nat
        BY <1>0, <1>3, <2>7, <2>11, <3>1
    <3> DEFINE r == R(i + c)
    <3>4. r \in Int /\ W[i] = r - value[f] /\ r - elapsed >= due[timers[i + c]]
        BY <3>2, <3>3
    <3>5. elapsed \in Nat /\ elapsed >= value[f]
        BY <1>0, <1>5, <1>9
    <3> HIDE DEF r
    <3>6. W[i] >= due[timers[i + c]]
        BY <1>5, <3>3, <3>4, <3>5
    <3>7. due'[timers'[i]] = due[timers[i + c]] /\ elapsed' = 0
        BY <2>1, <2>7, <3>1
    <3> QED
        BY <1>5, <3>4, <3>6, <3>7
  <2>12. NeverEarly'
      BY <2>2, <2>10, <2>11, StillDue
  <2>13. left' \in Int
    <3>1. timers' # <<>> => timers'[1] \in Timer
        BY <2>2
    <3>2. timers' # <<>> => value[timers'[1]] \in Nat
        BY <1>0, <3>1
    <3>3. CASE timers' = <<>>
        BY <2>1, <3>3
    <3>4. CASE timers' # <<>>
      <4> DEFINE w == value[timers'[1]]
      <4>1. w \in Nat /\ left' = IF w < MinWait THEN MinWait ELSE w
          BY <2>1, <3>2, <3>4
      <4> HIDE DEF w
      <4> QED
          BY <4>1, TimersAssumption
    <3> QED
        BY <3>3, <3>4
  <2>14. TimersTypeOK'
      BY <1>0, <1>4, <2>1, <2>2, <2>3, <2>7, <2>13 DEF TimersTypeOK
  <2>15. \A u \in Timer : ~Active(u)' => due'[u] = 0
      BY <2>6, <2>7 DEF Active
  <2> QED
      BY <2>5, <2>7, <2>12, <2>14, <2>15 DEF TimersInv
<1> QED
    BY <1>8, <1>9

(* What is due and what has passed change alike. *)
LEMMA CountKeeps ==
    ASSUME TimersInv, CountUp
    PROVE  TimersInv' /\ \A u \in Timer : due'[u] = IF due[u] = 0 THEN 0 ELSE due[u] - 1
<1>0. /\ timers \in Seq(Timer) /\ DOMAIN timers = 1 .. Len(timers) /\ due \in [Timer -> Nat]
      /\ value \in [Timer -> Int] /\ elapsed \in Nat /\ left \in Int
      /\ \A i \in DOMAIN timers : timers[i] \in Timer
    BY DEF TimersInv, TimersTypeOK
<1>1. /\ IF timers = <<>> THEN UNCHANGED <<elapsed, left>>
         ELSE elapsed' = elapsed + 1 /\ left' = left - 1
      /\ due' = [u \in Timer |-> IF due[u] = 0 THEN 0 ELSE due[u] - 1]
      /\ timers' = timers /\ value' = value /\ damaged' = damaged /\ stopCall' = stopCall
    BY DEF CountUp
<1>2. due' \in [Timer -> Nat] /\ \A u \in Timer : due'[u] = IF due[u] = 0 THEN 0 ELSE due[u] - 1
    BY <1>0, <1>1
<1>3. TimersTypeOK'
    BY <1>0, <1>1, <1>2 DEF TimersInv, TimersTypeOK
<1>4. NeverEarly'
  <2>1. ASSUME NEW i \in DOMAIN timers, due'[timers[i]] > 0
        PROVE  RunsOut(timers, value, i) - elapsed' >= due'[timers[i]]
    <3> DEFINE r == RunsOut(timers, value, i)
    <3>1. r \in Int
      <4>1. i \in 0 .. Len(timers)
          BY <1>0
      <4> QED
          BY <1>0, <4>1, RunsOutAddsUp
    <3>2. due[timers[i]] \in Nat /\ due[timers[i]] > 0 /\ due'[timers[i]] = due[timers[i]] - 1
        BY <1>0, <1>2, <2>1
    <3>3. r - elapsed >= due[timers[i]]
        BY <3>2 DEF TimersInv, NeverEarly
    <3>4. elapsed' = elapsed + 1
        BY <1>0, <1>1
    <3> HIDE DEF r
    <3>5. r - (elapsed + 1) >= due[timers[i]] - 1
        BY <1>0, <3>1, <3>2, <3>3
    <3> QED
        BY <3>2, <3>4, <3>5 DEF r
  <2> QED
      BY <1>1, <2>1 DEF NeverEarly
<1>5. \A u \in Timer : ~Active(u)' => due'[u] = 0
    BY <1>1, <1>2 DEF TimersInv, Active
<1> QED
    BY <1>2, <1>3, <1>4, <1>5 DEF TimersInv

LEMMA TimersInitInv == TimersInit => TimersInv
<1> SUFFICES ASSUME TimersInit PROVE TimersInv
    OBVIOUS
<1>1. /\ timers = <<>> /\ elapsed = 0 /\ left = 0 /\ damaged = FALSE
      /\ value = [t \in Timer |-> 0] /\ due = [t \in Timer |-> 0]
      /\ stopCall = [t \in Timer |-> "none"]
    BY DEF TimersInit
<1>2. IsInjective(timers) /\ DOMAIN timers = {} /\ timers \in Seq(Timer)
    BY <1>1 DEF IsInjective
<1>3. value \in [Timer -> Nat] /\ due \in [Timer -> Nat] /\ \A t \in Timer : due[t] = 0
    BY <1>1
<1>4. TimersTypeOK
  <2>1. elapsed \in Nat /\ left \in Int
      BY <1>1
  <2>2. damaged \in BOOLEAN /\ stopCall \in [Timer -> {"none", "tested", "fault"}]
      BY <1>1
  <2> QED
      BY <1>2, <1>3, <2>1, <2>2 DEF TimersTypeOK
<1>5. NeverEarly
    BY <1>2 DEF NeverEarly
<1> QED
    BY <1>3, <1>4, <1>5 DEF TimersInv

-----------------------------------------------------------------------------
(* Queues and clients.                                                      *)

LEMMA Posted ==
    ASSUME irqQ \in Seq(Mesg), NEW m \in Mesg, Post(m)
    PROVE  /\ irqQ' \in Seq(Mesg)
           /\ \/ irqQ' = irqQ
              \/ /\ Len(irqQ') = Len(irqQ) + 1 /\ irqQ'[Len(irqQ) + 1] = m
                 /\ \A i \in 1 .. Len(irqQ) : irqQ'[i] = irqQ[i]
BY DEF Post

LEMMA Sent ==
    ASSUME Typed, NEW C \in SUBSET Client, NEW m \in Told \cup {"retrace"}, SendTo(C, m)
    PROVE  /\ told' \in [Client -> SUBSET Told] /\ missed' \in SUBSET Client /\ missed \subseteq missed'
           /\ \A c \in Client : told[c] \subseteq told'[c]
           /\ pressed /\ m # "retrace" => \A c \in C \ missed' : m \in told'[c]
<1> DEFINE gets == {c \in C : HasRoom(c)}
<1>1. /\ told' = [c \in Client |-> told[c] \cup (IF c \in gets THEN {m} \ {"retrace"} ELSE {})]
      /\ missed' = IF pressed THEN missed \cup (C \ gets) ELSE missed
    BY DEF SendTo
<1> HIDE DEF gets
<1>2. gets \subseteq C
    BY DEF gets
<1> QED
    BY <1>1, <1>2 DEF Typed, Told

(* The message at the head is read. *)
LEMMA Read ==
    ASSUME irqQ \in Seq(Mesg), irqQ # <<>>, irqQ' = Tail(irqQ)
    PROVE  /\ irqQ' \in Seq(Mesg) /\ 1 \in DOMAIN irqQ
           /\ \A i \in DOMAIN irqQ' : i + 1 \in DOMAIN irqQ /\ i + 1 # 1 /\ irqQ'[i] = irqQ[i + 1]
OBVIOUS

-----------------------------------------------------------------------------
(* The steps of the thread.  A handler that sets the timer has read the one *)
(* message of the reset, so that the timer is not active.                  *)

LEMMA ThreadStep ==
    ASSUME IrqInv, IrqMgr_ThreadEntry
    PROVE  IrqInv' /\ (damaged' = damaged \/ Retries)
<1>1. /\ irqQ # <<>> /\ irqQ' = Tail(irqQ) /\ UNCHANGED <<clients, adding, pressed>>
      /\ irqQ' \in Seq(Mesg) /\ 1 \in DOMAIN irqQ
      /\ \A i \in DOMAIN irqQ' : i + 1 \in DOMAIN irqQ /\ i + 1 # 1 /\ irqQ'[i] = irqQ[i + 1]
    BY Read DEF IrqInv, Typed, IrqMgr_ThreadEntry
<1>2. Range(clients) \subseteq Client
    BY DEF IrqInv, Typed, Range
<1>3. ASSUME irqQ[1] # "RETRACE"
      PROVE  /\ pressed /\ ~Active(irqTimer)
             /\ \A i \in DOMAIN irqQ' : irqQ'[i] = "RETRACE"
    BY <1>1, <1>3 DEF IrqInv, OneChain
<1>4. ASSUME NEW v, osSetTimer(irqTimer, v), irqQ[1] # "RETRACE"
      PROVE  TimersOK' /\ damaged' = damaged
    BY <1>3, <1>4, SetStep, IrqAssumption DEF IrqInv, Typed
<1>5. CASE IrqMgr_HandlePreNMI
  <2>1. /\ irqQ[1] = "PRE_NMI" /\ resetStatus' = 1 /\ irqMsg' = "PRENMI450"
        /\ osSetTimer(irqTimer, T450) /\ SendTo(Range(clients), "prenmi")
      BY <1>5 DEF IrqMgr_HandlePreNMI, SetTimer, IrqMgr_SendMesgForClient, STATUS_PRENMI
  <2>2. TimersOK' /\ damaged' = damaged
      BY <1>4, <2>1
  <2>3. /\ told' \in [Client -> SUBSET Told] /\ missed' \in SUBSET Client /\ missed \subseteq missed'
        /\ \A c \in Client : told[c] \subseteq told'[c]
        /\ \A c \in Range(clients) \ missed' : "prenmi" \in told'[c]
      BY <1>2, <1>3, <2>1, Sent DEF IrqInv, Told
  <2>4. Typed'
      BY <1>1, <2>1, <2>2, <2>3 DEF IrqInv, Typed, TimersOK, Mesg
  <2>5. OneChain'
      BY <1>1, <1>3, <2>1 DEF IrqInv, OneChain
  <2>6. ToldOK'
      BY <1>1, <2>1, <2>3 DEF IrqInv, ToldOK
  <2> QED
      BY <2>2, <2>4, <2>5, <2>6 DEF IrqInv
<1>6. CASE IrqMgr_HandlePRENMI450
  <2>1. /\ irqQ[1] = "PRENMI450" /\ resetStatus' = 2 /\ irqMsg' = "PRENMI480"
        /\ osSetTimer(irqTimer, T30) /\ SendTo(Range(clients), "nmi")
      BY <1>6 DEF IrqMgr_HandlePRENMI450, SetTimer, IrqMgr_SendMesgForClient, STATUS_NMI
  <2>2. TimersOK' /\ damaged' = damaged
      BY <1>4, <2>1
  <2>3. /\ told' \in [Client -> SUBSET Told] /\ missed' \in SUBSET Client /\ missed \subseteq missed'
        /\ \A c \in Client : told[c] \subseteq told'[c]
        /\ \A c \in Range(clients) \ missed' : "nmi" \in told'[c]
      BY <1>2, <1>3, <2>1, Sent DEF IrqInv, Told
  <2>4. Typed'
      BY <1>1, <2>1, <2>2, <2>3 DEF IrqInv, Typed, TimersOK, Mesg
  <2>5. OneChain'
      BY <1>1, <1>3, <2>1 DEF IrqInv, OneChain
  <2>6. resetStatus # 0
      BY <1>1, <2>1 DEF IrqInv, OneChain
  <2>7. ToldOK'
      BY <1>1, <2>1, <2>3, <2>6 DEF IrqInv, ToldOK
  <2> QED
      BY <2>2, <2>4, <2>5, <2>7 DEF IrqInv
<1>7. CASE IrqMgr_HandlePRENMI480
  <2>1. irqQ[1] = "PRENMI480" /\ resetStatus' = resetStatus /\ UNCHANGED clientVars
      BY <1>7 DEF IrqMgr_HandlePRENMI480
  <2>2. TimersOK' /\ irqMsg' \in Mesg \ {"RETRACE"} /\ (damaged' = damaged \/ Retries)
    <3>1. CASE SetTimer(T20, "PRENMI500")
        BY <1>4, <2>1, <3>1 DEF SetTimer, Mesg
    <3>2. CASE irqMsg' = "PRENMI480" /\ timers' = timers
        BY <1>1, <1>7, <3>2 DEF IrqInv, Typed, TimersOK, Mesg, Retries
    <3> QED
        BY <1>7, <3>1, <3>2 DEF IrqMgr_HandlePRENMI480
  <2>3. Typed'
      BY <1>1, <2>1, <2>2 DEF IrqInv, Typed, TimersOK, clientVars
  <2>4. resetStatus # 0
      BY <1>1, <2>1 DEF IrqInv, OneChain
  <2>5. OneChain'
      BY <1>1, <1>3, <2>1, <2>4 DEF IrqInv, OneChain
  <2>6. ToldOK'
      BY <1>1, <2>1 DEF IrqInv, ToldOK, clientVars
  <2> QED
      BY <2>2, <2>3, <2>5, <2>6 DEF IrqInv
<1>8. CASE IrqMgr_HandlePRENMI500
  <2>1. /\ irqQ[1] = "PRENMI500" /\ UNCHANGED <<resetStatus, irqMsg, clientVars, timerVars>>
      BY <1>8 DEF IrqMgr_HandlePRENMI500
  <2>2. Typed'
      BY <1>1, <2>1 DEF IrqInv, Typed, TimersOK, clientVars, timerVars, listVars
  <2>3. OneChain'
      BY <1>1, <1>3, <2>1 DEF IrqInv, OneChain, Active, timerVars, listVars
  <2>4. ToldOK'
      BY <1>1, <2>1 DEF IrqInv, ToldOK, clientVars
  <2> QED
      BY <2>1, <2>2, <2>3, <2>4 DEF IrqInv, timerVars, listVars
<1>9. CASE IrqMgr_HandleRetrace
  <2>1. /\ irqQ[1] = "RETRACE" /\ SendTo(Range(clients), "retrace")
        /\ UNCHANGED <<resetStatus, irqMsg, timerVars>>
      BY <1>9 DEF IrqMgr_HandleRetrace, IrqMgr_SendMesgForClient
  <2>2. /\ told' \in [Client -> SUBSET Told] /\ missed' \in SUBSET Client /\ missed \subseteq missed'
        /\ \A c \in Client : told[c] \subseteq told'[c]
      BY <1>2, <2>1, Sent DEF IrqInv
  <2>3. Typed'
      BY <1>1, <2>1, <2>2 DEF IrqInv, Typed, TimersOK, timerVars, listVars
  <2>4. OneChain'
    <3>1. timers' = timers /\ resetStatus' = resetStatus
        BY <2>1 DEF timerVars, listVars
    <3>2. \A i, j \in DOMAIN irqQ' : i + 1 = j + 1 => i = j
        BY <1>1
    <3> QED
        BY <1>1, <3>1, <3>2 DEF IrqInv, OneChain, Active
  <2>5. ToldOK'
      BY <1>1, <2>1, <2>2 DEF IrqInv, ToldOK
  <2> QED
      BY <2>1, <2>3, <2>4, <2>5 DEF IrqInv, timerVars, listVars
<1> QED
    BY <1>5, <1>6, <1>7, <1>8, <1>9 DEF IrqMgr_ThreadEntry

-----------------------------------------------------------------------------
(* The steps of the others.                                                 *)

(* A message of the reset comes while there is none, and a retrace at any    *)
(* time; either may find no room.                                           *)
LEMMA PostStep ==
    ASSUME IrqInv, NEW m \in Mesg, Post(m), TimersOK', pressed' \in BOOLEAN,
           UNCHANGED <<irqMsg, resetStatus, clients, adding, clientVars>>,
           Active(irqTimer)' => Active(irqTimer), pressed => pressed',
           m # "RETRACE" =>
               /\ \A i \in DOMAIN irqQ : irqQ[i] = "RETRACE"
               /\ pressed' /\ ~Active(irqTimer)'
               /\ m # "PRE_NMI" => resetStatus # 0
    PROVE  IrqInv'
<1>1. /\ irqQ' \in Seq(Mesg)
      /\ \/ irqQ' = irqQ
         \/ /\ Len(irqQ') = Len(irqQ) + 1 /\ irqQ'[Len(irqQ) + 1] = m
            /\ \A i \in 1 .. Len(irqQ) : irqQ'[i] = irqQ[i]
    BY Posted DEF IrqInv, Typed
<1>2. Typed'
    BY <1>1 DEF IrqInv, Typed, clientVars
<1>3. ToldOK'
    BY DEF IrqInv, ToldOK, clientVars
<1>4. OneChain'
  <2>1. CASE irqQ' = irqQ
      BY <2>1 DEF IrqInv, OneChain
  <2>2. CASE irqQ' # irqQ
    <3>0. /\ Len(irqQ') = Len(irqQ) + 1 /\ irqQ'[Len(irqQ) + 1] = m
          /\ \A i \in 1 .. Len(irqQ) : irqQ'[i] = irqQ[i]
        BY <1>1, <2>2
    <3>1. DOMAIN irqQ = 1 .. Len(irqQ) /\ DOMAIN irqQ' = 1 .. Len(irqQ) + 1 /\ Len(irqQ) \in Nat
        BY <1>1, <3>0 DEF IrqInv, Typed
    <3>2. ASSUME NEW i \in DOMAIN irqQ'
          PROVE  \/ i \in DOMAIN irqQ /\ irqQ'[i] = irqQ[i]
                 \/ i = Len(irqQ) + 1 /\ irqQ'[i] = m
      <4>1. i \in 1 .. Len(irqQ) \/ i = Len(irqQ) + 1
          BY <3>1
      <4> QED
          BY <3>0, <3>1, <4>1
    <3>3. CASE m = "RETRACE"
        BY <3>2, <3>3 DEF IrqInv, OneChain
    <3>4. CASE m # "RETRACE"
      <4>1. \A i \in DOMAIN irqQ' : irqQ'[i] # "RETRACE" => i = Len(irqQ) + 1 /\ irqQ'[i] = m
          BY <3>2, <3>4
      <4>2. pressed' /\ ~Active(irqTimer)' /\ (m # "PRE_NMI" => resetStatus' # 0)
          BY <3>4
      <4> QED
          BY <4>1, <4>2 DEF OneChain
    <3> QED
        BY <3>3, <3>4
  <2> QED
      BY <2>1, <2>2
<1> QED
    BY <1>2, <1>3, <1>4 DEF IrqInv

(* A step that touches the timers of others only. *)
LEMMA TimersStep ==
    ASSUME IrqInv, TimersOK', Active(irqTimer)' => Active(irqTimer), UNCHANGED <<irqVars, clientVars>>
    PROVE  IrqInv'
<1>1. Typed'
    BY DEF IrqInv, Typed, irqVars, clientVars
<1>2. OneChain'
    BY DEF IrqInv, OneChain, irqVars
<1>3. ToldOK'
    BY DEF IrqInv, ToldOK, irqVars, clientVars
<1> QED
    BY <1>1, <1>2, <1>3 DEF IrqInv

(* A client enters the list, then looks twice. *)
LEMMA ClientStep ==
    ASSUME IrqInv, NEW c \in Client, AddClient(c)
    PROVE  IrqInv' /\ damaged' = damaged
<1>1. UNCHANGED timerVars
    BY DEF AddClient
<1>2. CASE IrqMgr_AddClient_Link(c)
  <2>1. /\ clients' = <<c>> \o clients /\ adding' = [adding EXCEPT ![c] = "linked"]
        /\ UNCHANGED <<irqQ, irqMsg, resetStatus, pressed, clientVars>>
      BY <1>2 DEF IrqMgr_AddClient_Link
  <2>2. <<c>> \in Seq(Client) /\ Len(<<c>>) = 1 /\ <<c>>[1] = c
      OBVIOUS
  <2>3. /\ clients' \in Seq(Client) /\ Len(clients') = 1 + Len(clients)
        /\ \A i \in 1 .. 1 + Len(clients) : clients'[i] = IF i <= 1 THEN c ELSE clients[i - 1]
    <3>1. clients \in Seq(Client)
        BY DEF IrqInv, Typed
    <3> QED
        BY <2>1, <2>2, <3>1, ConcatProperties
  <2>4. Range(clients') = {c} \cup Range(clients)
    <3>1. Len(clients) \in Nat /\ DOMAIN clients = 1 .. Len(clients) /\ DOMAIN clients' = 1 .. 1 + Len(clients)
        BY <2>3 DEF IrqInv, Typed
    <3>2. \A i \in 1 .. Len(clients) : i + 1 \in DOMAIN clients' /\ clients'[i + 1] = clients[i]
        BY <2>3, <3>1
    <3>3. 1 \in DOMAIN clients' /\ clients'[1] = c
        BY <2>3, <3>1
    <3>4. \A i \in DOMAIN clients' : clients'[i] = c \/ (i - 1 \in DOMAIN clients /\ clients'[i] = clients[i - 1])
        BY <2>3, <3>1
    <3> QED
        BY <3>1, <3>2, <3>3, <3>4, SMTT(40) DEF Range
  <2>5. Typed'
      BY <1>1, <2>1, <2>3 DEF IrqInv, Typed, TimersOK, timerVars, listVars, clientVars, Stage
  <2>6. OneChain'
      BY <1>1, <2>1 DEF IrqInv, OneChain, Active, timerVars, listVars
  <2>7. ToldOK'
    <3>1. \A d \in Client : adding'[d] = IF d = c THEN "linked" ELSE adding[d]
        BY <2>1 DEF IrqInv, Typed
    <3> QED
        BY <2>1, <2>4, <3>1 DEF IrqInv, ToldOK, clientVars
  <2> QED
      BY <1>1, <2>5, <2>6, <2>7 DEF IrqInv, timerVars, listVars
<1>3. ASSUME NEW from \in {"linked", "asked"}, NEW to \in {"asked", "in"}, NEW status \in {1, 2},
             NEW m \in Told, IrqMgr_AddClient_Ask(c, from, to, status, m),
             \/ from = "linked" /\ to = "asked" /\ status = 1 /\ m = "prenmi"
             \/ from = "asked" /\ to = "in" /\ status = 2 /\ m = "nmi"
      PROVE  IrqInv' /\ damaged' = damaged
  <2> DEFINE C == IF resetStatus >= status THEN {c} ELSE {}
  <2>1. /\ adding[c] = from /\ SendTo(C, m) /\ adding' = [adding EXCEPT ![c] = to]
        /\ UNCHANGED <<irqQ, irqMsg, resetStatus, clients, pressed>>
      BY <1>3 DEF IrqMgr_AddClient_Ask
  <2>2. C \in SUBSET Client
      OBVIOUS
  <2>3. /\ told' \in [Client -> SUBSET Told] /\ missed' \in SUBSET Client /\ missed \subseteq missed'
        /\ \A d \in Client : told[d] \subseteq told'[d]
        /\ pressed /\ m # "retrace" => \A d \in C \ missed' : m \in told'[d]
      BY <2>1, <2>2, Sent DEF IrqInv
  <2>4. Typed'
      BY <1>1, <2>1, <2>3 DEF IrqInv, Typed, TimersOK, timerVars, listVars, Stage
  <2>5. OneChain'
      BY <1>1, <2>1 DEF IrqInv, OneChain, Active, timerVars, listVars
  <2>6. resetStatus >= status => pressed /\ c \in C
      BY DEF IrqInv, OneChain, Typed
  <2>7. resetStatus >= status /\ c \notin missed' => m \in told'[c]
      BY <2>3, <2>6 DEF Told
  <2>8. ToldOK'
    <3>1. \A d \in Client : adding'[d] = IF d = c THEN to ELSE adding[d]
        BY <2>1 DEF IrqInv, Typed
    <3>2. resetStatus \in {0, 1, 2}
        BY DEF IrqInv, Typed
    <3>3. c \in Range(clients)
        BY <2>1 DEF IrqInv, ToldOK
    <3>4. CASE to = "asked"
        BY <1>3, <2>1, <2>3, <2>7, <3>1, <3>2, <3>3, <3>4 DEF IrqInv, ToldOK
    <3>5. CASE to = "in"
        BY <1>3, <2>1, <2>3, <2>7, <3>1, <3>2, <3>3, <3>5 DEF IrqInv, ToldOK
    <3> QED
        BY <3>4, <3>5
  <2> QED
      BY <1>1, <2>4, <2>5, <2>8 DEF IrqInv, timerVars, listVars
<1>4. CASE IrqMgr_AddClient_Ask(c, "linked", "asked", STATUS_PRENMI, "prenmi")
    BY <1>3, <1>4 DEF STATUS_PRENMI, Told
<1>5. CASE IrqMgr_AddClient_Ask(c, "asked", "in", STATUS_NMI, "nmi")
    BY <1>3, <1>5 DEF STATUS_NMI, Told
<1> QED
    BY <1>2, <1>4, <1>5 DEF AddClient, IrqMgr_AddClient

LEMMA IrqStep ==
    ASSUME IrqInv, [IrqNext]_irqMgrVars
    PROVE  IrqInv' /\ (damaged' = damaged \/ Retries)
<1>1. CASE IrqMgr_ThreadEntry
    BY <1>1, ThreadStep
<1>2. CASE TimerInterrupt
  <2>1. /\ TimersOK' /\ damaged' = damaged
        /\ \A u : Contains(timers', u) => Active(u)
        /\ \A u \in SentBy(Expired) : Active(u) /\ ~Contains(timers', u)
      BY <1>2, InterruptStep DEF TimerInterrupt, IrqInv, Typed
  <2>2. /\ UNCHANGED <<irqMsg, resetStatus, clients, adding, pressed, clientVars>>
        /\ Active(irqTimer)' => Active(irqTimer)
      BY <1>2, <2>1 DEF TimerInterrupt, Active
  <2>3. CASE irqTimer \in SentBy(Expired)
    <3>1. Post(irqMsg) /\ Active(irqTimer) /\ ~Active(irqTimer)'
        BY <1>2, <2>1, <2>3 DEF TimerInterrupt, Active
    <3>2. /\ irqMsg \in Mesg /\ pressed \in BOOLEAN /\ pressed /\ resetStatus # 0
          /\ \A i \in DOMAIN irqQ : irqQ[i] = "RETRACE"
        BY <3>1 DEF IrqInv, Typed, OneChain
    <3> QED
        BY <2>1, <2>2, <3>1, <3>2, PostStep
  <2>4. CASE irqTimer \notin SentBy(Expired)
    <3>1. UNCHANGED <<irqVars, clientVars>> \/ UNCHANGED irqQ
        BY <1>2, <2>4 DEF TimerInterrupt
    <3>2. UNCHANGED <<irqQ, irqMsg, resetStatus, clients, adding, pressed, clientVars>>
        BY <2>2, <3>1 DEF irqVars
    <3>3. Typed' /\ ToldOK'
        BY <2>1, <3>2 DEF IrqInv, Typed, ToldOK, clientVars
    <3>4. OneChain'
        BY <2>2, <3>2 DEF IrqInv, OneChain
    <3> QED
        BY <2>1, <3>3, <3>4 DEF IrqInv
  <2> QED
      BY <2>1, <2>3, <2>4
<1>3. CASE Frame
  <2>1. /\ timers' = timers /\ damaged' = damaged /\ Post("RETRACE")
        /\ UNCHANGED <<irqMsg, resetStatus, clients, adding, pressed, clientVars>>
      BY <1>3 DEF Frame, Retrace, CountUp
  <2>2. TimersOK' /\ (Active(irqTimer)' => Active(irqTimer)) /\ pressed' \in BOOLEAN
      BY <2>1 DEF IrqInv, Typed, TimersOK, Active
  <2> QED
      BY <2>1, <2>2, PostStep DEF Mesg
<1>4. CASE ResetButton
  <2>1. /\ ~pressed /\ pressed' = TRUE /\ Post("PRE_NMI")
        /\ UNCHANGED <<irqMsg, resetStatus, clients, adding, clientVars, timerVars>>
      BY <1>4 DEF ResetButton
  <2>2. TimersOK' /\ damaged' = damaged /\ (Active(irqTimer)' <=> Active(irqTimer))
      BY <2>1 DEF IrqInv, Typed, TimersOK, Active, timerVars, listVars
  <2>3. ~Active(irqTimer) /\ \A i \in DOMAIN irqQ : irqQ[i] = "RETRACE"
      BY <2>1 DEF IrqInv, OneChain
  <2> QED
      BY <2>1, <2>2, <2>3, PostStep DEF Mesg
<1>5. CASE OtherThread
  <2>1. otherTimer \in Timer /\ otherTimer # irqTimer
      BY IrqAssumption
  <2>2. /\ TimersOK' /\ damaged' = damaged
        /\ Contains(timers', irqTimer) => Active(irqTimer)
    <3>1. CASE osStopTimer(otherTimer)
        BY <3>1, StopStep DEF IrqInv, Typed
    <3>2. CASE ~Active(otherTimer) /\ osSetTimer(otherTimer, TOther)
        BY <2>1, <3>2, SetStep DEF IrqInv, Typed
    <3> QED
        BY <1>5, <3>1, <3>2 DEF OtherThread
  <2>3. UNCHANGED <<irqVars, clientVars>>
      BY <1>5 DEF OtherThread
  <2> QED
      BY <2>2, <2>3, TimersStep DEF Active
<1>6. ASSUME NEW c \in Client, AddClient(c)
      PROVE  IrqInv' /\ damaged' = damaged
    BY <1>6, ClientStep
<1>7. ASSUME NEW c \in Client, ClientReads(c)
      PROVE  IrqInv' /\ damaged' = damaged
  <2>1. UNCHANGED <<timers, damaged, irqQ, irqMsg, resetStatus, clients, adding, pressed, told, missed>>
      BY <1>7 DEF ClientReads, timerVars, listVars, irqVars
  <2> QED
      BY <2>1 DEF IrqInv, Typed, TimersOK, OneChain, ToldOK, Active
<1>8. CASE UNCHANGED irqMgrVars
  <2>1. UNCHANGED <<timers, damaged, irqQ, irqMsg, resetStatus, clients, adding, pressed, told, missed>>
      BY <1>8 DEF irqMgrVars, timerVars, listVars, irqVars, clientVars
  <2> QED
      BY <2>1 DEF IrqInv, Typed, TimersOK, OneChain, ToldOK, Active
<1> QED
    BY <1>1, <1>2, <1>3, <1>4, <1>5, <1>6, <1>7, <1>8 DEF IrqNext

-----------------------------------------------------------------------------
(* The list of the clients the game starts with holds all of them. *)
LEMMA EarlyInList ==
    /\ SetToSeq(Early) \in Seq(Client) /\ IsInjective(SetToSeq(Early))
    /\ Range(SetToSeq(Early)) = Early
<1> DEFINE n == Cardinality(Early)
           s == SetToSeq(Early)
<1>1. IsFiniteSet(Early) /\ Early \subseteq Client
    BY IrqAssumption
<1>2. n \in Nat /\ ExistsBijection(1 .. n, Early)
    BY <1>1, FS_CardinalityType
<1>3. IsFiniteSet(1 .. n) /\ Cardinality(1 .. n) = n
    BY <1>2, FS_Interval
<1>4. \E f \in [1 .. n -> Early] : IsInjective(f)
    BY <1>2 DEF ExistsBijection, Bijection, Injection
<1>5. s \in [1 .. n -> Early] /\ IsInjective(s)
    BY <1>4 DEF SetToSeq
<1> HIDE DEF n, s
<1>6. s \in Injection(1 .. n, Early)
    BY <1>5 DEF Injection
<1>7. s \in Surjection(1 .. n, Early)
    BY <1>1, <1>3, <1>6, FS_Injection DEF n
<1>8. Range(s) = Early
    BY <1>5, <1>7 DEF Surjection, Range
<1>9. s \in Seq(Client)
    BY <1>1, <1>2, <1>5
<1> QED
    BY <1>5, <1>8, <1>9 DEF s

LEMMA IrqInitInv == IrqInit => IrqInv /\ ~damaged
<1> SUFFICES ASSUME IrqInit PROVE IrqInv /\ ~damaged
    OBVIOUS
<1>1. /\ timers = <<>> /\ damaged = FALSE /\ irqQ = <<>> /\ irqMsg = "PRENMI450" /\ resetStatus = 0
      /\ pressed = FALSE /\ missed = {} /\ told = [c \in Client |-> {}]
      /\ adding = [c \in Client |-> IF c \in Early THEN "in" ELSE "out"]
    BY DEF IrqInit, TimersInit, STATUS_IDLE
<1>2. clients \in Seq(Client) /\ Range(clients) = Early
    BY EarlyInList DEF IrqInit
<1>3. TimersOK
    BY <1>1 DEF TimersOK, IsInjective
<1>4. Typed
  <2>1. irqQ \in Seq(Mesg) /\ resetStatus \in {0, 1, 2} /\ pressed \in BOOLEAN /\ missed \subseteq Client
      BY <1>1, EmptySeq
  <2>2. irqMsg \in Mesg \ {"RETRACE"}
      BY <1>1 DEF Mesg
  <2>3. told \in [Client -> SUBSET Told] /\ adding \in [Client -> Stage]
      BY <1>1 DEF Told, Stage
  <2> QED
      BY <1>2, <1>3, <2>1, <2>2, <2>3 DEF Typed
<1>5. OneChain
  <2>1. DOMAIN irqQ = {} /\ Len(timers) = 0
      BY <1>1
  <2>2. ~Active(irqTimer)
      BY <2>1 DEF Active, Contains
  <2> QED
      BY <1>1, <2>1, <2>2 DEF OneChain
<1>6. ToldOK
    BY <1>1, <1>2 DEF ToldOK
<1> QED
    BY <1>1, <1>4, <1>5, <1>6 DEF IrqInv

(* IrqMgr_AddClient links a client before it looks at the status, and a      *)
(* handler sets the status before it goes through the list: no client that   *)
(* has room misses a message of the reset.                                  *)
THEOREM ClientsTold == IrqSpec => []ResetTold
<1>1. IrqInit => IrqInv
    BY IrqInitInv
<1>2. IrqInv /\ [IrqNext]_irqMgrVars => IrqInv'
    BY IrqStep
<1>3. IrqInv => ResetTold
    BY DEF IrqInv, Typed, ToldOK, ResetTold, STATUS_PRENMI, STATUS_NMI
<1> QED
    BY <1>1, <1>2, <1>3, PTL DEF IrqSpec

(* The steps of the interrupt manager do to the timers what the operations do, *)
(* or set a timer that is in the list.                                      *)
LEMMA IrqTimers ==
    ASSUME TimersInv, [IrqNext]_irqMgrVars
    PROVE  TimersInv'
<1>1. ASSUME NEW t \in Timer, NEW v \in Nat \ {0}, osSetTimer(t, v) PROVE TimersInv'
  <2>1. CASE Active(t)
    <3>1. damaged' = TRUE /\ UNCHANGED <<timers, value, elapsed, left, due>> /\ stopCall' \in StopCalls
        BY <1>1, <2>1 DEF osSetTimer, TimersInv, TimersTypeOK, StopCalls
    <3> QED
        BY <3>1, TimersUnchanged
  <2>2. CASE ~Active(t)
      BY <1>1, <2>2, SetKeeps
  <2> QED
      BY <2>1, <2>2
<1>2. /\ irqTimer \in Timer /\ otherTimer \in Timer
      /\ {T450, T30, T20, TOther} \subseteq Nat \ {0}
    BY IrqAssumption
<1>3. CASE UNCHANGED timerVars
  <2>1. damaged' \in BOOLEAN /\ stopCall' \in StopCalls
      BY <1>3 DEF TimersInv, TimersTypeOK, timerVars, listVars, StopCalls
  <2> QED
      BY <1>3, <2>1, TimersUnchanged DEF timerVars, listVars
<1>4. CASE IrqMgr_ThreadEntry
  <2>1. CASE IrqMgr_HandlePreNMI
      BY <1>1, <1>2, <2>1 DEF IrqMgr_HandlePreNMI, SetTimer
  <2>2. CASE IrqMgr_HandlePRENMI450
      BY <1>1, <1>2, <2>2 DEF IrqMgr_HandlePRENMI450, SetTimer
  <2>3. CASE IrqMgr_HandlePRENMI480
    <3>1. CASE SetTimer(T20, "PRENMI500")
        BY <1>1, <1>2, <3>1 DEF SetTimer
    <3>2. CASE damaged' = TRUE /\ UNCHANGED <<timers, value, elapsed, left, due, stopCall>>
        BY <3>2, TimersUnchanged DEF TimersInv, TimersTypeOK, StopCalls
    <3> QED
        BY <2>3, <3>1, <3>2 DEF IrqMgr_HandlePRENMI480
  <2>4. CASE IrqMgr_HandlePRENMI500
      BY <1>3, <2>4 DEF IrqMgr_HandlePRENMI500
  <2>5. CASE IrqMgr_HandleRetrace
      BY <1>3, <2>5 DEF IrqMgr_HandleRetrace
  <2> QED
      BY <1>4, <2>1, <2>2, <2>3, <2>4, <2>5 DEF IrqMgr_ThreadEntry
<1>5. CASE TimerInterrupt
    BY <1>5, InterruptKeeps DEF TimerInterrupt
<1>6. CASE Frame
    BY <1>6, CountKeeps DEF Frame, Retrace
<1>7. CASE ResetButton
    BY <1>3, <1>7 DEF ResetButton
<1>8. CASE OtherThread
    BY <1>1, <1>2, <1>8, StopKeeps DEF OtherThread
<1>9. ASSUME NEW c \in Client, AddClient(c) \/ ClientReads(c) PROVE UNCHANGED timerVars
    BY <1>9 DEF AddClient, ClientReads
<1> QED
    BY <1>3, <1>4, <1>5, <1>6, <1>7, <1>8, <1>9 DEF IrqNext, irqMgrVars

(* No timer runs out before its time, whatever other timers are set, stopped *)
(* or run out meanwhile: what __osTimerInterrupt and osStopTimer take from  *)
(* the list and hand on always adds up to what is due.                      *)
THEOREM TimersInTime == IrqSpec => []NeverEarly
<1>1. IrqInit => TimersInv
    BY TimersInitInv DEF IrqInit
<1>2. TimersInv /\ [IrqNext]_irqMgrVars => TimersInv'
    BY IrqTimers
<1>3. TimersInv => NeverEarly
    BY DEF TimersInv
<1> QED
    BY <1>1, <1>2, <1>3, PTL DEF IrqSpec

(* A timer is set only while it is not in the list, whatever the order in    *)
(* which the threads, the button and the interrupts come and also when the   *)
(* graph thread's timer runs out inside osStopTimer: irqMgr->timer is set by *)
(* the handler of the message it has sent.  Only the second try of           *)
(* IrqMgr_HandlePRENMI480 sets it while it is active.                        *)
THEOREM RetriesDamage == IrqSpec => OnlyRetryDamages
<1>1. IrqInit => IrqInv
    BY IrqInitInv
<1>2. IrqInv /\ [IrqNext]_irqMgrVars =>
          IrqInv' /\ [damaged' => damaged \/ Retries]_irqMgrVars
    BY IrqStep
<1> QED
    BY <1>1, <1>2, PTL DEF IrqSpec, OnlyRetryDamages
=============================================================================
