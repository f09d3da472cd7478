-------------------------- MODULE RtpVideoProofs --------------------------
(***************************************************************************)
(* The picture on its way, for every stream, every way it is cut into      *)
(* buffers and packets, and every number of sequence numbers.              *)
(*                                                                         *)
(* The argument is about positions.  The stream of the encoder and what    *)
(* the decoder should be fed both hold the NALs one behind the other: what *)
(* pending_buff holds is a slice of the one (HandedOver), what rtpsend_nal *)
(* still has to send (Left), every packet and all that was fed are slices  *)
(* of the other (Path, Followed), and the slices touch.                    *)
(***************************************************************************)
EXTENDS RtpVideo, SequenceTheorems, WellFoundedInduction, TLAPS

-----------------------------------------------------------------------------
(* What FlattenSeq computes                                                *)

\* Induction over the numbers, for a set: the prover takes no predicate.
LEMMA Induction ==
  ASSUME NEW T, T \subseteq Nat, 0 \in T, \A n \in T : n + 1 \in T
  PROVE  T = Nat
<1> DEFINE U == Nat \ T
<1> SUFFICES ASSUME U # {} PROVE FALSE
  OBVIOUS
<1>1. PICK n \in U : \A m \in U : <<m, n>> \notin OpToRel(<, Nat)
  BY NatLessThanWellFounded, WFMin
<1>2. n \in Nat /\ n # 0 /\ n \notin T
  OBVIOUS
<1>3. n - 1 \in Nat /\ n - 1 < n /\ n = (n - 1) + 1
  BY <1>2
<1>4. n - 1 \in T
  BY <1>1, <1>3 DEF OpToRel
<1> QED BY <1>2, <1>3, <1>4

\* Concatenation, for steps that need not know what it is.
Joint(s, t) == s \o t

\* runs[i] is what the first i sequences of s amount to.
Runs(S, s, runs) ==
  /\ runs \in [0 .. Len(s) -> Seq(S)]
  /\ runs[0] = <<>>
  /\ \A i \in 1 .. Len(s) : runs[i] = Joint(runs[i - 1], s[i])

\* There are such runs of the first n sequences.
RunsTo(S, s, n) ==
  \E f : /\ f \in [0 .. n -> Seq(S)]
         /\ f[0] = <<>>
         /\ \A i \in 1 .. n : f[i] = Joint(f[i - 1], s[i])

LEMMA RunsExist ==
  ASSUME NEW S, NEW s \in Seq(Seq(S))
  PROVE  \E runs : Runs(S, s, runs)
<1> DEFINE T == {n \in Nat : n <= Len(s) => RunsTo(S, s, n)}
<1>1. Len(s) \in Nat
  OBVIOUS
<1>2. 0 \in T
  <2> DEFINE f == [i \in 0 .. 0 |-> <<>>]
  <2>1. f \in [0 .. 0 -> Seq(S)] /\ f[0] = <<>>
    BY EmptySeq
  <2> HIDE DEF f
  <2>2. RunsTo(S, s, 0)
    BY <2>1 DEF RunsTo
  <2> QED BY <2>2
<1>3. ASSUME NEW n \in T PROVE n + 1 \in T
  <2>0. SUFFICES ASSUME n + 1 <= Len(s) PROVE RunsTo(S, s, n + 1)
    OBVIOUS
  <2>1. n \in Nat /\ n <= Len(s) /\ n + 1 \in 1 .. Len(s)
    BY <1>1, <2>0
  <2>2. PICK f : /\ f \in [0 .. n -> Seq(S)]
                 /\ f[0] = <<>>
                 /\ \A i \in 1 .. n : f[i] = Joint(f[i - 1], s[i])
    BY <2>1 DEF RunsTo
  <2> DEFINE g == [i \in 0 .. n + 1 |-> IF i = n + 1 THEN Joint(f[n], s[n + 1]) ELSE f[i]]
  <2>3. f[n] \in Seq(S) /\ s[n + 1] \in Seq(S)
    BY <2>1, <2>2
  <2>4. Joint(f[n], s[n + 1]) \in Seq(S)
    BY <2>3, ConcatProperties DEF Joint
  <2>5. ASSUME NEW i \in 0 .. n + 1 PROVE g[i] \in Seq(S)
    BY <2>1, <2>2, <2>4
  <2>6. g[0] = <<>>
    BY <2>1, <2>2
  <2>7. ASSUME NEW i \in 1 .. n + 1 PROVE g[i] = Joint(g[i - 1], s[i])
    <3>1. CASE i = n + 1
      <4>1. i - 1 = n /\ n \in 0 .. n + 1 /\ n # n + 1
        BY <2>1, <3>1
      <4>2. g[i - 1] = f[n] /\ g[i] = Joint(f[n], s[n + 1])
        BY <3>1, <4>1
      <4> HIDE DEF g
      <4> QED BY <3>1, <4>2
    <3>2. CASE i # n + 1
      <4>1. i \in 1 .. n /\ i - 1 \in 0 .. n + 1 /\ i - 1 # n + 1
        BY <2>1, <3>2
      <4>2. g[i - 1] = f[i - 1] /\ g[i] = f[i]
        BY <3>2, <4>1
      <4> HIDE DEF g
      <4> QED BY <2>2, <4>1, <4>2
    <3> QED BY <3>1, <3>2
  <2>8. RunsTo(S, s, n + 1)
    <3>1. g \in [0 .. n + 1 -> Seq(S)]
      BY <2>5
    <3> HIDE DEF g
    <3> QED BY <2>6, <2>7, <3>1 DEF RunsTo
  <2> QED BY <2>8
<1> HIDE DEF T
<1>4. T = Nat
  <2>1. T \subseteq Nat
    BY DEF T
  <2> QED BY <1>2, <1>3, <2>1, Induction
<1>5. Len(s) \in T
  BY <1>1, <1>4
<1> QED BY SMTT(20), <1>5 DEF T, RunsTo, Runs

\* Two sequences that begin alike amount to the same so far.
LEMMA RunsAgree ==
  ASSUME NEW S, NEW s, NEW t, NEW f, NEW g, NEW n \in Nat,
         Runs(S, s, f), Runs(S, t, g), Len(s) \in Nat, Len(t) \in Nat,
         n <= Len(s), n <= Len(t), \A i \in 1 .. n : s[i] = t[i]
  PROVE  f[n] = g[n]
<1> DEFINE T == {k \in Nat : k <= n => f[k] = g[k]}
<1>1. 0 \in T
  BY DEF Runs
<1>2. ASSUME NEW k \in T PROVE k + 1 \in T
  <2>1. SUFFICES ASSUME k + 1 <= n PROVE f[k + 1] = g[k + 1]
    OBVIOUS
  <2>2. k + 1 \in 1 .. n /\ k + 1 \in 1 .. Len(s) /\ k + 1 \in 1 .. Len(t) /\ (k + 1) - 1 = k
    BY <2>1
  <2>3. f[k + 1] = Joint(f[k], s[k + 1]) /\ g[k + 1] = Joint(g[k], t[k + 1])
    BY <2>2 DEF Runs
  <2>4. f[k] = g[k] /\ s[k + 1] = t[k + 1]
    BY <2>1, <2>2
  <2> QED BY <2>3, <2>4
<1> HIDE DEF T
<1>3. T = Nat
  <2>1. T \subseteq Nat
    BY DEF T
  <2> QED BY <1>1, <1>2, <2>1, Induction
<1> QED BY <1>3 DEF T

\* What FlattenSeq computes, step by step.
LEMMA FlattenRuns ==
  ASSUME NEW S, NEW s \in Seq(Seq(S)), NEW runs, Runs(S, s, runs)
  PROVE  FlattenSeq(s) = runs[Len(s)]
<1>1. CASE Len(s) = 0
  <2>1. s = <<>>
    BY <1>1
  <2> QED BY <1>1, <2>1 DEF FlattenSeq, Runs
<1>2. CASE Len(s) # 0
  <2> DEFINE flatten[i \in 1 .. Len(s)] == IF i = 1 THEN s[i] ELSE Joint(flatten[i - 1], s[i])
  <2>1. FlattenSeq(s) = flatten[Len(s)]
    BY <1>2 DEF FlattenSeq, Joint
  <2> DEFINE f == [i \in 1 .. Len(s) |-> runs[i]]
  <2>2. Len(s) \in Nat
    OBVIOUS
  <2>3. ASSUME NEW i \in 1 .. Len(s)
        PROVE  runs[i] = IF i = 1 THEN s[i] ELSE Joint(f[i - 1], s[i])
    <3>1. runs[i] = Joint(runs[i - 1], s[i])
      BY DEF Runs
    <3>0. s[i] \in Seq(S)
      BY ElementOfSeq
    <3>2. CASE i = 1
      <4>1. runs[i] = Joint(<<>>, s[i])
        BY <3>1, <3>2 DEF Runs
      <4>2. Joint(<<>>, s[i]) = s[i]
        BY <3>0, ConcatEmptySeq DEF Joint
      <4> QED BY <3>2, <4>1, <4>2
    <3>3. CASE i # 1
      <4>1. i - 1 \in 1 .. Len(s)
        BY <2>2, <3>3
      <4>2. f[i - 1] = runs[i - 1]
        BY <4>1
      <4> QED BY <3>1, <3>3, <4>2
    <3> QED BY <3>2, <3>3
  <2>4. f = [i \in 1 .. Len(s) |-> IF i = 1 THEN s[i] ELSE Joint(f[i - 1], s[i])]
    BY <2>3
  <2>5. flatten = [i \in 1 .. Len(s) |-> IF i = 1 THEN s[i] ELSE Joint(flatten[i - 1], s[i])]
    BY <2>4
  <2> HIDE DEF flatten
  <2> DEFINE T == {k \in Nat : k \in 1 .. Len(s) => flatten[k] = runs[k]}
  <2>6. 0 \in T
    OBVIOUS
  <2>7. ASSUME NEW k \in T PROVE k + 1 \in T
    <3> SUFFICES ASSUME k + 1 \in 1 .. Len(s) PROVE flatten[k + 1] = runs[k + 1]
      OBVIOUS
    <3>1. flatten[k + 1] = IF k + 1 = 1 THEN s[k + 1] ELSE Joint(flatten[(k + 1) - 1], s[k + 1])
      BY <2>5
    <3>2. runs[k + 1] = IF k + 1 = 1 THEN s[k + 1] ELSE Joint(f[(k + 1) - 1], s[k + 1])
      BY <2>3
    <3>3. CASE k = 0
      BY <3>1, <3>2, <3>3
    <3>4. CASE k # 0
      <4>1. k \in 1 .. Len(s) /\ (k + 1) - 1 = k
        BY <2>2, <3>4
      <4>2. flatten[k] = runs[k] /\ f[k] = runs[k]
        BY <4>1
      <4> QED BY <3>1, <3>2, <4>1, <4>2
    <3> QED BY <3>3, <3>4
  <2> HIDE DEF T
  <2>8. T = Nat
    <3>1. T \subseteq Nat
      BY DEF T
    <3> QED BY <2>6, <2>7, <3>1, Induction
  <2>9. Len(s) \in 1 .. Len(s) /\ Len(s) \in Nat
    BY <1>2, <2>2
  <2> QED BY <2>1, <2>8, <2>9 DEF T
<1> QED BY <1>1, <1>2

\* What was put together first stays where it is.
Prefixed(a, b) == Len(a) <= Len(b) /\ \A p \in 1 .. Len(a) : b[p] = a[p]

\* c is a and behind it b.
Glued(a, b, c) ==
  /\ Len(c) = Len(a) + Len(b)
  /\ \A p \in 1 .. Len(a) : c[p] = a[p]
  /\ \A p \in 1 .. Len(b) : c[Len(a) + p] = b[p] /\ Len(a) + p \in 1 .. Len(c)

LEMMA JointGlued ==
  ASSUME NEW S, NEW a \in Seq(S), NEW b \in Seq(S)
  PROVE  Joint(a, b) \in Seq(S) /\ Glued(a, b, Joint(a, b)) /\ Prefixed(a, Joint(a, b))
<1>1. Len(a) \in Nat /\ Len(b) \in Nat
  OBVIOUS
<1>2. /\ Joint(a, b) \in Seq(S)
      /\ Len(Joint(a, b)) = Len(a) + Len(b)
      /\ \A i \in 1 .. Len(a) + Len(b) :
           Joint(a, b)[i] = IF i <= Len(a) THEN a[i] ELSE b[i - Len(a)]
  BY ConcatProperties DEF Joint
<1>3. ASSUME NEW p \in 1 .. Len(a) PROVE Joint(a, b)[p] = a[p]
  <2>1. p \in 1 .. Len(a) + Len(b) /\ p <= Len(a)
    BY <1>1
  <2> QED BY <1>2, <2>1
<1>4. ASSUME NEW p \in 1 .. Len(b)
      PROVE  Joint(a, b)[Len(a) + p] = b[p] /\ Len(a) + p \in 1 .. Len(Joint(a, b))
  <2>1. /\ Len(a) + p \in 1 .. Len(a) + Len(b) /\ ~(Len(a) + p <= Len(a))
        /\ (Len(a) + p) - Len(a) = p
    BY <1>1
  <2> QED BY <1>2, <2>1
<1>5. Glued(a, b, Joint(a, b))
  BY Zenon, <1>2, <1>3, <1>4 DEF Glued
<1>6. Prefixed(a, Joint(a, b))
  BY <1>1, <1>5 DEF Glued, Prefixed
<1> QED BY <1>2, <1>5, <1>6

LEMMA JointGrows ==
  ASSUME NEW S, NEW a \in Seq(S), NEW b \in Seq(S), NEW c, c = Joint(a, b)
  PROVE  c \in Seq(S) /\ Glued(a, b, c) /\ Prefixed(a, c)
BY JointGlued

LEMMA RunsGrow ==
  ASSUME NEW S, NEW s \in Seq(Seq(S)), NEW runs, Runs(S, s, runs),
         NEW i \in 0 .. Len(s), NEW m \in i .. Len(s)
  PROVE  Prefixed(runs[i], runs[m])
<1> DEFINE T == {d \in Nat : i + d <= Len(s) => Prefixed(runs[i], runs[i + d])}
<1>0. Len(s) \in Nat /\ i \in Nat /\ runs[i] \in Seq(S)
  <2>1. Len(s) \in Nat
    OBVIOUS
  <2>2. i \in Nat
    BY <2>1
  <2>3. runs[i] \in Seq(S)
    BY DEF Runs
  <2> QED BY <2>1, <2>2, <2>3
<1>1. 0 \in T
  <2>1. i + 0 = i /\ Len(runs[i]) \in Nat
    BY <1>0
  <2> QED BY <2>1 DEF Prefixed
<1>2. ASSUME NEW d \in T PROVE d + 1 \in T
  <2>1. SUFFICES ASSUME i + (d + 1) <= Len(s) PROVE Prefixed(runs[i], runs[i + (d + 1)])
    OBVIOUS
  <2>2. /\ i + d <= Len(s) /\ i + d \in 0 .. Len(s) /\ i + (d + 1) \in 1 .. Len(s)
        /\ (i + (d + 1)) - 1 = i + d
    BY <1>0, <2>1
  <2>3. Prefixed(runs[i], runs[i + d])
    BY <2>2
  <2>4. runs[i + (d + 1)] = Joint(runs[i + d], s[i + (d + 1)])
    BY <2>2 DEF Runs
  <2>5. runs[i + d] \in Seq(S) /\ s[i + (d + 1)] \in Seq(S)
    BY <2>2, ElementOfSeq DEF Runs
  <2>6. Prefixed(runs[i + d], runs[i + (d + 1)])
    BY <2>4, <2>5, JointGrows
  <2>7. Len(runs[i]) \in Nat /\ Len(runs[i + d]) \in Nat
    BY <1>0, <2>5
  <2>8. Len(runs[i + (d + 1)]) \in Nat
    <3>1. runs[i + (d + 1)] \in Seq(S)
      BY <2>4, <2>5, JointGrows
    <3> QED BY <3>1
  <2> QED BY SMTT(20), <2>3, <2>6, <2>7, <2>8 DEF Prefixed
<1> HIDE DEF T
<1>3. T = Nat
  <2>1. T \subseteq Nat
    BY DEF T
  <2> QED BY <1>1, <1>2, <2>1, Induction
<1>4. m - i \in Nat /\ i + (m - i) = m /\ m <= Len(s)
  BY <1>0
<1> QED BY <1>3, <1>4 DEF T

\* at[i] is where sequence i of s ends in FlattenSeq(s).
IsLayout(s, at) ==
  /\ at \in [0 .. Len(s) -> Nat]
  /\ at[0] = 0
  /\ \A i \in 1 .. Len(s) : at[i] = at[i - 1] + Len(s[i])
  /\ Len(FlattenSeq(s)) = at[Len(s)]
  /\ \A i \in 0 .. Len(s), m \in 0 .. Len(s) : i <= m => at[i] <= at[m]
  /\ \A i \in 1 .. Len(s) : \A j \in 1 .. Len(s[i]) : FlattenSeq(s)[at[i - 1] + j] = s[i][j]

Layout(s) == CHOOSE at : IsLayout(s, at)

\* FlattenSeq puts sequences one behind the other.
LEMMA FlattenLayout ==
  ASSUME NEW S, NEW s \in Seq(Seq(S))
  PROVE  FlattenSeq(s) \in Seq(S) /\ IsLayout(s, Layout(s))
<1>0. Len(s) \in Nat
  OBVIOUS
<1>1. PICK runs : Runs(S, s, runs)
  BY RunsExist
<1>2. FlattenSeq(s) = runs[Len(s)]
  BY <1>1, FlattenRuns
<1> DEFINE at == [i \in 0 .. Len(s) |-> Len(runs[i])]
<1>3. ASSUME NEW i \in 0 .. Len(s)
      PROVE  runs[i] \in Seq(S) /\ Len(runs[i]) \in Nat /\ at[i] = Len(runs[i])
  <2>1. runs[i] \in Seq(S)
    BY <1>1 DEF Runs
  <2> QED BY <2>1
<1>4. at \in [0 .. Len(s) -> Nat]
  BY <1>3
<1>5. at[0] = 0
  <2>1. runs[0] = <<>> /\ 0 \in 0 .. Len(s)
    BY <1>0, <1>1 DEF Runs
  <2> QED BY <2>1, EmptySeq
<1> HIDE DEF at
<1>6. ASSUME NEW i \in 1 .. Len(s)
      PROVE  /\ at[i] = at[i - 1] + Len(s[i])
             /\ \A j \in 1 .. Len(s[i]) : FlattenSeq(s)[at[i - 1] + j] = s[i][j]
  <2>1. i \in 0 .. Len(s) /\ i - 1 \in 0 .. Len(s) /\ Len(s) \in i .. Len(s)
    BY <1>0
  <2>2. runs[i] = Joint(runs[i - 1], s[i]) /\ s[i] \in Seq(S) /\ runs[i - 1] \in Seq(S)
    BY <1>1, <1>3, <2>1, ElementOfSeq DEF Runs
  <2>3. /\ Len(runs[i]) = Len(runs[i - 1]) + Len(s[i])
        /\ \A j \in 1 .. Len(s[i]) : /\ runs[i][Len(runs[i - 1]) + j] = s[i][j]
                                     /\ Len(runs[i - 1]) + j \in 1 .. Len(runs[i])
    <3>1. Glued(runs[i - 1], s[i], runs[i])
      BY <2>2, JointGrows
    <3> QED BY <3>1 DEF Glued
  <2>4. at[i] = Len(runs[i]) /\ at[i - 1] = Len(runs[i - 1])
    BY <1>3, <2>1
  <2>5. ASSUME NEW j \in 1 .. Len(s[i]) PROVE FlattenSeq(s)[at[i - 1] + j] = s[i][j]
    <3>1. Prefixed(runs[i], runs[Len(s)])
      BY <1>1, <2>1, RunsGrow
    <3>2. Len(runs[i - 1]) + j \in 1 .. Len(runs[i])
      BY <2>3
    <3>3. runs[Len(s)][Len(runs[i - 1]) + j] = runs[i][Len(runs[i - 1]) + j]
      BY <3>1, <3>2 DEF Prefixed
    <3>4. runs[i][Len(runs[i - 1]) + j] = s[i][j]
      BY <2>3
    <3> QED BY <1>2, <2>4, <3>3, <3>4
  <2> QED BY <2>3, <2>4, <2>5
<1>7. ASSUME NEW i \in 0 .. Len(s), NEW m \in 0 .. Len(s), i <= m
      PROVE  at[i] <= at[m]
  <2>1. m \in i .. Len(s)
    BY <1>0, <1>7
  <2>2. Prefixed(runs[i], runs[m])
    BY <1>1, <2>1, RunsGrow
  <2> QED BY <1>3, <2>2 DEF Prefixed
<1>8. Len(FlattenSeq(s)) = at[Len(s)] /\ FlattenSeq(s) \in Seq(S)
  <2>1. Len(s) \in 0 .. Len(s)
    BY <1>0
  <2> QED BY <1>2, <1>3, <2>1
<1>9. IsLayout(s, at)
  BY <1>4, <1>5, <1>6, <1>7, <1>8 DEF IsLayout
<1> QED BY <1>8, <1>9 DEF Layout

\* c is what s has at the positions m .. n.
IsSlice(c, s, m, n) ==
  /\ Len(c) = (n - m) + 1
  /\ \A i \in 1 .. (n - m) + 1 : c[i] = s[(m + i) - 1]

LEMMA SliceIs ==
  ASSUME NEW S, NEW s \in Seq(S), NEW m \in 1 .. Len(s) + 1, NEW n \in m - 1 .. Len(s)
  PROVE  SubSeq(s, m, n) \in Seq(S) /\ IsSlice(SubSeq(s, m, n), s, m, n)
<1>0. Len(s) \in Nat
  OBVIOUS
<1>1. m \in Int /\ n \in Int /\ m >= 1 /\ n <= Len(s) /\ m - 1 <= n
  BY <1>0
<1>2. \A i \in m .. n : s[i] \in S
  BY <1>0, <1>1, ElementOfSeq
<1>3. /\ SubSeq(s, m, n) \in Seq(S)
      /\ Len(SubSeq(s, m, n)) = IF m <= n THEN n - m + 1 ELSE 0
      /\ \A i \in 1 .. n - m + 1 : SubSeq(s, m, n)[i] = s[m + i - 1]
  BY <1>1, <1>2, SubSeqProperties
<1> DEFINE c == SubSeq(s, m, n)
<1>4. c \in Seq(S) /\ \A i \in 1 .. n - m + 1 : c[i] = s[m + i - 1]
  BY <1>3
<1>5. Len(c) = IF m <= n THEN n - m + 1 ELSE 0
  BY <1>3
<1> HIDE DEF c
<1>6. CASE m <= n
  <2>1. Len(c) = (n - m) + 1
    BY <1>5, <1>6
  <2> QED BY <1>4, <2>1 DEF c, IsSlice
<1>7. CASE ~(m <= n)
  <2>1. (n - m) + 1 = 0
    BY <1>1, <1>7
  <2>2. Len(c) = (n - m) + 1
    BY <1>5, <1>7, <2>1
  <2> QED BY <1>4, <2>2 DEF c, IsSlice
<1> QED BY <1>6, <1>7

LEMMA FrontIs ==
  ASSUME NEW S, NEW s \in Seq(S), s # <<>>
  PROVE  /\ Front(s) \in Seq(S) /\ Len(Front(s)) = Len(s) - 1 /\ Len(s) > 0
         /\ \A i \in 1 .. Len(s) - 1 : Front(s)[i] = s[i]
<1>1. Len(s) \in Nat /\ Len(s) > 0
  BY EmptySeq
<1>2. 1 \in 1 .. Len(s) + 1 /\ Len(s) - 1 \in 1 - 1 .. Len(s)
  BY <1>1
<1> DEFINE f == Front(s)
<1>3. f \in Seq(S) /\ IsSlice(f, s, 1, Len(s) - 1)
  BY <1>2, SliceIs DEF Front
<1> HIDE DEF f
<1>4. (Len(s) - 1 - 1) + 1 = Len(s) - 1 /\ \A i \in 1 .. Len(s) - 1 : (1 + i) - 1 = i
  BY <1>1
<1>5. Len(f) = Len(s) - 1 /\ \A i \in 1 .. Len(s) - 1 : f[i] = s[i]
  BY <1>3, <1>4 DEF IsSlice
<1> QED BY <1>1, <1>3, <1>5 DEF f

\* All but the last sequence give all but the end.
LEMMA FlattenFront ==
  ASSUME NEW S, NEW s \in Seq(Seq(S)), s # <<>>
  PROVE  FlattenSeq(s) = Joint(FlattenSeq(Front(s)), s[Len(s)])
<1> DEFINE f == Front(s)
<1>0. Len(s) \in Nat /\ Len(s) > 0
  BY EmptySeq
<1>1. /\ f \in Seq(Seq(S)) /\ Len(f) = Len(s) - 1
      /\ \A i \in 1 .. Len(s) - 1 : f[i] = s[i]
  BY FrontIs
<1> HIDE DEF f
<1>2. PICK runs : Runs(S, s, runs)
  BY RunsExist
<1>3. PICK fruns : Runs(S, f, fruns)
  BY <1>1, RunsExist
<1>4. FlattenSeq(s) = runs[Len(s)] /\ FlattenSeq(f) = fruns[Len(f)]
  BY <1>1, <1>2, <1>3, FlattenRuns
<1>5. runs[Len(f)] = fruns[Len(f)]
  <2>1. Len(f) \in Nat /\ Len(f) <= Len(s) /\ Len(f) <= Len(f)
    BY <1>0, <1>1
  <2>2. \A i \in 1 .. Len(f) : s[i] = f[i]
    BY <1>1
  <2>3. Len(f) \in Nat /\ Len(s) \in Nat /\ Len(f) <= Len(f)
    BY <1>0, <1>1
  <2> QED BY <1>2, <1>3, <2>1, <2>2, <2>3, RunsAgree
<1>6. runs[Len(s)] = Joint(runs[Len(s) - 1], s[Len(s)])
  <2>1. Len(s) \in 1 .. Len(s)
    BY <1>0
  <2> QED BY <1>2, <2>1 DEF Runs
<1>7. FlattenSeq(s) = Joint(FlattenSeq(f), s[Len(s)])
  BY <1>1, <1>4, <1>5, <1>6
<1> QED BY <1>7 DEF f

-----------------------------------------------------------------------------
(* Start codes                                                             *)

\* A start code, byte by byte.
Mark(d, i) == d[i] = 0 /\ d[i + 1] = 0 /\ d[i + 2] = 1

LEMMA CodeAtIs ==
  ASSUME NEW S, NEW d \in Seq(S), NEW i \in 1 .. Len(d) - 2
  PROVE  CodeAt(d, i) <=> Mark(d, i)
<1>0. Len(d) \in Nat /\ i \in 1 .. Len(d) + 1 /\ i + 2 \in i - 1 .. Len(d)
  OBVIOUS
<1> DEFINE c == SubSeq(d, i, i + 2)
<1>1. c \in Seq(S) /\ IsSlice(c, d, i, i + 2)
  BY <1>0, SliceIs
<1> HIDE DEF c
<1>2. /\ ((i + 2) - i) + 1 = 3 /\ 1 \in 1 .. 3 /\ 2 \in 1 .. 3 /\ 3 \in 1 .. 3
      /\ (i + 1) - 1 = i /\ (i + 2) - 1 = i + 1 /\ (i + 3) - 1 = i + 2
  BY <1>0
<1>3. Len(c) = 3 /\ c[1] = d[i] /\ c[2] = d[i + 1] /\ c[3] = d[i + 2]
  BY <1>1, <1>2 DEF IsSlice
<1> DEFINE code == <<0, 0, 1>>
<1>4. code \in Seq(Int) /\ Len(code) = 3 /\ code[1] = 0 /\ code[2] = 0 /\ code[3] = 1
  OBVIOUS
<1>5. CodeAt(d, i) <=> c = code
  BY DEF CodeAt, StartCode, c
<1> HIDE DEF code
<1>6. ASSUME Mark(d, i) PROVE c = code
  <2>1. c[1] = 0 /\ c[2] = 0 /\ c[3] = 1
    BY <1>3, <1>6 DEF Mark
  <2>2. c \in Seq(S \cup Int) /\ code \in Seq(S \cup Int)
    BY <1>1, <1>4, SeqMonotonic
  <2>3. ASSUME NEW k \in 1 .. Len(c) PROVE c[k] = code[k]
    <3>1. k = 1 \/ k = 2 \/ k = 3
      BY <1>3
    <3> QED BY <1>4, <2>1, <3>1
  <2> QED BY <1>3, <1>4, <2>2, <2>3, SeqEqual
<1>7. ASSUME c = code PROVE Mark(d, i)
  BY <1>3, <1>4, <1>7 DEF Mark
<1> QED BY <1>5, <1>6, <1>7

\* The bytes before a NAL in the stream of the encoder.
CodeLen(nal) == IF nal[1] % 32 \in {7, 8} THEN 4 ELSE 3

LEMMA CodedIs ==
  ASSUME NEW nal \in Seq(Byte)
  PROVE  /\ Coded(nal) \in Seq(Byte)
         /\ CodeLen(nal) \in {3, 4} /\ Len(Coded(nal)) = CodeLen(nal) + Len(nal)
         /\ Coded(nal)[1] = 0
         /\ Mark(Coded(nal), CodeLen(nal) - 2)
         /\ CodeLen(nal) = 4 => Coded(nal)[2] = 0
         /\ \A j \in 1 .. Len(nal) : Coded(nal)[CodeLen(nal) + j] = nal[j]
<1> DEFINE code == (IF nal[1] % 32 \in {7, 8} THEN <<0>> ELSE <<>>) \o StartCode
<1>1. Coded(nal) = Joint(code, nal)
  BY DEF Coded, Joint
<1>2. /\ code \in Seq(Byte) /\ Len(code) = CodeLen(nal) /\ CodeLen(nal) \in {3, 4}
      /\ code[1] = 0 /\ Mark(code, CodeLen(nal) - 2)
      /\ CodeLen(nal) = 4 => code[2] = 0
  <2>1. CASE nal[1] % 32 \in {7, 8}
    <3> DEFINE zero == <<0>>
    <3>1. code = Joint(zero, StartCode)
      BY <2>1 DEF Joint
    <3>2. /\ zero \in Seq(Byte) /\ Len(zero) = 1 /\ zero[1] = 0
          /\ StartCode \in Seq(Byte) /\ Len(StartCode) = 3
          /\ StartCode[1] = 0 /\ StartCode[2] = 0 /\ StartCode[3] = 1
      BY DEF Byte, StartCode
    <3> HIDE DEF zero, code
    <3>3. code \in Seq(Byte) /\ Glued(zero, StartCode, code)
      BY <3>1, <3>2, JointGrows
    <3>4. Len(code) = 4 /\ code[1] = 0 /\ code[1 + 1] = 0 /\ code[1 + 2] = 0 /\ code[1 + 3] = 1
      BY <3>2, <3>3 DEF Glued
    <3>5. CodeLen(nal) = 4 /\ CodeLen(nal) - 2 = 2
      BY <2>1 DEF CodeLen
    <3>6. code[1] = 0 /\ code[2] = 0 /\ code[2 + 1] = 0 /\ code[2 + 2] = 1
      BY <3>4
    <3> QED BY <3>3, <3>4, <3>5, <3>6 DEF Mark
  <2>2. CASE ~(nal[1] % 32 \in {7, 8})
    <3>1. code = <<0, 0, 1>>
      <4>1. <<>> \o <<0, 0, 1>> = <<0, 0, 1>>
        <5>1. <<0, 0, 1>> \in Seq(Int)
          OBVIOUS
        <5> QED BY <5>1, ConcatEmptySeq
      <4>2. code = <<>> \o <<0, 0, 1>>
        BY Zenon, <2>2 DEF StartCode
      <4> QED BY <4>1, <4>2
    <3>2. /\ <<0, 0, 1>> \in Seq(Byte) /\ Len(<<0, 0, 1>>) = 3
          /\ <<0, 0, 1>>[1] = 0 /\ Mark(<<0, 0, 1>>, 1)
      BY DEF Byte, Mark
    <3>3. CodeLen(nal) = 3 /\ CodeLen(nal) - 2 = 1
      BY <2>2 DEF CodeLen
    <3> HIDE DEF code
    <3> QED BY <3>1, <3>2, <3>3
  <2> QED BY <2>1, <2>2
<1> HIDE DEF code
<1>3. Coded(nal) \in Seq(Byte) /\ Glued(code, nal, Coded(nal))
  BY <1>1, <1>2, JointGrows
<1>4. \A p \in 1 .. CodeLen(nal) : Coded(nal)[p] = code[p]
  BY <1>2, <1>3 DEF Glued
<1>5. Coded(nal)[1] = 0 /\ Mark(Coded(nal), CodeLen(nal) - 2) /\ (CodeLen(nal) = 4 => Coded(nal)[2] = 0)
  <2>1. CASE CodeLen(nal) = 3
    <3>1. 1 \in 1 .. 3 /\ 2 \in 1 .. 3 /\ 3 \in 1 .. 3 /\ 3 - 2 = 1 /\ 1 + 1 = 2 /\ 1 + 2 = 3 /\ 3 # 4
      OBVIOUS
    <3> QED BY <1>2, <1>4, <2>1, <3>1 DEF Mark
  <2>2. CASE CodeLen(nal) = 4
    <3>1. /\ 1 \in 1 .. 4 /\ 2 \in 1 .. 4 /\ 3 \in 1 .. 4 /\ 4 \in 1 .. 4
          /\ 4 - 2 = 2 /\ 2 + 1 = 3 /\ 2 + 2 = 4
      OBVIOUS
    <3> QED BY <1>2, <1>4, <2>2, <3>1 DEF Mark
  <2> QED BY <1>2, <2>1, <2>2
<1>6. Len(Coded(nal)) = CodeLen(nal) + Len(nal)
  BY <1>2, <1>3 DEF Glued
<1>7. \A j \in 1 .. Len(nal) : Coded(nal)[CodeLen(nal) + j] = nal[j]
  BY <1>2, <1>3 DEF Glued
<1> QED BY <1>2, <1>3, <1>5, <1>6, <1>7

-----------------------------------------------------------------------------
(* The stream of the encoder                                               *)

LEMMA Least ==
  ASSUME NEW T, T \subseteq Nat, T # {}
  PROVE  \E n \in T : \A m \in T : n <= m
<1>1. PICK n \in T : \A m \in T : <<m, n>> \notin OpToRel(<, Nat)
  BY NatLessThanWellFounded, WFMin
<1>2. ASSUME NEW m \in T PROVE n <= m
  <2>1. m \in Nat /\ n \in Nat
    OBVIOUS
  <2>2. ~(m < n)
    BY <1>1, <2>1 DEF OpToRel
  <2> QED BY <2>1, <2>2
<1> QED BY <1>2

\* What TrialsAssumption says of a stream.
GoodStream(nals) ==
  /\ nals \in Seq(Seq(Byte))
  /\ \A n \in 1 .. Len(nals) :
       /\ nals[n] # <<>> /\ nals[n][Len(nals[n])] # 0
       /\ \A i \in 1 .. Len(nals[n]) - 2 : ~CodeAt(nals[n], i)

\* The NALs as the encoder codes them, and how long each is.
CodedAll(nals) == [n \in DOMAIN nals |-> Coded(nals[n])]
Lens(nals) == [n \in 1 .. Len(nals) |-> Len(nals[n])]

\* NAL n is behind st[n] bytes of the stream.
Starts(nals) == [n \in 1 .. Len(nals) |-> Layout(CodedAll(nals))[n] - Lens(nals)[n]]

\* No start code begins in NAL n, nor in the zeros before its own.
LEMMA NoOtherMark ==
  ASSUME NEW nal \in Seq(Byte), nal # <<>>, nal[Len(nal)] # 0,
         \A i \in 1 .. Len(nal) - 2 : ~CodeAt(nal, i),
         NEW B, NEW a \in Nat,
         \A j \in 1 .. CodeLen(nal) + Len(nal) : B[a + j] = Coded(nal)[j],
         NEW o \in 1 .. CodeLen(nal) + Len(nal), Mark(B, a + o)
  PROVE  o = CodeLen(nal) - 2
<1> DEFINE c == CodeLen(nal)
           l == Len(nal)
           d == Coded(nal)
<1>1. /\ c \in {3, 4} /\ l \in Nat /\ l > 0 /\ nal[l] # 0
      /\ d[1] = 0 /\ Mark(d, c - 2) /\ (c = 4 => d[2] = 0)
      /\ \A j \in 1 .. l : d[c + j] = nal[j]
  BY CodedIs, EmptySeq
<1>2. \A i \in 1 .. l - 2 : ~Mark(nal, i)
  BY CodeAtIs
<1>3. \A j \in 1 .. c + l : B[a + j] = d[j]
  OBVIOUS
<1>4. o \in 1 .. c + l /\ B[a + o] = 0 /\ B[a + o + 1] = 0 /\ B[a + o + 2] = 1
  BY DEF Mark
<1> HIDE DEF c, l, d
<1>5. SUFFICES ASSUME o # c - 2 PROVE FALSE
  BY DEF c
<1>6. \A j \in 1 .. l : B[a + (c + j)] = nal[j]
  <2> SUFFICES ASSUME NEW j \in 1 .. l PROVE B[a + (c + j)] = nal[j]
    OBVIOUS
  <2>1. c + j \in 1 .. c + l
    BY <1>1
  <2> QED BY <1>1, <1>3, <2>1
<1>7. B[a + (c - 2)] = 0 /\ B[a + (c - 1)] = 0 /\ B[a + c] = 1
  <2>1. /\ c - 2 \in 1 .. c + l /\ c - 1 \in 1 .. c + l /\ c \in 1 .. c + l
        /\ (c - 2) + 1 = c - 1 /\ (c - 2) + 2 = c
    BY <1>1
  <2>2. d[c - 2] = 0 /\ d[c - 1] = 0 /\ d[c] = 1
    BY <1>1, <2>1 DEF Mark
  <2> QED BY <1>3, <2>1, <2>2
<1>8. CASE o = c - 1
  <2>1. a + o + 1 = a + c
    BY <1>1, <1>8
  <2> QED BY <1>4, <1>7, <2>1
<1>9. CASE o = c
  BY <1>4, <1>7, <1>9
<1>10. CASE c = 4 /\ o = 1
  <2>1. a + o + 2 = a + (c - 1)
    BY <1>10
  <2> QED BY <1>4, <1>7, <2>1
<1>11. CASE o > c
  <2> DEFINE j == o - c
  <2>1. j \in 1 .. l /\ o = c + j
    BY <1>1, <1>4, <1>11
  <2> HIDE DEF j
  <2>2. nal[j] = 0
    BY <1>4, <1>6, <2>1
  <2>3. j # l
    BY <1>1, <2>2
  <2>4. j + 1 \in 1 .. l /\ a + o + 1 = a + (c + (j + 1))
    BY <1>1, <2>1, <2>3
  <2>5. nal[j + 1] = 0
    BY <1>4, <1>6, <2>4
  <2>6. j + 1 # l
    BY <1>1, <2>5
  <2>7. j \in 1 .. l - 2 /\ j + 2 \in 1 .. l /\ a + o + 2 = a + (c + (j + 2))
    BY <1>1, <2>1, <2>4, <2>6
  <2>8. nal[j + 2] = 1
    BY <1>4, <1>6, <2>7
  <2> QED BY <1>2, <2>2, <2>5, <2>7, <2>8 DEF Mark
<1> QED BY <1>1, <1>4, <1>5, <1>8, <1>9, <1>10, <1>11

\* Where NAL n is in the stream, and that no start code is elsewhere.
StreamFacts(nals, B, len, st) ==
  /\ B \in Seq(Byte) /\ Len(B) \in Nat /\ Len(nals) \in Nat
  /\ \A n \in 1 .. Len(nals) :
       /\ nals[n] \in Seq(Byte) /\ len[n] = Len(nals[n]) /\ len[n] \in Nat /\ len[n] > 0
       /\ st[n] \in Nat /\ st[n] >= 3 /\ st[n] + len[n] <= Len(B)
       /\ Mark(B, st[n] - 2)
       /\ \A j \in 1 .. len[n] : B[st[n] + j] = nals[n][j]
  /\ \A n \in 1 .. Len(nals) - 1 :
       \/ st[n + 1] = st[n] + len[n] + 3
       \/ st[n + 1] = st[n] + len[n] + 4 /\ B[st[n] + len[n] + 1] = 0
  /\ \A m \in 1 .. Len(nals), n \in 1 .. Len(nals) : m < n => st[m] + len[m] + 3 <= st[n]
  /\ \A i \in 1 .. Len(B) - 2 : Mark(B, i) => \E n \in 1 .. Len(nals) : i = st[n] - 2
  /\ Len(nals) = 0 => Len(B) = 0
  /\ Len(nals) > 0 => st[1] \in {3, 4} /\ st[Len(nals)] + len[Len(nals)] = Len(B)

\* Where the NALs are in the stream, and that its start codes are where they should be.
LEMMA StreamIs ==
  ASSUME NEW nals, GoodStream(nals)
  PROVE  StreamFacts(nals, ByteStream(nals), Lens(nals), Starts(nals))
<1> DEFINE s == CodedAll(nals)
           B == ByteStream(nals)
           N == Len(nals)
           c == [n \in 1 .. N |-> CodeLen(nals[n])]
           len == Lens(nals)
           at == Layout(s)
           st == Starts(nals)
<1>1. nals \in Seq(Seq(Byte)) /\ N \in Nat /\ DOMAIN nals = 1 .. N
  BY DEF GoodStream
<1>2. ASSUME NEW n \in 1 .. N
      PROVE  /\ nals[n] \in Seq(Byte) /\ s[n] = Coded(nals[n]) /\ s[n] \in Seq(Byte)
             /\ c[n] \in {3, 4} /\ len[n] \in Nat /\ len[n] > 0
             /\ c[n] = CodeLen(nals[n]) /\ len[n] = Len(nals[n])
             /\ Len(s[n]) = c[n] + len[n]
             /\ s[n][1] = 0 /\ Mark(s[n], c[n] - 2) /\ (c[n] = 4 => s[n][2] = 0)
             /\ \A j \in 1 .. len[n] : s[n][c[n] + j] = nals[n][j]
  <2>1. nals[n] \in Seq(Byte) /\ nals[n] # <<>>
    BY <1>1, ElementOfSeq DEF GoodStream
  <2>2. s[n] = Coded(nals[n]) /\ c[n] = CodeLen(nals[n]) /\ len[n] = Len(nals[n])
    BY <1>1 DEF CodedAll, Lens
  <2>3. len[n] \in Nat /\ len[n] > 0
    BY <2>1, <2>2, EmptySeq
  <2>4. /\ Coded(nals[n]) \in Seq(Byte)
        /\ CodeLen(nals[n]) \in {3, 4} /\ Len(Coded(nals[n])) = CodeLen(nals[n]) + Len(nals[n])
        /\ Coded(nals[n])[1] = 0
        /\ Mark(Coded(nals[n]), CodeLen(nals[n]) - 2)
        /\ CodeLen(nals[n]) = 4 => Coded(nals[n])[2] = 0
        /\ \A j \in 1 .. Len(nals[n]) : Coded(nals[n])[CodeLen(nals[n]) + j] = nals[n][j]
    BY <2>1, CodedIs
  <2> HIDE DEF s, c, len
  <2> QED BY <2>1, <2>2, <2>3, <2>4
<1>3. s \in Seq(Seq(Byte)) /\ Len(s) = N
  <2>1. s = [n \in 1 .. N |-> Coded(nals[n])]
    BY <1>1 DEF CodedAll
  <2>2. \A n \in 1 .. N : Coded(nals[n]) \in Seq(Byte)
    BY <1>2
  <2> HIDE DEF s
  <2> QED BY <1>1, <2>1, <2>2
<1>4. B \in Seq(Byte) /\ IsLayout(s, at)
  <2>1. B = FlattenSeq(s)
    BY DEF ByteStream, CodedAll
  <2> HIDE DEF s, B
  <2> QED BY <1>3, <2>1, FlattenLayout
<1>5. /\ at \in [0 .. N -> Nat]
      /\ at[0] = 0
      /\ Len(B) = at[N]
      /\ \A i \in 0 .. N, m \in 0 .. N : i <= m => at[i] <= at[m]
  <2>1. B = FlattenSeq(s)
    BY DEF ByteStream, CodedAll
  <2> HIDE DEF s, B, at
  <2> QED BY <1>3, <1>4, <2>1 DEF IsLayout
<1>6. ASSUME NEW n \in 1 .. N
      PROVE  /\ at[n] = at[n - 1] + (c[n] + len[n])
             /\ \A j \in 1 .. c[n] + len[n] : B[at[n - 1] + j] = s[n][j]
  <2>1. B = FlattenSeq(s)
    BY DEF ByteStream, CodedAll
  <2>2. Len(s[n]) = c[n] + len[n]
    BY <1>2
  <2> HIDE DEF s, B, at, c, len
  <2> QED BY <1>3, <1>4, <2>1, <2>2 DEF IsLayout
<1>7. \A n \in 1 .. N : st[n] = at[n] - len[n]
  BY DEF Starts
<1> HIDE DEF s, B, at, c, len, st, N
<1>8. ASSUME NEW n \in 1 .. N
      PROVE  /\ n \in 0 .. N /\ n - 1 \in 0 .. N
             /\ at[n - 1] \in Nat /\ at[n] \in Nat /\ at[n] <= at[N] /\ at[N] \in Nat
             /\ st[n] = at[n - 1] + c[n] /\ st[n] + len[n] = at[n] /\ st[n] \in Nat
             /\ c[n] \in {3, 4} /\ len[n] \in Nat /\ len[n] > 0
  <2>1. n \in 0 .. N /\ n - 1 \in 0 .. N /\ N \in 0 .. N /\ n <= N
    BY <1>1
  <2>2. at[n - 1] \in Nat /\ at[n] \in Nat /\ at[n] <= at[N] /\ at[N] \in Nat
    BY <1>5, <2>1
  <2>3. c[n] \in {3, 4} /\ len[n] \in Nat /\ len[n] > 0
    BY <1>2
  <2>4. at[n] = at[n - 1] + (c[n] + len[n]) /\ st[n] = at[n] - len[n]
    BY <1>6, <1>7
  <2> QED BY <2>1, <2>2, <2>3, <2>4
<1>9. ASSUME NEW n \in 1 .. N
      PROVE  /\ st[n] >= 3 /\ st[n] + len[n] <= Len(B)
             /\ Mark(B, st[n] - 2)
             /\ \A j \in 1 .. len[n] : B[st[n] + j] = nals[n][j]
  <2>1. /\ st[n] >= 3 /\ st[n] + len[n] <= Len(B)
        /\ c[n] - 2 \in 1 .. c[n] + len[n] /\ c[n] - 1 \in 1 .. c[n] + len[n]
        /\ c[n] \in 1 .. c[n] + len[n]
        /\ (c[n] - 2) + 1 = c[n] - 1 /\ (c[n] - 2) + 2 = c[n]
        /\ at[n - 1] + (c[n] - 2) = st[n] - 2 /\ at[n - 1] + (c[n] - 1) = st[n] - 2 + 1
        /\ at[n - 1] + c[n] = st[n] - 2 + 2
    <3>1. /\ at[n - 1] \in Nat /\ at[n] <= Len(B) /\ st[n] = at[n - 1] + c[n]
          /\ st[n] + len[n] = at[n] /\ len[n] \in Nat /\ len[n] > 0
      BY <1>5, <1>8
    <3>2. c[n] = 3 \/ c[n] = 4
      BY <1>8
    <3>3. st[n] + len[n] <= Len(B)
      BY <3>1
    <3>4. CASE c[n] = 3
      BY SMTT(20), <3>1, <3>3, <3>4
    <3>5. CASE c[n] = 4
      BY SMTT(20), <3>1, <3>3, <3>5
    <3> QED BY <3>2, <3>4, <3>5
  <2>2. s[n][c[n] - 2] = 0 /\ s[n][c[n] - 1] = 0 /\ s[n][c[n]] = 1
    BY <1>2, <2>1 DEF Mark
  <2>3. Mark(B, st[n] - 2)
    BY <1>6, <2>1, <2>2 DEF Mark
  <2>4. ASSUME NEW j \in 1 .. len[n] PROVE B[st[n] + j] = nals[n][j]
    <3>1. c[n] + j \in 1 .. c[n] + len[n] /\ at[n - 1] + (c[n] + j) = st[n] + j
      BY <1>8
    <3> QED BY SMTT(20), <1>2, <1>6, <3>1
  <2> QED BY <2>1, <2>3, <2>4
<1>10. ASSUME NEW n \in 1 .. N - 1
       PROVE  \/ st[n + 1] = st[n] + len[n] + 3
              \/ st[n + 1] = st[n] + len[n] + 4 /\ B[st[n] + len[n] + 1] = 0
  <2>1. n \in 1 .. N /\ n + 1 \in 1 .. N /\ (n + 1) - 1 = n
    BY <1>1
  <2>2. /\ st[n + 1] = at[n] + c[n + 1] /\ st[n] + len[n] = at[n] /\ at[n] \in Nat
        /\ c[n + 1] \in {3, 4} /\ len[n + 1] \in Nat
    BY <1>8, <2>1
  <2>3. c[n + 1] = 4 => B[at[n] + 1] = 0
    <3> SUFFICES ASSUME c[n + 1] = 4 PROVE B[at[n] + 1] = 0
      OBVIOUS
    <3>1. 1 \in 1 .. c[n + 1] + len[n + 1]
      BY <2>2
    <3>2. B[at[(n + 1) - 1] + 1] = s[n + 1][1]
      BY <1>6, <2>1, <3>1
    <3> QED BY <1>2, <2>1, <3>2
  <2> QED BY <2>2, <2>3
<1>11. ASSUME NEW m \in 1 .. N, NEW n \in 1 .. N, m < n
       PROVE  st[m] + len[m] + 3 <= st[n]
  <2>1. m \in 0 .. N /\ n - 1 \in 0 .. N /\ m <= n - 1
    BY <1>1, <1>11
  <2>2. at[m] <= at[n - 1]
    BY <1>5, <2>1
  <2>3. st[m] + len[m] = at[m] /\ at[m] \in Nat
    BY <1>8
  <2>4. st[n] = at[n - 1] + c[n] /\ at[n - 1] \in Nat /\ c[n] \in {3, 4}
    BY <1>8
  <2> QED BY <2>2, <2>3, <2>4
<1>12. ASSUME NEW i \in 1 .. Len(B) - 2, Mark(B, i)
       PROVE  \E n \in 1 .. N : i = st[n] - 2
  <2> DEFINE T == {n \in Nat : n <= N /\ i <= at[n]}
  <2>0. Len(B) \in Nat /\ i \in Nat /\ i > 0 /\ i <= Len(B)
    BY <1>4
  <2>1. N \in T
    BY <1>1, <1>5, <2>0
  <2>2. PICK n \in T : \A m \in T : n <= m
    BY <2>1, Least
  <2>3. n \in Nat /\ n <= N /\ i <= at[n]
    OBVIOUS
  <2>4. n # 0
    BY <1>5, <2>0, <2>3
  <2>5. n \in 1 .. N /\ n - 1 \in Nat /\ n - 1 <= N /\ ~(n <= n - 1)
    BY <1>1, <2>3, <2>4
  <2>6. ~(i <= at[n - 1])
    BY <2>2, <2>5
  <2> HIDE DEF T
  <2> DEFINE o == i - at[n - 1]
  <2>7. /\ at[n - 1] \in Nat /\ at[n] = at[n - 1] + (c[n] + len[n])
        /\ c[n] \in {3, 4} /\ len[n] \in Nat /\ st[n] = at[n - 1] + c[n]
    BY <1>6, <1>8, <2>5
  <2>8. o \in 1 .. c[n] + len[n] /\ at[n - 1] + o = i
    <3>1. c[n] \in Nat /\ len[n] \in Nat /\ at[n - 1] \in Nat /\ i \in Nat
      BY <2>0, <2>7
    <3>2. i <= at[n - 1] + (c[n] + len[n]) /\ i > at[n - 1]
      BY <2>0, <2>3, <2>6, <2>7
    <3> QED BY <3>1, <3>2
  <2> HIDE DEF o
  <2>9. o = CodeLen(nals[n]) - 2
    <3>1. /\ nals[n] \in Seq(Byte) /\ c[n] = CodeLen(nals[n]) /\ len[n] = Len(nals[n])
          /\ s[n] = Coded(nals[n])
      BY <1>2, <2>5
    <3>2. /\ nals[n] # <<>> /\ nals[n][Len(nals[n])] # 0
          /\ \A k \in 1 .. Len(nals[n]) - 2 : ~CodeAt(nals[n], k)
      BY <2>5 DEF GoodStream, N
    <3>3. /\ \A j \in 1 .. CodeLen(nals[n]) + Len(nals[n]) : B[at[n - 1] + j] = Coded(nals[n])[j]
          /\ o \in 1 .. CodeLen(nals[n]) + Len(nals[n])
      BY <1>6, <2>5, <2>8, <3>1
    <3>4. Mark(B, at[n - 1] + o)
      BY <1>12, <2>8
    <3> QED BY <2>7, <3>1, <3>2, <3>3, <3>4, NoOtherMark
  <2>10. o = c[n] - 2
    BY <1>2, <2>5, <2>9
  <2> QED BY SMTT(20), <2>5, <2>7, <2>8, <2>10
<1>13. N = 0 => Len(B) = 0
  BY <1>5
<1>14. ASSUME N > 0 PROVE st[1] \in {3, 4} /\ st[N] + len[N] = Len(B)
  <2>1. 1 \in 1 .. N /\ N \in 1 .. N /\ 1 - 1 = 0
    BY <1>1, <1>14
  <2>2. st[1] = at[1 - 1] + c[1] /\ c[1] \in {3, 4} /\ st[N] + len[N] = at[N]
    BY <1>8, <2>1
  <2> QED BY <1>5, <2>1, <2>2
<1>15. Len(B) \in Nat
  BY <1>4
<1>16. \A n \in 1 .. N : nals[n] \in Seq(Byte) /\ len[n] = Len(nals[n])
  BY <1>2
<1>17. \A n \in 1 .. N : len[n] \in Nat /\ len[n] > 0 /\ st[n] \in Nat
  BY <1>8
<1>18. /\ B \in Seq(Byte) /\ Len(B) \in Nat /\ N \in Nat
       /\ \A n \in 1 .. N :
            /\ nals[n] \in Seq(Byte) /\ len[n] = Len(nals[n]) /\ len[n] \in Nat /\ len[n] > 0
            /\ st[n] \in Nat /\ st[n] >= 3 /\ st[n] + len[n] <= Len(B)
            /\ Mark(B, st[n] - 2)
            /\ \A j \in 1 .. len[n] : B[st[n] + j] = nals[n][j]
  BY <1>1, <1>4, <1>9, <1>15, <1>16, <1>17
<1>19. StreamFacts(nals, B, len, st)
  BY <1>10, <1>11, <1>12, <1>13, <1>14, <1>18 DEF StreamFacts, N
<1> QED BY <1>19 DEF B, len, st

-----------------------------------------------------------------------------
(* What the decoder should be fed                                          *)

\* The start code the receiver puts before a NAL.
LongCode == <<0>> \o StartCode

LEMMA LongCodeIs ==
  /\ LongCode \in Seq(Byte) /\ Len(LongCode) = 4
  /\ LongCode[1] = 0 /\ LongCode[2] = 0 /\ LongCode[3] = 0 /\ LongCode[4] = 1
<1> DEFINE zero == <<0>>
<1>1. LongCode = Joint(zero, StartCode)
  BY DEF LongCode, Joint
<1>2. /\ zero \in Seq(Byte) /\ Len(zero) = 1 /\ zero[1] = 0
      /\ StartCode \in Seq(Byte) /\ Len(StartCode) = 3
      /\ StartCode[1] = 0 /\ StartCode[2] = 0 /\ StartCode[3] = 1
  BY DEF Byte, StartCode
<1> HIDE DEF zero
<1>3. LongCode \in Seq(Byte) /\ Glued(zero, StartCode, LongCode)
  BY <1>1, <1>2, JointGrows
<1>4. /\ Len(LongCode) = 4 /\ LongCode[1] = 0
      /\ LongCode[1 + 1] = 0 /\ LongCode[1 + 2] = 0 /\ LongCode[1 + 3] = 1
  BY <1>2, <1>3 DEF Glued
<1> QED BY <1>3, <1>4

\* What a NAL is fed as.
AsFed(nal) == Joint(LongCode, nal)
FedAll(nals) == [n \in DOMAIN nals |-> AsFed(nals[n])]

\* The decoder has been fed ends[n] bytes with NAL n.
Ends(nals) == Layout(FedAll(nals))

\* Where NAL n is in what the decoder should be fed.
FeedFacts(nals, F, len, ends) ==
  /\ F \in Seq(Byte) /\ Len(F) \in Nat /\ Len(nals) \in Nat
  /\ ends \in [0 .. Len(nals) -> Nat]
  /\ ends[0] = 0 /\ ends[Len(nals)] = Len(F)
  /\ \A n \in 0 .. Len(nals) : ends[n] <= Len(F)
  /\ \A n \in 1 .. Len(nals) :
       /\ ends[n] = ends[n - 1] + (4 + len[n])
       /\ \A j \in 1 .. 4 : F[ends[n - 1] + j] = LongCode[j]
       /\ \A j \in 1 .. len[n] : F[(ends[n - 1] + 4) + j] = nals[n][j]

LEMMA AsFedIs ==
  ASSUME NEW nal \in Seq(Byte)
  PROVE  AsFed(nal) \in Seq(Byte) /\ Glued(LongCode, nal, AsFed(nal))
BY LongCodeIs, JointGrows DEF AsFed

LEMMA FeedAllIs ==
  ASSUME NEW nals, GoodStream(nals)
  PROVE  /\ FedAll(nals) \in Seq(Seq(Byte)) /\ Len(FedAll(nals)) = Len(nals)
         /\ Feed(nals) = FlattenSeq(FedAll(nals))
<1>1. nals \in Seq(Seq(Byte)) /\ Len(nals) \in Nat /\ DOMAIN nals = 1 .. Len(nals)
  BY DEF GoodStream
<1>2. \A n \in 1 .. Len(nals) : AsFed(nals[n]) \in Seq(Byte)
  BY <1>1, ElementOfSeq, AsFedIs
<1>3. FedAll(nals) = [n \in 1 .. Len(nals) |-> AsFed(nals[n])]
  BY <1>1 DEF FedAll
<1>4. FedAll(nals) \in Seq(Seq(Byte)) /\ Len(FedAll(nals)) = Len(nals)
  BY <1>1, <1>2, <1>3
<1>5. Feed(nals) = FlattenSeq(FedAll(nals))
  BY DEF Feed, FedAll, AsFed, LongCode, Joint
<1> QED BY <1>4, <1>5

\* Where the NALs are in what the decoder should be fed.
LEMMA FeedIs ==
  ASSUME NEW nals, GoodStream(nals)
  PROVE  FeedFacts(nals, Feed(nals), Lens(nals), Ends(nals))
<1> DEFINE s == FedAll(nals)
           F == Feed(nals)
           N == Len(nals)
           len == Lens(nals)
           at == Ends(nals)
<1>1. nals \in Seq(Seq(Byte)) /\ N \in Nat /\ DOMAIN nals = 1 .. N
  BY DEF GoodStream
<1>2. s \in Seq(Seq(Byte)) /\ Len(s) = N /\ F = FlattenSeq(s)
  BY FeedAllIs
<1>3. F \in Seq(Byte) /\ IsLayout(s, at)
  <2> HIDE DEF s, F
  <2> QED BY <1>2, FlattenLayout DEF Ends, s
<1>4. ASSUME NEW n \in 1 .. N
      PROVE  /\ len[n] \in Nat /\ len[n] = Len(nals[n])
             /\ Len(s[n]) = 4 + len[n]
             /\ \A j \in 1 .. 4 : s[n][j] = LongCode[j]
             /\ \A j \in 1 .. len[n] : s[n][4 + j] = nals[n][j]
  <2>1. nals[n] \in Seq(Byte)
    BY <1>1, ElementOfSeq
  <2>2. s[n] = AsFed(nals[n]) /\ len[n] = Len(nals[n])
    BY <1>1 DEF FedAll, Lens
  <2>3. len[n] \in Nat
    BY <2>1, <2>2
  <2>4. Glued(LongCode, nals[n], AsFed(nals[n]))
    BY <2>1, AsFedIs
  <2>5. Glued(LongCode, nals[n], s[n])
    BY <2>2, <2>4
  <2> HIDE DEF s, len
  <2> QED BY <2>2, <2>3, <2>5, LongCodeIs DEF Glued
<1>5. /\ at \in [0 .. N -> Nat]
      /\ at[0] = 0
      /\ Len(F) = at[N]
      /\ \A i \in 0 .. N, m \in 0 .. N : i <= m => at[i] <= at[m]
  <2> HIDE DEF s, F, at
  <2> QED BY <1>2, <1>3 DEF IsLayout
<1>6. ASSUME NEW n \in 1 .. N
      PROVE  /\ at[n] = at[n - 1] + (4 + len[n])
             /\ \A j \in 1 .. 4 + len[n] : F[at[n - 1] + j] = s[n][j]
  <2>1. Len(s[n]) = 4 + len[n]
    BY <1>4
  <2> HIDE DEF s, F, at, len
  <2> QED BY <1>2, <1>3, <2>1 DEF IsLayout
<1> HIDE DEF s, F, at, len, N
<1>7. ASSUME NEW n \in 1 .. N
      PROVE  /\ \A j \in 1 .. 4 : F[at[n - 1] + j] = LongCode[j]
             /\ \A j \in 1 .. len[n] : F[(at[n - 1] + 4) + j] = nals[n][j]
  <2>1. n - 1 \in 0 .. N /\ len[n] \in Nat
    BY <1>1, <1>4
  <2>2. at[n - 1] \in Nat
    BY <1>5, <2>1
  <2>3. ASSUME NEW j \in 1 .. 4 PROVE F[at[n - 1] + j] = LongCode[j]
    <3>1. j \in 1 .. 4 + len[n]
      BY <2>1
    <3> QED BY <1>4, <1>6, <3>1
  <2>4. ASSUME NEW j \in 1 .. len[n] PROVE F[(at[n - 1] + 4) + j] = nals[n][j]
    <3>1. 4 + j \in 1 .. 4 + len[n] /\ (at[n - 1] + 4) + j = at[n - 1] + (4 + j)
      BY <2>1, <2>2
    <3> QED BY <1>4, <1>6, <3>1
  <2> QED BY <2>3, <2>4
<1>8. \A n \in 0 .. N : at[n] <= Len(F)
  <2>1. \A n \in 0 .. N : N \in 0 .. N /\ n <= N
    BY <1>1
  <2> QED BY <1>5, <2>1
<1>9. Len(F) \in Nat
  BY <1>3
<1>10. FeedFacts(nals, F, len, at)
  BY <1>1, <1>3, <1>5, <1>6, <1>7, <1>8, <1>9 DEF FeedFacts, N
<1> QED BY <1>10 DEF F, len, at

\* All the NALs but the last are fed first.
LEMMA FeedFront ==
  ASSUME NEW nals, GoodStream(nals), nals # <<>>
  PROVE  /\ Feed(Front(nals)) \in Seq(Byte)
         /\ IsSlice(Feed(Front(nals)), Feed(nals), 1, Ends(nals)[Len(nals) - 1])
<1> DEFINE N == Len(nals)
           f == Front(nals)
           s == FedAll(nals)
           F == Feed(nals)
           at == Ends(nals)
           len == Lens(nals)
<1>1. nals \in Seq(Seq(Byte)) /\ N \in Nat /\ DOMAIN nals = 1 .. N
  BY DEF GoodStream
<1>2. /\ f \in Seq(Seq(Byte)) /\ Len(f) = N - 1 /\ N > 0
      /\ \A i \in 1 .. N - 1 : f[i] = nals[i]
  BY <1>1, FrontIs
<1>3. s \in Seq(Seq(Byte)) /\ Len(s) = N /\ F = FlattenSeq(s)
  BY FeedAllIs
<1>4. s # <<>>
  BY <1>2, <1>3
<1>5. FedAll(f) = Front(s)
  <2>1. /\ Front(s) \in Seq(Seq(Byte)) /\ Len(Front(s)) = N - 1
        /\ \A i \in 1 .. N - 1 : Front(s)[i] = s[i]
    BY <1>3, <1>4, FrontIs
  <2>2. DOMAIN f = 1 .. N - 1 /\ DOMAIN Front(s) = 1 .. N - 1
    BY <1>2, <2>1, LenProperties
  <2>3. ASSUME NEW i \in 1 .. N - 1 PROVE AsFed(f[i]) = Front(s)[i]
    <3>1. i \in DOMAIN nals /\ f[i] = nals[i]
      BY <1>1, <1>2
    <3>2. s[i] = AsFed(nals[i])
      BY <3>1 DEF FedAll
    <3> QED BY <2>1, <3>1, <3>2
  <2>4. Front(s) = [i \in 1 .. N - 1 |-> Front(s)[i]]
    BY <2>1, <2>2, LenProperties
  <2> HIDE DEF f, s
  <2> QED BY <2>2, <2>3, <2>4 DEF FedAll
<1>6. Feed(f) = FlattenSeq(FedAll(f))
  BY DEF Feed, FedAll, AsFed, LongCode, Joint
<1>7. F = Joint(Feed(f), s[N])
  <2>1. FlattenSeq(s) = Joint(FlattenSeq(Front(s)), s[Len(s)])
    BY <1>3, <1>4, FlattenFront
  <2> HIDE DEF f, s, F, N
  <2> QED BY <1>3, <1>5, <1>6, <2>1
<1>8. Feed(f) \in Seq(Byte)
  <2>1. Front(s) \in Seq(Seq(Byte))
    BY <1>3, <1>4, FrontIs
  <2>2. FlattenSeq(Front(s)) \in Seq(Byte)
    BY <2>1, FlattenLayout
  <2> HIDE DEF f, s
  <2> QED BY <1>5, <1>6, <2>2
<1>9. s[N] \in Seq(Byte) /\ N \in 1 .. N
  BY <1>1, <1>2, <1>3, ElementOfSeq
<1>10. Glued(Feed(f), s[N], F)
  <2> HIDE DEF f, s, F, N
  <2> QED BY <1>7, <1>8, <1>9, JointGrows
<1>11. at[N] = at[N - 1] + (4 + len[N]) /\ at[N] = Len(F) /\ at[N - 1] \in Nat
  <2>1. FeedFacts(nals, F, len, at)
    BY FeedIs
  <2>2. N - 1 \in 0 .. N
    BY <1>1, <1>2
  <2> HIDE DEF F, len, at
  <2> QED BY <1>9, <2>1, <2>2 DEF FeedFacts
<1>12. Len(s[N]) = 4 + len[N] /\ len[N] \in Nat
  <2>1. nals[N] \in Seq(Byte)
    BY <1>1, <1>9, ElementOfSeq
  <2>2. s[N] = AsFed(nals[N]) /\ len[N] = Len(nals[N])
    BY <1>1, <1>9 DEF FedAll, Lens
  <2>3. Glued(LongCode, nals[N], s[N])
    BY <2>1, <2>2, AsFedIs
  <2>4. Len(nals[N]) \in Nat
    BY <2>1
  <2> HIDE DEF s, len
  <2> QED BY <2>2, <2>3, <2>4, LongCodeIs DEF Glued
<1>13. Len(Feed(f)) = at[N - 1] /\ \A p \in 1 .. at[N - 1] : F[p] = Feed(f)[p]
  <2>1. Len(F) = Len(Feed(f)) + Len(s[N]) /\ \A p \in 1 .. Len(Feed(f)) : F[p] = Feed(f)[p]
    BY <1>10 DEF Glued
  <2>2. Len(Feed(f)) \in Nat
    BY <1>8
  <2> HIDE DEF f, s, F, at, len
  <2>3. Len(Feed(f)) = at[N - 1]
    BY SMTT(20), <1>11, <1>12, <2>1, <2>2
  <2> QED BY <2>1, <2>3
<1> HIDE DEF f, F, at
<1>14. IsSlice(Feed(f), F, 1, at[N - 1])
  <2>1. (at[N - 1] - 1) + 1 = at[N - 1] /\ \A p \in 1 .. at[N - 1] : (1 + p) - 1 = p
    BY <1>11
  <2> QED BY <1>13, <2>1 DEF IsSlice
<1> QED BY <1>8, <1>14 DEF f, F, at

-----------------------------------------------------------------------------
(* Finding the next NAL                                                    *)

LEMMA MinIs ==
  ASSUME NEW T, T \subseteq Nat, T # {}
  PROVE  Min(T) \in T /\ \A m \in T : Min(T) <= m
BY Least DEF Min

\* The last element that is not 0 is where WithoutZeros ends.
LEMMA WithoutZerosIs ==
  ASSUME NEW nal \in Seq(Byte), NEW l \in 1 .. Len(nal), nal[l] # 0,
         \A i \in l + 1 .. Len(nal) : nal[i] = 0
  PROVE  WithoutZeros(nal) = SubSeq(nal, 1, l)
<1> DEFINE T == {0} \cup {n \in DOMAIN nal : nal[n] # 0}
<1>1. DOMAIN nal = 1 .. Len(nal) /\ Len(nal) \in Nat
  BY LenProperties
<1>2. l \in T /\ \A n \in T : n <= l
  <2>1. l \in T
    BY <1>1
  <2>2. ASSUME NEW n \in T PROVE n <= l
    <3>1. CASE n = 0
      BY <1>1, <3>1
    <3>2. CASE n # 0
      <4>1. n \in 1 .. Len(nal) /\ nal[n] # 0
        BY <1>1, <3>2
      <4>2. n \notin l + 1 .. Len(nal)
        BY <4>1
      <4> QED BY <1>1, <4>1, <4>2
    <3> QED BY <3>1, <3>2
  <2> QED BY <2>1, <2>2
<1>3. \A n \in T : n \in Int
  BY <1>1
<1>4. Max(T) = CHOOSE x \in T : \A y \in T : x >= y
  BY DEF Max
<1>5. WithoutZeros(nal) = SubSeq(nal, 1, Max(T))
  BY DEF WithoutZeros
<1> HIDE DEF T
<1>6. Max(T) \in T /\ \A y \in T : Max(T) >= y
  <2>1. \E x \in T : \A y \in T : x >= y
    <3>1. \A y \in T : l >= y
      BY <1>2, <1>3
    <3> QED BY <1>2, <3>1
  <2> QED BY <1>4, <2>1
<1> DEFINE x == Max(T)
<1>7. x \in T /\ x >= l
  BY <1>2, <1>6
<1> HIDE DEF x
<1>8. x = l
  <2>1. x <= l /\ x \in Int /\ l \in Int
    BY <1>2, <1>3, <1>7
  <2> QED BY <1>7, <2>1
<1> QED BY <1>5, <1>8 DEF x

\* A piece of a piece.
LEMMA SliceSlice ==
  ASSUME NEW S, NEW d \in Seq(S), NEW B, NEW b \in Nat, NEW t \in Nat, b <= t,
         IsSlice(d, B, b + 1, t),
         NEW m \in 1 .. Len(d) + 1, NEW n \in m - 1 .. Len(d)
  PROVE  SubSeq(d, m, n) \in Seq(S) /\ IsSlice(SubSeq(d, m, n), B, b + m, b + n)
<1> DEFINE c == SubSeq(d, m, n)
<1>0. Len(d) \in Nat /\ m \in Nat /\ n \in Int /\ m >= 1 /\ n <= Len(d) /\ m - 1 <= n
  OBVIOUS
<1>1. c \in Seq(S) /\ IsSlice(c, d, m, n)
  BY SliceIs
<1> HIDE DEF c
<1>2. Len(c) = (n - m) + 1 /\ \A i \in 1 .. (n - m) + 1 : c[i] = d[(m + i) - 1]
  BY <1>1 DEF IsSlice
<1>3. Len(d) = t - b /\ \A i \in 1 .. t - b : d[i] = B[b + i]
  <2>1. (t - (b + 1)) + 1 = t - b /\ \A i \in 1 .. t - b : ((b + 1) + i) - 1 = b + i
    OBVIOUS
  <2> QED BY <2>1 DEF IsSlice
<1>4. ((b + n) - (b + m)) + 1 = (n - m) + 1
  BY <1>0
<1>5. ASSUME NEW i \in 1 .. (n - m) + 1 PROVE c[i] = B[((b + m) + i) - 1]
  <2>1. (m + i) - 1 \in 1 .. t - b /\ b + ((m + i) - 1) = ((b + m) + i) - 1
    BY <1>0, <1>3
  <2> QED BY <1>2, <1>3, <2>1
<1>6. IsSlice(c, B, b + m, b + n)
  BY <1>2, <1>4, <1>5 DEF IsSlice
<1> QED BY <1>1, <1>6 DEF c

\* Two pieces that follow each other.
LEMMA SliceJoint ==
  ASSUME NEW S, NEW a \in Seq(S), NEW d \in Seq(S), NEW B,
         NEW i \in Nat, NEW j \in Nat, NEW l \in Nat, i <= j, j <= l,
         IsSlice(a, B, i + 1, j), IsSlice(d, B, j + 1, l)
  PROVE  Joint(a, d) \in Seq(S) /\ IsSlice(Joint(a, d), B, i + 1, l)
<1> DEFINE c == Joint(a, d)
<1>1. c \in Seq(S) /\ Glued(a, d, c)
  BY JointGrows
<1> HIDE DEF c
<1>2. /\ (j - (i + 1)) + 1 = j - i /\ (l - (j + 1)) + 1 = l - j /\ (l - (i + 1)) + 1 = l - i
      /\ \A p \in 1 .. j - i : ((i + 1) + p) - 1 = i + p
      /\ \A p \in 1 .. l - j : ((j + 1) + p) - 1 = j + p
  OBVIOUS
<1>3. Len(a) = j - i /\ \A p \in 1 .. j - i : a[p] = B[i + p]
  BY <1>2 DEF IsSlice
<1>4. Len(d) = l - j /\ \A p \in 1 .. l - j : d[p] = B[j + p]
  BY <1>2 DEF IsSlice
<1>5. /\ Len(c) = Len(a) + Len(d)
      /\ \A p \in 1 .. Len(a) : c[p] = a[p]
      /\ \A p \in 1 .. Len(d) : c[Len(a) + p] = d[p]
  BY <1>1 DEF Glued
<1>6. Len(c) = l - i
  BY <1>3, <1>4, <1>5
<1>7. ASSUME NEW p \in 1 .. l - i PROVE c[p] = B[((i + 1) + p) - 1]
  <2>0. ((i + 1) + p) - 1 = i + p
    OBVIOUS
  <2>1. CASE p <= j - i
    BY <1>3, <1>5, <2>0, <2>1
  <2>2. CASE ~(p <= j - i)
    <3>1. /\ p - (j - i) \in 1 .. l - j /\ (j - i) + (p - (j - i)) = p
          /\ j + (p - (j - i)) = i + p
      BY <2>2
    <3>2. c[Len(a) + (p - (j - i))] = d[p - (j - i)] /\ d[p - (j - i)] = B[j + (p - (j - i))]
      BY <1>4, <1>5, <3>1
    <3> QED BY <1>3, <2>0, <3>1, <3>2
  <2> QED BY <2>1, <2>2
<1>8. IsSlice(c, B, i + 1, l)
  BY <1>2, <1>6, <1>7 DEF IsSlice
<1> QED BY <1>1, <1>8 DEF c

\* Sequences that are the same piece are the same.
LEMMA SliceSame ==
  ASSUME NEW S, NEW c \in Seq(S), NEW d \in Seq(S), NEW B, NEW m, NEW n,
         IsSlice(c, B, m, n), IsSlice(d, B, m, n)
  PROVE  c = d
<1>1. Len(c) = (n - m) + 1 /\ \A i \in 1 .. (n - m) + 1 : c[i] = B[(m + i) - 1]
  BY DEF IsSlice
<1>2. Len(d) = (n - m) + 1 /\ \A i \in 1 .. (n - m) + 1 : d[i] = B[(m + i) - 1]
  BY DEF IsSlice
<1>3. Len(c) = Len(d) /\ \A i \in 1 .. Len(c) : c[i] = d[i]
  BY Zenon, <1>1, <1>2
<1> QED BY <1>3, SeqEqual

\* What is found in a piece of the stream: the first code of a NAL that lies in it.
LEMMA CodeFound ==
  ASSUME NEW nals, NEW B, NEW len, NEW st, StreamFacts(nals, B, len, st),
         NEW d \in Seq(Byte), NEW b \in Nat, NEW t \in Nat, b <= t, t <= Len(B),
         IsSlice(d, B, b + 1, t),
         NEW s \in Nat, s >= 1, \A i \in 1 .. Len(d) - 2 : i < s => ~Mark(d, i),
         Codes(d, s) # {},
         NEW k \in Nat, k >= 1, k <= Len(nals) => b < st[k] - 2,
         \A n \in 1 .. Len(nals) : n < k => st[n] - 2 <= b
  PROVE  /\ k <= Len(nals) /\ st[k] < t
         /\ Min(Codes(d, s)) = (st[k] - 2) - b
         /\ Min(Codes(d, s)) \in 1 .. Len(d) - 3
         /\ Behind(d, s) \in Seq(Byte) /\ IsSlice(Behind(d, s), B, st[k] + 1, t)
<1> DEFINE T == Codes(d, s)
           f == Min(T)
<1>0. /\ Len(nals) \in Nat /\ Len(d) \in Nat /\ Len(B) \in Nat
      /\ \A n \in 1 .. Len(nals) : /\ st[n] \in Nat /\ len[n] \in Nat /\ len[n] > 0
                                   /\ Mark(B, st[n] - 2)
      /\ \A m \in 1 .. Len(nals), n \in 1 .. Len(nals) : m < n => st[m] + len[m] + 3 <= st[n]
      /\ \A i \in 1 .. Len(B) - 2 : Mark(B, i) => \E n \in 1 .. Len(nals) : i = st[n] - 2
  BY DEF StreamFacts
<1>1. T = {i \in s .. Len(d) - 3 : CodeAt(d, i)}
  BY DEF Codes
<1>2. T \subseteq Nat
  BY <1>0, <1>1
<1>3. f \in T /\ \A m \in T : f <= m
  BY <1>2, MinIs
<1> HIDE DEF f, T
<1>4. Len(d) = t - b /\ \A i \in 1 .. t - b : d[i] = B[b + i]
  <2>1. (t - (b + 1)) + 1 = t - b /\ \A i \in 1 .. t - b : ((b + 1) + i) - 1 = b + i
    OBVIOUS
  <2> QED BY <2>1 DEF IsSlice
<1>5. ASSUME NEW i \in 1 .. Len(d) - 2
      PROVE  (Mark(d, i) <=> Mark(B, b + i)) /\ (CodeAt(d, i) <=> Mark(d, i))
  <2>1. /\ i \in 1 .. t - b /\ i + 1 \in 1 .. t - b /\ i + 2 \in 1 .. t - b
        /\ b + (i + 1) = (b + i) + 1 /\ b + (i + 2) = (b + i) + 2
    BY <1>4
  <2>2. Mark(d, i) <=> Mark(B, b + i)
    BY <1>4, <2>1 DEF Mark
  <2> QED BY <2>2, CodeAtIs
<1>6. f \in 1 .. Len(d) - 3 /\ f \in 1 .. Len(d) - 2 /\ CodeAt(d, f)
  BY <1>0, <1>1, <1>3
<1>7. Mark(B, b + f) /\ b + f \in 1 .. Len(B) - 2
  BY <1>4, <1>5, <1>6
<1>8. PICK n \in 1 .. Len(nals) : b + f = st[n] - 2
  BY <1>0, <1>7
<1>9. ~(n < k)
  <2>1. st[n] \in Nat /\ b < st[n] - 2
    BY <1>0, <1>6, <1>8
  <2> QED BY <2>1
<1>10. k \in 1 .. Len(nals) /\ k <= n
  BY <1>0, <1>9
<1> DEFINE g == (st[k] - 2) - b
<1>11. st[k] <= st[n] /\ st[k] \in Nat /\ st[n] \in Nat
  <2>1. CASE k = n
    BY <1>0, <1>8, <2>1
  <2>2. CASE k # n
    <3>1. k < n /\ k \in 1 .. Len(nals)
      BY <1>10, <2>2
    <3>2. st[k] + len[k] + 3 <= st[n] /\ st[k] \in Nat /\ st[n] \in Nat /\ len[k] \in Nat
      BY <1>0, <3>1
    <3> QED BY <3>2
  <2> QED BY <2>1, <2>2
<1>12. g \in 1 .. Len(d) - 3 /\ g \in 1 .. Len(d) - 2 /\ b + g = st[k] - 2 /\ g <= f
  <2>1. Len(d) = t - b /\ f \in 1 .. Len(d) - 3 /\ b + f = st[n] - 2
    BY <1>4, <1>6, <1>8
  <2>2. b < st[k] - 2
    BY <1>0, <1>10
  <2> DEFINE x == st[k]
             y == st[n]
             z == Len(d)
  <2>3. /\ x \in Nat /\ y \in Nat /\ x <= y /\ b < x - 2 /\ z \in Nat
        /\ f \in 1 .. z - 3 /\ b + f = y - 2
    BY <1>0, <1>11, <2>1, <2>2
  <2> HIDE DEF x, y, z
  <2>4. /\ (x - 2) - b \in 1 .. z - 3 /\ (x - 2) - b \in 1 .. z - 2
        /\ b + ((x - 2) - b) = x - 2 /\ (x - 2) - b <= f
    BY <2>3
  <2> QED BY Zenon, <2>4 DEF x, z
<1> HIDE DEF g
<1>13. Mark(d, g)
  <2>1. Mark(B, st[k] - 2)
    BY <1>0, <1>10
  <2> QED BY <1>5, <1>12, <2>1
<1>14. g \in T
  <2>1. ~(g < s)
    BY <1>12, <1>13
  <2>2. g \in s .. Len(d) - 3
    BY <1>0, <1>12, <2>1
  <2> QED BY <1>1, <1>5, <1>12, <1>13, <2>2
<1>15. f = g
  <2>1. f <= g
    BY <1>3, <1>14
  <2> QED BY <1>6, <1>12, <2>1
<1>4a. Len(d) = t - b
  BY <1>4
<1>16. st[k] < t
  BY <1>4a, <1>11, <1>12
<1>17. Behind(d, s) = SubSeq(d, g + 3, Len(d))
  BY <1>15 DEF Behind, f, T
<1>18. g + 3 \in 1 .. Len(d) + 1 /\ Len(d) \in (g + 3) - 1 .. Len(d)
  BY <1>0, <1>12
<1>19. SubSeq(d, g + 3, Len(d)) \in Seq(Byte) /\ IsSlice(SubSeq(d, g + 3, Len(d)), B, b + (g + 3), b + Len(d))
  BY <1>18, SliceSlice
<1>20. b + (g + 3) = st[k] + 1 /\ b + Len(d) = t
  <2>1. b + g = st[k] - 2 /\ st[k] \in Nat /\ g \in Nat
    BY <1>11, <1>12
  <2>2. b + (g + 3) = st[k] + 1
    <3> DEFINE y == st[k]
    <3>1. b + g = y - 2 /\ y \in Nat
      BY <2>1
    <3> HIDE DEF y
    <3>2. b + (g + 3) = y + 1
      BY <2>1, <3>1
    <3> QED BY <3>2 DEF y
  <2>3. b + (t - b) = t
    OBVIOUS
  <2> QED BY Zenon, <1>4a, <2>2, <2>3
<1>21. Behind(d, s) \in Seq(Byte) /\ IsSlice(Behind(d, s), B, st[k] + 1, t)
  BY <1>17, <1>19, <1>20
<1>22. Min(Codes(d, s)) = (st[k] - 2) - b /\ Min(Codes(d, s)) \in 1 .. Len(d) - 3
  BY <1>6, <1>15 DEF f, g, T
<1> QED BY <1>10, <1>16, <1>21, <1>22

\* Before the next code is the NAL, and nothing but it.
LEMMA NalFound ==
  ASSUME NEW nals, NEW B, NEW len, NEW st, StreamFacts(nals, B, len, st), GoodStream(nals),
         NEW k \in 1 .. Len(nals) - 1, NEW d \in Seq(Byte), NEW t \in Nat,
         st[k] <= t, t <= Len(B), IsSlice(d, B, st[k] + 1, t),
         NEW s, Min(Codes(d, s)) = (st[k + 1] - 2) - st[k],
         Min(Codes(d, s)) \in 1 .. Len(d) - 3
  PROVE  NalBefore(d, s) = nals[k]
<1> DEFINE f == Min(Codes(d, s))
           piece == SubSeq(d, 1, f - 1)
           nal == nals[k]
           l == len[k]
<1>0. /\ Len(nals) \in Nat /\ k \in 1 .. Len(nals) /\ Len(d) \in Nat
      /\ nal \in Seq(Byte) /\ l = Len(nal) /\ l \in Nat /\ l > 0
      /\ st[k] \in Nat
      /\ \A j \in 1 .. l : B[st[k] + j] = nal[j]
      /\ \/ st[k + 1] = st[k] + l + 3
         \/ st[k + 1] = st[k] + l + 4 /\ B[st[k] + l + 1] = 0
  <2>1. Len(nals) \in Nat /\ k \in 1 .. Len(nals)
    BY DEF StreamFacts
  <2>2. /\ nals[k] \in Seq(Byte) /\ len[k] = Len(nals[k]) /\ len[k] \in Nat /\ len[k] > 0
        /\ st[k] \in Nat
        /\ \A j \in 1 .. len[k] : B[st[k] + j] = nals[k][j]
    BY <2>1 DEF StreamFacts
  <2>3. \/ st[k + 1] = st[k] + len[k] + 3
        \/ st[k + 1] = st[k] + len[k] + 4 /\ B[st[k] + len[k] + 1] = 0
    BY DEF StreamFacts
  <2> QED BY <2>1, <2>2, <2>3
<1>1. nal[l] # 0
  BY <1>0 DEF GoodStream
<1>2. NalBefore(d, s) = WithoutZeros(piece)
  BY DEF NalBefore
<1>3. f \in 1 .. Len(d) - 3 /\ f = (st[k + 1] - 2) - st[k]
  OBVIOUS
<1> HIDE DEF f, nal, l
<1>4. f - 1 = l \/ (f - 1 = l + 1 /\ B[st[k] + l + 1] = 0)
  <2> DEFINE y == st[k + 1]
             z == st[k]
  <2>1. /\ z \in Nat /\ l \in Nat /\ f = (y - 2) - z
        /\ y = z + l + 3 \/ (y = z + l + 4 /\ B[z + l + 1] = 0)
    BY <1>0, <1>3
  <2> HIDE DEF y, z
  <2>2. f - 1 = l \/ (f - 1 = l + 1 /\ B[z + l + 1] = 0)
    BY SMTT(20), <2>1
  <2> QED BY <2>2 DEF z
<1>5. 1 \in 1 .. Len(d) + 1 /\ f - 1 \in 1 - 1 .. Len(d)
  BY SMTT(20), <1>0, <1>3
<1>6. piece \in Seq(Byte) /\ IsSlice(piece, B, st[k] + 1, st[k] + (f - 1))
  BY <1>0, <1>5, SliceSlice
<1> HIDE DEF piece
<1>7. Len(piece) = f - 1 /\ \A i \in 1 .. f - 1 : piece[i] = B[st[k] + i]
  <2>1. ((st[k] + (f - 1)) - (st[k] + 1)) + 1 = f - 1
    BY SMTT(20), <1>0, <1>3
  <2>2. \A i \in 1 .. f - 1 : ((st[k] + 1) + i) - 1 = st[k] + i
    BY <1>0
  <2>3. Len(piece) = f - 1 /\ \A i \in 1 .. f - 1 : piece[i] = B[((st[k] + 1) + i) - 1]
    BY <1>6, <2>1 DEF IsSlice
  <2> QED BY <2>2, <2>3
<1>8. \A i \in 1 .. l : i \in 1 .. f - 1 /\ piece[i] = nal[i]
  <2> SUFFICES ASSUME NEW i \in 1 .. l PROVE i \in 1 .. f - 1 /\ piece[i] = nal[i]
    OBVIOUS
  <2>1. i \in 1 .. f - 1
    BY <1>0, <1>3, <1>4
  <2> QED BY <1>0, <1>7, <2>1
<1>9. l \in 1 .. Len(piece) /\ piece[l] # 0
  BY SMTT(20), <1>0, <1>1, <1>4, <1>7, <1>8
<1>10. ASSUME NEW i \in l + 1 .. Len(piece) PROVE piece[i] = 0
  <2>1. i = l + 1 /\ f - 1 = l + 1
    BY <1>0, <1>3, <1>4, <1>7
  <2>2. i \in 1 .. f - 1 /\ st[k] + i = st[k] + l + 1 /\ f - 1 # l
    <3> DEFINE z == st[k]
    <3>1. z \in Nat /\ l \in Nat /\ l > 0
      BY <1>0
    <3> HIDE DEF z
    <3>2. i \in 1 .. f - 1 /\ z + i = z + l + 1 /\ f - 1 # l
      BY <2>1, <3>1
    <3> QED BY Zenon, <3>2 DEF z
  <2>3. piece[i] = B[st[k] + i]
    BY <1>7, <2>2
  <2> QED BY <1>4, <2>2, <2>3
<1>11. WithoutZeros(piece) = SubSeq(piece, 1, l)
  BY <1>6, <1>9, <1>10, WithoutZerosIs
<1> DEFINE c == SubSeq(piece, 1, l)
<1>12. c \in Seq(Byte) /\ IsSlice(c, piece, 1, l)
  <2>1. 1 \in 1 .. Len(piece) + 1 /\ l \in 1 - 1 .. Len(piece)
    BY <1>0, <1>9
  <2> QED BY <1>6, <2>1, SliceIs
<1> HIDE DEF c
<1>13. IsSlice(nal, piece, 1, l)
  <2>1. (l - 1) + 1 = l /\ \A i \in 1 .. l : (1 + i) - 1 = i
    BY <1>0
  <2> QED BY <1>0, <1>8, <2>1 DEF IsSlice
<1>14. c = nal
  BY <1>0, <1>12, <1>13, SliceSame
<1> QED BY <1>2, <1>11, <1>14 DEF c, nal

LEMMA WorldGood == ASSUME world \in Trials PROVE GoodStream(world.stream)
BY TrialsAssumption DEF GoodStream

LEMMA StreamBytes ==
  ASSUME NEW nals, GoodStream(nals)
  PROVE  ByteStream(nals) \in Seq(Byte)
BY StreamIs DEF StreamFacts

\* What the sender has in hand, and what a packet carries.
Record == [fu : BOOLEAN, first : BOOLEAN, head : Byte, data : Seq(Byte)]
Carried == [fu : BOOLEAN, head : Byte, first : BOOLEAN, last : BOOLEAN, data : Seq(Byte)]

\* The first code and what is behind it.
LEMMA BehindType ==
  ASSUME NEW d \in Seq(Byte), NEW s \in Nat, s >= 1, Codes(d, s) # {}
  PROVE  /\ Behind(d, s) \in Seq(Byte) /\ Len(Behind(d, s)) > 0
         /\ NalBefore(d, s) \in Seq(Byte)
<1> DEFINE T == Codes(d, s)
           f == Min(T)
<1>0. Len(d) \in Nat
  OBVIOUS
<1>1. T = {i \in s .. Len(d) - 3 : CodeAt(d, i)}
  BY DEF Codes
<1>2. T \subseteq Nat
  BY <1>0, <1>1
<1>3. f \in T
  BY <1>2, MinIs
<1>4. Behind(d, s) = SubSeq(d, f + 3, Len(d)) /\ NalBefore(d, s) = WithoutZeros(SubSeq(d, 1, f - 1))
  BY DEF Behind, NalBefore
<1> HIDE DEF f, T
<1>5. f \in 1 .. Len(d) - 3
  BY <1>0, <1>1, <1>3
<1>6. f + 3 \in 1 .. Len(d) + 1 /\ Len(d) \in (f + 3) - 1 .. Len(d)
  BY <1>0, <1>5
<1> DEFINE c == SubSeq(d, f + 3, Len(d))
           p == SubSeq(d, 1, f - 1)
<1>7. c \in Seq(Byte) /\ IsSlice(c, d, f + 3, Len(d))
  BY <1>6, SliceIs
<1>8. p \in Seq(Byte)
  <2>1. 1 \in 1 .. Len(d) + 1 /\ f - 1 \in 1 - 1 .. Len(d)
    BY <1>0, <1>5
  <2> QED BY <2>1, SliceIs
<1> HIDE DEF c, p
<1>9. Len(c) > 0
  <2>1. Len(c) = (Len(d) - (f + 3)) + 1
    BY <1>7 DEF IsSlice
  <2> QED BY <1>0, <1>5, <2>1
<1>10. WithoutZeros(p) \in Seq(Byte)
  <2> DEFINE W == {0} \cup {n \in DOMAIN p : p[n] # 0}
  <2>1. W \subseteq 0 .. Len(p) /\ 0 \in W /\ Len(p) \in Nat
    <3>1. DOMAIN p = 1 .. Len(p) /\ Len(p) \in Nat
      BY <1>8, LenProperties
    <3> QED BY <3>1
  <2>2. WithoutZeros(p) = SubSeq(p, 1, Max(W))
    BY DEF WithoutZeros
  <2>3. Max(W) = CHOOSE x \in W : \A y \in W : x >= y
    BY DEF Max
  <2> HIDE DEF W
  <2>4. \E x \in W : \A y \in W : x >= y
    <3> DEFINE V == {n \in Nat : Len(p) - n \in W}
    <3>1. Len(p) \in V
      BY <2>1
    <3>2. PICK n \in V : \A m \in V : n <= m
      <4>1. V \subseteq Nat /\ V # {}
        BY <3>1
      <4> HIDE DEF V
      <4> QED BY <4>1, Least
    <3>3. n \in Nat /\ Len(p) - n \in W
      OBVIOUS
    <3>4. ASSUME NEW y \in W PROVE Len(p) - n >= y
      <4>1. y \in 0 .. Len(p) /\ Len(p) - y \in Nat /\ Len(p) - (Len(p) - y) = y
        BY <2>1
      <4>2. n <= Len(p) - y
        BY <3>2, <4>1
      <4> QED BY <2>1, <3>3, <4>1, <4>2
    <3> QED BY <3>3, <3>4
  <2>5. Max(W) \in 1 - 1 .. Len(p) /\ 1 \in 1 .. Len(p) + 1
    <3> DEFINE x == Max(W)
    <3>1. x \in W
      BY <2>3, <2>4
    <3> HIDE DEF x
    <3>2. x \in 1 - 1 .. Len(p) /\ 1 \in 1 .. Len(p) + 1
      BY <2>1, <3>1
    <3> QED BY <3>2 DEF x
  <2>6. SubSeq(p, 1, Max(W)) \in Seq(Byte)
    BY <1>8, <2>5, SliceIs
  <2> QED BY <2>2, <2>6
<1> QED BY <1>4, <1>7, <1>8, <1>9, <1>10 DEF c, p

LEMMA StartedType ==
  ASSUME NEW nal \in Seq(Byte), nal # <<>>
  PROVE  Started(nal) \in Record
<1>1. nal[1] \in Byte /\ Tail(nal) \in Seq(Byte)
  <2>1. 1 \in 1 .. Len(nal)
    BY EmptySeq
  <2>2. nal[1] \in Byte
    BY <2>1, ElementOfSeq
  <2> QED BY <2>2, HeadTailProperties
<1> QED BY <1>1 DEF Started, Sending, Record

LEMMA PacketType ==
  ASSUME sending \in Record, sending.data # <<>>
  PROVE  /\ Portion(sending) \in 1 .. Len(sending.data)
         /\ Packet(sending) \in Carried /\ AfterPacket(sending) \in Record
<1> DEFINE d == sending.data
           n == Portion(sending)
<1>1. d \in Seq(Byte) /\ sending.fu \in BOOLEAN /\ sending.first \in BOOLEAN /\ sending.head \in Byte
  BY DEF Record
<1>2. Len(d) \in Nat /\ Len(d) > 0
  BY <1>1, EmptySeq
<1>3. MaxLen \in Nat /\ MaxLen > 0
  BY MaxLenAssumption
<1>4. n \in 1 .. Len(d)
  BY <1>2, <1>3 DEF Portion
<1>5. /\ Packet(sending) = [fu |-> sending.fu, head |-> sending.head, first |-> sending.first,
                            last |-> n = Len(d), data |-> SubSeq(d, 1, n)]
      /\ AfterPacket(sending) = IF n = Len(d) THEN Nothing
                                ELSE Sending(sending.fu, FALSE, sending.head, SubSeq(d, n + 1, Len(d)))
  BY DEF Packet, AfterPacket
<1> HIDE DEF d, n
<1>6. SubSeq(d, 1, n) \in Seq(Byte) /\ SubSeq(d, n + 1, Len(d)) \in Seq(Byte)
  <2>1. /\ 1 \in 1 .. Len(d) + 1 /\ n \in 1 - 1 .. Len(d)
        /\ n + 1 \in 1 .. Len(d) + 1 /\ Len(d) \in (n + 1) - 1 .. Len(d)
    BY <1>2, <1>4
  <2> QED BY <1>1, <2>1, SliceIs
<1>7. Nothing \in Record
  <2>1. <<>> \in Seq(Byte) /\ 0 \in Byte
    BY EmptySeq DEF Byte
  <2> QED BY <2>1 DEF Nothing, Sending, Record
<1>8. Packet(sending) \in Carried
  BY <1>1, <1>5, <1>6 DEF Carried
<1>9. AfterPacket(sending) \in Record
  BY <1>1, <1>5, <1>6, <1>7 DEF Sending, Record
<1> QED BY <1>4, <1>8, <1>9 DEF n, d

LEMMA UnpackType ==
  ASSUME NEW p \in Carried
  PROVE  Unpack(p) \in Seq(Byte)
<1> DEFINE d == p.data
           h == <<p.head>>
<1>1. d \in Seq(Byte) /\ h \in Seq(Byte)
  BY DEF Carried
<1>2. Unpack(p) = CASE ~p.fu -> Joint(LongCode, d)
                    [] p.fu /\ p.first /\ ~p.last -> Joint(Joint(LongCode, h), d)
                    [] OTHER -> d
  BY DEF Unpack, Joint, LongCode
<1> HIDE DEF d, h
<1>3. Joint(LongCode, d) \in Seq(Byte)
  BY <1>1, LongCodeIs, JointGrows
<1>4. Joint(LongCode, h) \in Seq(Byte)
  BY <1>1, LongCodeIs, JointGrows
<1>5. Joint(Joint(LongCode, h), d) \in Seq(Byte)
  BY <1>1, <1>4, JointGrows
<1>6. CASE ~p.fu
  BY <1>2, <1>3, <1>6
<1>7. CASE p.fu /\ p.first /\ ~p.last
  BY <1>2, <1>5, <1>7
<1>8. CASE ~(~p.fu) /\ ~(p.fu /\ p.first /\ ~p.last)
  BY <1>1, <1>2, <1>8
<1> QED BY <1>6, <1>7, <1>8

-----------------------------------------------------------------------------
(* Types                                                                   *)

\* TypeOK, with its records named.
TypeInv ==
  /\ world \in Trials
  /\ todo \in Seq(Byte) /\ pending \in Seq(Byte) /\ fed \in Seq(Byte)
  /\ search \in 0 .. Len(pending)
  /\ sending \in Record
  /\ net \in Seq([packet : Carried, seq : 0 .. SeqNos - 1])
  /\ seqno \in 0 .. SeqNos - 1 /\ last_seq_no \in 0 .. SeqNos - 1
  /\ alarm \in BOOLEAN
  /\ trouble \in 0 .. MaxTrouble
  /\ happened \subseteq FaultKinds \cup {"lone", "blind"}

LEMMA TypeInvIsTypeOK == TypeInv <=> TypeOK
BY DEF TypeInv, TypeOK, Record, Carried

LEMMA Constants ==
  /\ SeqNos \in Nat /\ MaxTrouble \in Nat /\ SeqNos > MaxTrouble + 1 /\ SeqNos > 1
  /\ \A n \in 0 .. SeqNos - 1 : (n + 1) % SeqNos \in 0 .. SeqNos - 1
<1>1. SeqNos \in Nat /\ MaxTrouble \in Nat /\ SeqNos > MaxTrouble + 1 /\ SeqNos > 1
  BY SeqNosAssumption, MaxTroubleAssumption
<1>2. ASSUME NEW n \in 0 .. SeqNos - 1 PROVE (n + 1) % SeqNos \in 0 .. SeqNos - 1
  BY <1>1, Z3
<1> QED BY <1>1, <1>2

LEMMA NothingType == Nothing \in Record /\ Nothing.data = <<>>
<1>1. <<>> \in Seq(Byte) /\ 0 \in Byte
  BY EmptySeq DEF Byte
<1> QED BY <1>1 DEF Nothing, Sending, Record

LEMMA InitType == Init => TypeInv
<1> SUFFICES ASSUME Init PROVE TypeInv
  OBVIOUS
<1>1. world \in Trials /\ todo = ByteStream(world.stream) /\ todo \in Seq(Byte)
  BY WorldGood, StreamBytes DEF Init
<1>2. <<>> \in Seq(Byte) /\ Len(<<>>) = 0 /\ <<>> \in Seq([packet : Carried, seq : 0 .. SeqNos - 1])
  BY EmptySeq
<1>3. Nothing \in Record
  BY NothingType
<1>4. /\ pending = <<>> /\ search = 0 /\ sending = Nothing /\ seqno = 1 /\ net = <<>>
      /\ last_seq_no = 0 /\ fed = <<>> /\ alarm = FALSE /\ trouble = 0 /\ happened = {}
  BY DEF Init
<1>5. /\ seqno \in 0 .. SeqNos - 1 /\ last_seq_no \in 0 .. SeqNos - 1
      /\ trouble \in 0 .. MaxTrouble /\ alarm \in BOOLEAN
      /\ happened \subseteq FaultKinds \cup {"lone", "blind"}
  <2>1. 1 \in 0 .. SeqNos - 1 /\ 0 \in 0 .. SeqNos - 1 /\ 0 \in 0 .. MaxTrouble
    BY SeqNosAssumption, MaxTroubleAssumption
  <2> QED BY Zenon, <1>4, <2>1
<1>6. search \in 0 .. Len(pending)
  BY <1>2, <1>4
<1>7. pending \in Seq(Byte) /\ fed \in Seq(Byte) /\ net \in Seq([packet : Carried, seq : 0 .. SeqNos - 1])
  BY Zenon, <1>2, <1>4
<1> QED BY <1>1, <1>3, <1>4, <1>5, <1>6, <1>7 DEF TypeInv

\* What joins the bytes kept.
LEMMA JoinedType ==
  ASSUME pending \in Seq(Byte), NEW d \in Seq(Byte)
  PROVE  Joined(d) \in Seq(Byte) /\ (pending # <<>> => Len(Joined(d)) = Len(pending) + Len(d))
<1>1. CASE pending # <<>>
  <2>1. Joined(d) = Joint(pending, d)
    BY <1>1 DEF Joined, Joint
  <2>2. Joint(pending, d) \in Seq(Byte) /\ Glued(pending, d, Joint(pending, d))
    BY JointGlued
  <2> QED BY <2>1, <2>2 DEF Glued
<1>2. CASE pending = <<>> /\ Codes(d, 1) = {}
  BY <1>2, EmptySeq DEF Joined
<1>3. CASE pending = <<>> /\ Codes(d, 1) # {}
  <2>1. Joined(d) = Behind(d, 1)
    BY <1>3 DEF Joined
  <2> QED BY <1>3, <2>1, BehindType
<1> QED BY <1>1, <1>2, <1>3

LEMMA AnalyzeType == TypeInv /\ Analyze => TypeInv'
<1> SUFFICES ASSUME TypeInv, Analyze PROVE TypeInv'
  OBVIOUS
<1>1. PICK n \in 1 .. Len(todo) :
        /\ Len(Joined(SubSeq(todo, 1, n))) >= 3 \/ Joined(SubSeq(todo, 1, n)) = <<>>
        /\ todo' = SubSeq(todo, n + 1, Len(todo))
        /\ pending' = Joined(SubSeq(todo, 1, n))
        /\ search' = IF Joined(SubSeq(todo, 1, n)) = <<>> THEN 0 ELSE Begin(pending)
        /\ happened' \in {happened, happened \cup {"cut"}}
  BY DEF Analyze
<1>2. todo \in Seq(Byte) /\ Len(todo) \in Nat /\ pending \in Seq(Byte) /\ Len(pending) \in Nat
  BY DEF TypeInv
<1> DEFINE d == SubSeq(todo, 1, n)
           r == SubSeq(todo, n + 1, Len(todo))
           j == Joined(d)
<1>3. d \in Seq(Byte) /\ r \in Seq(Byte)
  <2>1. /\ 1 \in 1 .. Len(todo) + 1 /\ n \in 1 - 1 .. Len(todo)
        /\ n + 1 \in 1 .. Len(todo) + 1 /\ Len(todo) \in (n + 1) - 1 .. Len(todo)
    BY <1>2
  <2> QED BY <1>2, <2>1, SliceIs
<1>4. /\ Len(j) >= 3 \/ j = <<>>
      /\ todo' = r /\ pending' = j /\ search' = IF j = <<>> THEN 0 ELSE Begin(pending)
      /\ happened' \in {happened, happened \cup {"cut"}}
  BY <1>1
<1> HIDE DEF d, r
<1>5. j \in Seq(Byte) /\ (pending # <<>> => Len(j) = Len(pending) + Len(d))
  BY <1>2, <1>3, JoinedType
<1> HIDE DEF j
<1>6. Len(d) \in Nat /\ Len(j) \in Nat
  BY <1>3, <1>5
<1>7. search' \in 0 .. Len(j)
  <2>1. CASE j = <<>>
    BY <1>4, <1>6, <2>1
  <2>2. CASE j # <<>> /\ pending = <<>>
    <3>1. Begin(pending) = 1 /\ Len(j) >= 3
      BY <1>4, <2>2, EmptySeq DEF Begin
    <3> QED BY <1>4, <1>6, <2>2, <3>1
  <2>3. CASE j # <<>> /\ pending # <<>>
    <3>1. Len(j) >= 3 /\ Len(j) = Len(pending) + Len(d)
      BY <1>4, <1>5, <2>3
    <3>2. Begin(pending) \in 0 .. Len(j)
      BY <1>2, <1>6, <3>1 DEF Begin
    <3> QED BY <1>4, <2>3, <3>2
  <2> QED BY <2>1, <2>2, <2>3
<1>8. happened' \subseteq FaultKinds \cup {"lone", "blind"}
  BY <1>4 DEF TypeInv, FaultKinds
<1>9. UNCHANGED <<world, sending, seqno, net, last_seq_no, fed, alarm, trouble>>
  BY DEF Analyze, receiver
<1>10. todo' \in Seq(Byte) /\ pending' \in Seq(Byte) /\ search' \in 0 .. Len(pending')
  BY <1>3, <1>4, <1>5, <1>7
<1> QED BY <1>8, <1>9, <1>10 DEF TypeInv

LEMMA NextNalType == TypeInv /\ NextNal => TypeInv'
<1> SUFFICES ASSUME TypeInv, NextNal PROVE TypeInv'
  OBVIOUS
<1> DEFINE nal == NalBefore(pending, search)
           rest == Behind(pending, search)
<1>1. /\ search # 0 /\ Codes(pending, search) # {}
      /\ sending' = IF nal = <<>> THEN Nothing ELSE Started(nal)
      /\ pending' = rest /\ search' = 1
      /\ UNCHANGED <<world, todo, seqno, net, last_seq_no, fed, alarm, trouble, happened>>
  BY DEF NextNal, receiver
<1>2. pending \in Seq(Byte) /\ search \in Nat /\ search >= 1
  BY <1>1 DEF TypeInv
<1>3. rest \in Seq(Byte) /\ Len(rest) > 0 /\ nal \in Seq(Byte)
  BY <1>1, <1>2, BehindType
<1> HIDE DEF nal, rest
<1>4. sending' \in Record
  BY <1>1, <1>3, NothingType, StartedType
<1>5. search' \in 0 .. Len(pending') /\ pending' \in Seq(Byte)
  BY <1>1, <1>3
<1> QED BY <1>1, <1>4, <1>5 DEF TypeInv

LEMMA SendPacketType == TypeInv /\ SendPacket => TypeInv'
<1> SUFFICES ASSUME TypeInv, SendPacket PROVE TypeInv'
  OBVIOUS
<1> DEFINE p == [packet |-> Packet(sending), seq |-> seqno]
<1>1. /\ sending.data # <<>> /\ net' = Append(net, p)
      /\ happened' \in {happened, happened \cup {"lone"}}
      /\ seqno' = (seqno + 1) % SeqNos
      /\ sending' = AfterPacket(sending)
      /\ UNCHANGED <<world, todo, pending, search, last_seq_no, fed, alarm, trouble>>
  BY DEF SendPacket, receiver
<1>2. Packet(sending) \in Carried /\ AfterPacket(sending) \in Record
  BY <1>1, PacketType DEF TypeInv
<1>3. p \in [packet : Carried, seq : 0 .. SeqNos - 1]
  BY <1>2 DEF TypeInv
<1> HIDE DEF p
<1>4. net' \in Seq([packet : Carried, seq : 0 .. SeqNos - 1])
  BY <1>1, <1>3, AppendProperties DEF TypeInv
<1>5. seqno' \in 0 .. SeqNos - 1
  BY <1>1, Constants DEF TypeInv
<1>6. happened' \subseteq FaultKinds \cup {"lone", "blind"}
  BY <1>1 DEF TypeInv
<1> QED BY <1>1, <1>2, <1>4, <1>5, <1>6 DEF TypeInv

LEMMA NetType ==
  ASSUME NEW P, net \in Seq(P), net # <<>>
  PROVE  /\ Head(net) \in P /\ Head(net) = net[1]
         /\ Tail(net) \in Seq(P) /\ Len(Tail(net)) = Len(net) - 1
         /\ \A i \in 1 .. Len(net) - 1 : Tail(net)[i] = net[i + 1]
         /\ Len(net) \in Nat /\ Len(net) > 0
<1>1. Len(net) \in Nat /\ Len(net) > 0
  BY EmptySeq
<1>2. Head(net) \in P /\ Tail(net) \in Seq(P) /\ Len(Tail(net)) = Len(net) - 1
  BY HeadTailProperties
<1>3. /\ \A i \in 1 .. Len(Tail(net)) : Tail(net)[i] = net[i + 1]
      /\ Head(net) = net[1]
  BY HeadTailProperties
<1> QED BY <1>1, <1>2, <1>3

LEMMA DeliverType == TypeInv /\ Deliver => TypeInv'
<1> SUFFICES ASSUME TypeInv, Deliver PROVE TypeInv'
  OBVIOUS
<1> DEFINE p == Head(net)
           u == Unpack(p.packet)
<1>1. /\ net # <<>> /\ net' = Tail(net) /\ fed' = Joint(fed, u)
      /\ alarm' = (alarm \/ OutOfTurn(p.seq)) /\ last_seq_no' = p.seq
      /\ happened' \in {happened, happened \cup {"blind"}}
      /\ UNCHANGED <<world, todo, pending, search, sending, seqno, trouble>>
  BY DEF Deliver, Receive, sender, Joint
<1>2. /\ net' \in Seq([packet : Carried, seq : 0 .. SeqNos - 1])
      /\ p \in [packet : Carried, seq : 0 .. SeqNos - 1]
  BY <1>1, NetType DEF TypeInv
<1> HIDE DEF p
<1>3. u \in Seq(Byte) /\ p.seq \in 0 .. SeqNos - 1
  BY <1>2, UnpackType
<1> HIDE DEF u
<1>4. fed' \in Seq(Byte)
  BY <1>1, <1>3, JointGrows DEF TypeInv
<1>5. alarm' \in BOOLEAN
  BY <1>1 DEF TypeInv, OutOfTurn
<1>6. happened' \subseteq FaultKinds \cup {"lone", "blind"}
  BY <1>1 DEF TypeInv
<1> QED BY <1>1, <1>2, <1>3, <1>4, <1>5, <1>6 DEF TypeInv

\* What the network makes of the packets under way.
LEMMA OvertakeNet ==
  ASSUME NEW P, net \in Seq(P), Len(net) > 1
  PROVE  LET s == <<net[2], net[1]>> \o SubSeq(net, 3, Len(net)) IN
           /\ s \in Seq(P) /\ Len(s) = Len(net) /\ s[1] = net[2] /\ s[2] = net[1]
           /\ \A i \in 3 .. Len(net) : s[i] = net[i]
<1> DEFINE a == <<net[2], net[1]>>
           b == SubSeq(net, 3, Len(net))
           s == Joint(a, b)
<1>1. Len(net) \in Nat /\ net[1] \in P /\ net[2] \in P
  <2>1. Len(net) \in Nat
    OBVIOUS
  <2>2. 1 \in 1 .. Len(net) /\ 2 \in 1 .. Len(net)
    BY <2>1
  <2> QED BY <2>1, <2>2, ElementOfSeq
<1>2. a \in Seq(P) /\ Len(a) = 2 /\ a[1] = net[2] /\ a[2] = net[1]
  BY <1>1
<1>3. b \in Seq(P) /\ IsSlice(b, net, 3, Len(net))
  <2>1. 3 \in 1 .. Len(net) + 1 /\ Len(net) \in 3 - 1 .. Len(net)
    BY <1>1
  <2> QED BY <2>1, SliceIs
<1>4. <<net[2], net[1]>> \o SubSeq(net, 3, Len(net)) = s
  BY DEF Joint
<1> HIDE DEF a, b
<1>5. s \in Seq(P) /\ Glued(a, b, s)
  BY <1>2, <1>3, JointGrows
<1> HIDE DEF s
<1>6. Len(b) = Len(net) - 2 /\ \A i \in 1 .. Len(net) - 2 : b[i] = net[i + 2]
  <2>1. (Len(net) - 3) + 1 = Len(net) - 2 /\ \A i \in 1 .. Len(net) - 2 : (3 + i) - 1 = i + 2
    BY <1>1
  <2> QED BY <1>3, <2>1 DEF IsSlice
<1>7. /\ Len(s) = Len(a) + Len(b)
      /\ \A p \in 1 .. Len(a) : s[p] = a[p]
      /\ \A p \in 1 .. Len(b) : s[Len(a) + p] = b[p]
  BY <1>5 DEF Glued
<1>8. Len(s) = Len(net) /\ s[1] = net[2] /\ s[2] = net[1]
  BY <1>1, <1>2, <1>6, <1>7
<1>9. ASSUME NEW i \in 3 .. Len(net) PROVE s[i] = net[i]
  <2>1. i - 2 \in 1 .. Len(net) - 2 /\ 2 + (i - 2) = i /\ (i - 2) + 2 = i
    BY <1>1
  <2>2. s[2 + (i - 2)] = b[i - 2] /\ b[i - 2] = net[(i - 2) + 2]
    BY <1>2, <1>6, <1>7, <2>1
  <2> QED BY <2>1, <2>2
<1> QED BY <1>4, <1>5, <1>8, <1>9

LEMMA RepeatNet ==
  ASSUME NEW P, net \in Seq(P), net # <<>>
  PROVE  LET s == <<Head(net)>> \o net IN
           /\ s \in Seq(P) /\ Len(s) = Len(net) + 1 /\ s[1] = net[1]
           /\ \A i \in 2 .. Len(net) + 1 : s[i] = net[i - 1]
<1> DEFINE a == <<Head(net)>>
           s == Joint(a, net)
<1>1. Len(net) \in Nat /\ Head(net) \in P /\ Head(net) = net[1]
  BY NetType
<1>2. a \in Seq(P) /\ Len(a) = 1 /\ a[1] = net[1]
  BY <1>1
<1>3. <<Head(net)>> \o net = s
  BY DEF Joint
<1> HIDE DEF a
<1>4. s \in Seq(P) /\ Glued(a, net, s)
  BY <1>2, JointGrows
<1> HIDE DEF s
<1>5. /\ Len(s) = Len(a) + Len(net)
      /\ \A p \in 1 .. Len(a) : s[p] = a[p]
      /\ \A p \in 1 .. Len(net) : s[Len(a) + p] = net[p]
  BY <1>4 DEF Glued
<1>6. Len(s) = Len(net) + 1 /\ s[1] = net[1]
  BY <1>1, <1>2, <1>5
<1>7. ASSUME NEW i \in 2 .. Len(net) + 1 PROVE s[i] = net[i - 1]
  <2>1. i - 1 \in 1 .. Len(net) /\ 1 + (i - 1) = i
    BY <1>1
  <2>2. s[1 + (i - 1)] = net[i - 1]
    BY <1>2, <1>5, <2>1
  <2> QED BY <2>1, <2>2
<1> QED BY <1>3, <1>4, <1>6, <1>7

LEMMA TroubleType ==
  ASSUME TypeInv, Lose \/ Overtake \/ Repeat
  PROVE  TypeInv'
<1>1. /\ UNCHANGED <<world, todo, pending, search, sending, seqno, last_seq_no, fed, alarm>>
      /\ trouble < MaxTrouble /\ trouble' = trouble + 1
      /\ happened' \in {happened \cup {"loss"}, happened \cup {"reorder"}, happened \cup {"dup"}}
  BY DEF Lose, Overtake, Repeat, Trouble, sender, receiver
<1>2. trouble' \in 0 .. MaxTrouble
  BY <1>1, Constants DEF TypeInv
<1>3. happened' \subseteq FaultKinds \cup {"lone", "blind"}
  BY <1>1 DEF TypeInv, FaultKinds
<1>4. net' \in Seq([packet : Carried, seq : 0 .. SeqNos - 1])
  <2>0. net \in Seq([packet : Carried, seq : 0 .. SeqNos - 1])
    BY DEF TypeInv
  <2>1. CASE Lose
    BY <2>0, <2>1, NetType DEF Lose
  <2>2. CASE Overtake
    BY <2>0, <2>2, OvertakeNet DEF Overtake
  <2>3. CASE Repeat
    BY <2>0, <2>3, RepeatNet DEF Repeat
  <2> QED BY <2>1, <2>2, <2>3
<1> QED BY <1>1, <1>2, <1>3, <1>4 DEF TypeInv

LEMMA NextType == TypeInv /\ [Next]_vars => TypeInv'
<1> SUFFICES ASSUME TypeInv, [Next]_vars PROVE TypeInv'
  OBVIOUS
<1>1. CASE KeepRest
  <2>1. /\ search' = 0
        /\ UNCHANGED <<world, todo, pending, sending, seqno, net, last_seq_no, fed, alarm, trouble, happened>>
    BY <1>1 DEF KeepRest, receiver
  <2>2. 0 \in 0 .. Len(pending)
    BY DEF TypeInv
  <2> QED BY <2>1, <2>2 DEF TypeInv
<1>2. CASE SendFails
  <2>1. /\ sending' = Nothing /\ happened' = happened \cup {"senderr"}
        /\ UNCHANGED <<world, todo, pending, search, seqno, net, last_seq_no, fed, alarm, trouble>>
    BY <1>2 DEF SendFails, receiver
  <2>2. happened' \subseteq FaultKinds \cup {"lone", "blind"}
    BY <2>1 DEF TypeInv, FaultKinds
  <2> QED BY <2>1, <2>2, NothingType DEF TypeInv
<1>3. CASE UNCHANGED vars
  BY <1>3 DEF TypeInv, vars, sender, receiver
<1> QED BY <1>1, <1>2, <1>3, AnalyzeType, NextNalType, SendPacketType, DeliverType, TroubleType DEF Next

\* Every variable keeps its type, for every stream.
THEOREM TypeCorrect == Spec => []TypeOK
<1>1. Spec => []TypeInv
  BY InitType, NextType, PTL DEF Spec
<1> QED BY <1>1, TypeInvIsTypeOK, PTL

-----------------------------------------------------------------------------
(* The numbers, while the network does nothing                             *)

\* The network has done nothing.
Calm == happened \cap {"loss", "reorder", "dup"} = {}

\* The number after n.
After(n) == IF n + 1 = SeqNos THEN 0 ELSE n + 1

\* From the packet received last over those under way to the one sent next the
\* numbers follow each other.
NumberInv ==
  /\ \E S : net \in Seq(S)
  /\ seqno \in 0 .. SeqNos - 1 /\ last_seq_no \in 0 .. SeqNos - 1
  /\ \A i \in 1 .. Len(net) : net[i].seq \in 0 .. SeqNos - 1
  /\ net = <<>> => seqno = After(last_seq_no)
  /\ net # <<>> => net[1].seq = After(last_seq_no) /\ seqno = After(net[Len(net)].seq)
  /\ \A i \in 1 .. Len(net) - 1 : net[i + 1].seq = After(net[i].seq)
  /\ alarm = FALSE

\* Inductive of itself.
IInv == Calm => NumberInv

LEMMA AfterIsNext ==
  ASSUME NEW n \in 0 .. SeqNos - 1
  PROVE  (n + 1) % SeqNos = After(n) /\ After(n) \in 0 .. SeqNos - 1
<1>1. SeqNos \in Nat /\ SeqNos > 1
  BY SeqNosAssumption, MaxTroubleAssumption
<1>2. CASE n + 1 = SeqNos
  <2>1. SeqNos % SeqNos = 0
    BY <1>1, Z3
  <2> QED BY <1>1, <1>2, <2>1 DEF After
<1>3. CASE n + 1 # SeqNos
  <2>1. n + 1 \in 0 .. SeqNos - 1
    BY <1>1, <1>3
  <2>2. (n + 1) % SeqNos = n + 1
    BY <1>1, <2>1, Z3
  <2> QED BY <1>1, <1>3, <2>1, <2>2 DEF After
<1> QED BY <1>2, <1>3

\* A packet that is sent goes behind those under way, with the number after.
LEMMA SendIInv == IInv /\ SendPacket => IInv'
<1> SUFFICES ASSUME IInv, SendPacket, Calm' PROVE NumberInv'
  BY DEF IInv
<1> DEFINE p == [packet |-> Packet(sending), seq |-> seqno]
<1>1. /\ net' = Append(net, p) /\ seqno' = (seqno + 1) % SeqNos
      /\ last_seq_no' = last_seq_no /\ alarm' = alarm
      /\ happened \subseteq happened'
  BY DEF SendPacket, receiver
<1>2. NumberInv
  BY <1>1 DEF IInv, Calm
<1>3. PICK S : net \in Seq(S)
  BY <1>2 DEF NumberInv
<1>4. net \in Seq(S \cup {p})
  BY <1>3
<1>5. net' \in Seq(S \cup {p}) /\ Len(net') = Len(net) + 1 /\ Len(net) \in Nat
  BY <1>1, <1>4
<1>6. /\ \A i \in 1 .. Len(net) : net'[i] = net[i]
      /\ net'[Len(net) + 1] = p
  BY <1>1, <1>4
<1>7. p.seq = seqno
  OBVIOUS
<1> HIDE DEF p
<1>8. seqno' = After(seqno) /\ seqno' \in 0 .. SeqNos - 1 /\ seqno \in 0 .. SeqNos - 1
  BY <1>1, <1>2, AfterIsNext DEF NumberInv
<1>9. \A i \in 1 .. Len(net') : net'[i].seq \in 0 .. SeqNos - 1
  BY <1>2, <1>5, <1>6, <1>7, <1>8 DEF NumberInv
<1>10. net' # <<>> /\ net'[1].seq = After(last_seq_no) /\ net'[Len(net')].seq = seqno
  <2>1. CASE net = <<>>
    BY <1>2, <1>5, <1>6, <1>7, <2>1 DEF NumberInv
  <2>2. CASE net # <<>>
    <3>1. Len(net) > 0
      BY <1>3, <2>2
    <3> QED BY <1>2, <1>5, <1>6, <1>7, <2>2, <3>1 DEF NumberInv
  <2> QED BY <2>1, <2>2
<1>11. \A i \in 1 .. Len(net') - 1 : net'[i + 1].seq = After(net'[i].seq)
  <2> SUFFICES ASSUME NEW i \in 1 .. Len(net') - 1 PROVE net'[i + 1].seq = After(net'[i].seq)
    OBVIOUS
  <2>1. CASE i = Len(net)
    <3>1. net # <<>>
      BY <1>5, <2>1
    <3>2. seqno = After(net[Len(net)].seq)
      BY <1>2, <3>1 DEF NumberInv
    <3> QED BY <1>5, <1>6, <1>7, <2>1, <3>2
  <2>2. CASE i # Len(net)
    <3>1. i \in 1 .. Len(net) - 1
      BY <1>5, <2>2
    <3>2. net[i + 1].seq = After(net[i].seq)
      BY <1>2, <3>1 DEF NumberInv
    <3> QED BY <1>5, <1>6, <3>1, <3>2
  <2> QED BY <2>1, <2>2
<1>12. last_seq_no' \in 0 .. SeqNos - 1 /\ alarm' = FALSE
  BY <1>1, <1>2 DEF NumberInv
<1>13. seqno' = After(net'[Len(net')].seq)
  BY <1>8, <1>10
<1>14. \E T : net' \in Seq(T)
  BY <1>5
<1>15. net'[1].seq = After(last_seq_no')
  BY <1>1, <1>10
<1> QED BY <1>8, <1>9, <1>10, <1>11, <1>12, <1>13, <1>14, <1>15 DEF NumberInv, After

\* What is received has the number after the one before: the receiver is silent.
LEMMA DeliverIInv == IInv /\ Deliver => IInv'
<1> SUFFICES ASSUME IInv, Deliver, Calm' PROVE NumberInv'
  BY DEF IInv
<1>1. /\ net # <<>> /\ net' = Tail(net)
      /\ last_seq_no' = Head(net).seq
      /\ alarm' = (alarm \/ OutOfTurn(Head(net).seq))
      /\ seqno' = seqno /\ happened \subseteq happened'
  BY DEF Deliver, Receive, sender
<1>2. NumberInv
  BY <1>1 DEF IInv, Calm
<1>3. PICK S : net \in Seq(S)
  BY <1>2 DEF NumberInv
<1>4. /\ Len(net) \in Nat /\ Len(net) > 0 /\ Head(net) = net[1]
      /\ net' \in Seq(S) /\ Len(net') = Len(net) - 1
      /\ \A i \in 1 .. Len(net') : net'[i] = net[i + 1]
  BY <1>1, <1>3
<1>5. last_seq_no' = After(last_seq_no) /\ last_seq_no' \in 0 .. SeqNos - 1
  BY <1>1, <1>2, <1>4 DEF NumberInv
<1>6. alarm' = FALSE
  <2>1. ~OutOfTurn(last_seq_no')
    BY <1>2, <1>5 DEF NumberInv, OutOfTurn, After
  <2>2. ~OutOfTurn(Head(net).seq)
    BY <1>1, <2>1
  <2> QED BY <1>1, <1>2, <2>2 DEF NumberInv
<1>7. \A i \in 1 .. Len(net') : net'[i].seq \in 0 .. SeqNos - 1
  <2> SUFFICES ASSUME NEW i \in 1 .. Len(net') PROVE net'[i].seq \in 0 .. SeqNos - 1
    OBVIOUS
  <2>1. i + 1 \in 1 .. Len(net) /\ net'[i] = net[i + 1]
    BY <1>4
  <2>2. net[i + 1].seq \in 0 .. SeqNos - 1
    BY <1>2, <2>1 DEF NumberInv
  <2> QED BY <2>1, <2>2
<1>8. \A i \in 1 .. Len(net') - 1 : net'[i + 1].seq = After(net'[i].seq)
  <2> SUFFICES ASSUME NEW i \in 1 .. Len(net') - 1 PROVE net'[i + 1].seq = After(net'[i].seq)
    OBVIOUS
  <2>1. i + 1 \in 1 .. Len(net) - 1
    BY <1>4
  <2>2. net[(i + 1) + 1].seq = After(net[i + 1].seq)
    BY <1>2, <2>1 DEF NumberInv
  <2> QED BY <1>4, <2>1, <2>2
<1>9. seqno = After(net[Len(net)].seq)
  BY <1>1, <1>2 DEF NumberInv
<1>10. net' = <<>> => seqno' = After(last_seq_no')
  <2> SUFFICES ASSUME net' = <<>> PROVE seqno' = After(last_seq_no')
    OBVIOUS
  <2>1. Len(net) = 1
    BY <1>4
  <2> QED BY <1>1, <1>4, <1>9, <2>1
<1>11. net' # <<>> => net'[1].seq = After(last_seq_no') /\ seqno' = After(net'[Len(net')].seq)
  <2> SUFFICES ASSUME net' # <<>>
               PROVE  net'[1].seq = After(last_seq_no') /\ seqno' = After(net'[Len(net')].seq)
    OBVIOUS
  <2>1. Len(net') > 0
    BY <1>4
  <2>2. net'[1] = net[2] /\ net'[Len(net')] = net[Len(net)]
    BY <1>4, <2>1
  <2>3. net[2].seq = After(net[1].seq)
    <3>1. 1 \in 1 .. Len(net) - 1
      BY <1>4, <2>1
    <3>2. net[1 + 1].seq = After(net[1].seq)
      BY <1>2, <3>1 DEF NumberInv
    <3> QED BY <3>2
  <2> QED BY <1>1, <1>4, <1>9, <2>2, <2>3
<1>12. seqno' \in 0 .. SeqNos - 1
  BY <1>1, <1>2 DEF NumberInv
<1>13. \E T : net' \in Seq(T)
  BY <1>4
<1> QED BY <1>5, <1>6, <1>7, <1>8, <1>10, <1>11, <1>12, <1>13 DEF NumberInv, After

\* What the encoder hands over, and what cannot be sent, takes no number.
LEMMA NextIInv == IInv /\ [Next]_vars => IInv'
<1> SUFFICES ASSUME IInv, [Next]_vars PROVE IInv'
  OBVIOUS
<1>0. ASSUME happened \subseteq happened', UNCHANGED <<seqno, net, receiver>>
      PROVE  IInv'
  <2> SUFFICES ASSUME Calm' PROVE NumberInv'
    BY DEF IInv
  <2>1. NumberInv
    BY <1>0 DEF IInv, Calm
  <2> QED BY <1>0, <2>1 DEF NumberInv, receiver, After
<1>1. CASE Analyze
  <2>1. happened \subseteq happened' /\ UNCHANGED <<seqno, net, receiver>>
    BY <1>1 DEF Analyze
  <2> QED BY <1>0, <2>1
<1>1a. CASE NextNal
  <2>1. happened \subseteq happened' /\ UNCHANGED <<seqno, net, receiver>>
    BY <1>1a DEF NextNal
  <2> QED BY <1>0, <2>1
<1>1b. CASE KeepRest
  <2>1. happened \subseteq happened' /\ UNCHANGED <<seqno, net, receiver>>
    BY <1>1b DEF KeepRest
  <2> QED BY <1>0, <2>1
<1>2. CASE SendPacket
  BY <1>2, SendIInv
<1>3. CASE SendFails
  <2>1. happened \subseteq happened' /\ UNCHANGED <<seqno, net, receiver>>
    BY <1>3 DEF SendFails
  <2> QED BY <1>0, <2>1
<1>4. CASE Deliver
  BY <1>4, DeliverIInv
<1>5. CASE Lose \/ Overtake \/ Repeat
  <2>1. ~Calm'
    BY <1>5 DEF Lose, Overtake, Repeat, Calm
  <2> QED BY <2>1 DEF IInv
<1>6. CASE UNCHANGED vars
  <2>1. happened \subseteq happened' /\ UNCHANGED <<seqno, net, receiver>>
    BY <1>6 DEF vars, sender
  <2> QED BY <1>0, <2>1
<1> QED BY <1>1, <1>1a, <1>1b, <1>2, <1>3, <1>4, <1>5, <1>6 DEF Next

LEMMA InitIInv == Init => IInv
<1> SUFFICES ASSUME Init PROVE NumberInv
  BY DEF IInv
<1>1. SeqNos \in Nat /\ SeqNos > 1
  BY SeqNosAssumption, MaxTroubleAssumption
<1>2. net = <<>> /\ seqno = 1 /\ last_seq_no = 0 /\ alarm = FALSE
  BY DEF Init
<1>3. net \in Seq({})
  BY <1>2
<1>4. Len(net) = 0
  BY <1>2
<1> QED BY <1>1, <1>2, <1>3, <1>4 DEF NumberInv, After

\* As long as the network does nothing, "rtp seq error" is never printed: for
\* every stream, every way it is cut into buffers, every sendto that fails, and
\* however often the numbers start again.
THEOREM NoAlarmWithoutTrouble == Spec => []NoFalseAlarm
<1>1. IInv => NoFalseAlarm
  BY DEF IInv, Calm, NumberInv, NoFalseAlarm
<1> QED BY <1>1, InitIInv, NextIInv, PTL DEF Spec

-----------------------------------------------------------------------------
(* From the buffers to the NALs                                            *)

\* In d no code begins before position s, nor at its end; nowhere if s is 0.
Scanned(d, s) ==
  \A i \in 1 .. Len(d) - 2 : s = 0 \/ i < s \/ i = Len(d) - 2 => ~Mark(d, i)

\* t bytes of the stream were handed over; k NALs went on to be sent.
HandedOver(nals, k, t) ==
  /\ k \in 0 .. Len(nals) /\ t \in 0 .. Len(ByteStream(nals))
  /\ IsSlice(todo, ByteStream(nals), t + 1, Len(ByteStream(nals)))
  /\ pending = <<>> => k = 0 /\ t = 0 /\ search = 0
  /\ pending # <<>> => /\ k < Len(nals) /\ Starts(nals)[k + 1] < t
                       /\ IsSlice(pending, ByteStream(nals), Starts(nals)[k + 1] + 1, t)
  /\ Scanned(pending, search)

LEMMA SliceMark ==
  ASSUME NEW d \in Seq(Byte), NEW B, NEW b \in Nat, NEW t \in Nat, b <= t,
         IsSlice(d, B, b + 1, t)
  PROVE  /\ Len(d) = t - b /\ Len(d) \in Nat
         /\ \A i \in 1 .. Len(d) - 2 : /\ Mark(d, i) <=> Mark(B, b + i)
                                       /\ CodeAt(d, i) <=> Mark(d, i)
<1>1. Len(d) = t - b /\ \A i \in 1 .. t - b : d[i] = B[b + i]
  <2>1. (t - (b + 1)) + 1 = t - b /\ \A i \in 1 .. t - b : ((b + 1) + i) - 1 = b + i
    OBVIOUS
  <2> QED BY <2>1 DEF IsSlice
<1>2. ASSUME NEW i \in 1 .. Len(d) - 2
      PROVE  (Mark(d, i) <=> Mark(B, b + i)) /\ (CodeAt(d, i) <=> Mark(d, i))
  <2>1. /\ i \in 1 .. t - b /\ i + 1 \in 1 .. t - b /\ i + 2 \in 1 .. t - b
        /\ b + (i + 1) = (b + i) + 1 /\ b + (i + 2) = (b + i) + 2
    BY <1>1
  <2>2. Mark(d, i) <=> Mark(B, b + i)
    BY <1>1, <2>1 DEF Mark
  <2> QED BY <2>2, CodeAtIs
<1>3. Len(d) \in Nat
  OBVIOUS
<1>4. Len(d) = t - b
  BY <1>1
<1> QED BY <1>2, <1>3, <1>4

\* A buffer is handed over.
LEMMA AnalyzeHands ==
  ASSUME TypeInv, Analyze, "cut" \notin happened',
         NEW nals, GoodStream(nals), NEW k, NEW t, HandedOver(nals, k, t)
  PROVE  \E u : HandedOver(nals, k, u)'
<1> DEFINE B == ByteStream(nals)
           st == Starts(nals)
           len == Lens(nals)
<1>1. PICK n \in 1 .. Len(todo) :
        LET data == SubSeq(todo, 1, n) IN
        /\ Len(Joined(data)) >= 3
        /\ todo' = SubSeq(todo, n + 1, Len(todo))
        /\ pending' = Joined(data) /\ Joined(data) # <<>>
        /\ search' = Begin(pending)
        /\ ~EndsInCode(pending \o data)
  BY DEF Analyze
<1> DEFINE data == SubSeq(todo, 1, n)
           r == SubSeq(todo, n + 1, Len(todo))
           j == Joined(data)
<1>2. /\ todo \in Seq(Byte) /\ pending \in Seq(Byte) /\ Len(todo) \in Nat /\ Len(pending) \in Nat
  BY DEF TypeInv
<1>3. /\ Len(j) >= 3 /\ todo' = r /\ pending' = j /\ j # <<>> /\ search' = Begin(pending)
      /\ ~EndsInCode(Joint(pending, data)) /\ search = 0
  BY <1>1 DEF Joint, Analyze
<1>4. StreamFacts(nals, B, len, st)
  BY StreamIs
<1> HIDE DEF B, st, len, j
<1>5. /\ k \in 0 .. Len(nals) /\ t \in 0 .. Len(B)
      /\ IsSlice(todo, B, t + 1, Len(B))
      /\ pending = <<>> => k = 0 /\ t = 0
      /\ pending # <<>> => k < Len(nals) /\ st[k + 1] < t /\ IsSlice(pending, B, st[k + 1] + 1, t)
      /\ \A i \in 1 .. Len(pending) - 2 : ~Mark(pending, i)
  BY <1>3 DEF HandedOver, B, st, Scanned
<1>6. /\ Len(B) \in Nat /\ Len(nals) \in Nat
      /\ \A m \in 1 .. Len(nals) : st[m] \in Nat
      /\ Len(nals) > 0 => st[1] \in {3, 4}
  BY <1>4 DEF StreamFacts
<1>7. Len(todo) = Len(B) - t /\ t \in Nat /\ t <= Len(B)
  <2>1. t \in Nat /\ t <= Len(B)
    BY <1>5, <1>6
  <2>2. IsSlice(todo, B, t + 1, Len(B)) /\ Len(B) \in Nat /\ todo \in Seq(Byte)
    BY <1>2, <1>5, <1>6
  <2>3. Len(todo) = Len(B) - t
    BY ONLY <2>1, <2>2, SliceMark
  <2> QED BY <2>1, <2>3
<1>8. data \in Seq(Byte) /\ IsSlice(data, B, t + 1, t + n) /\ t + n \in 0 .. Len(B) /\ t + n \in Nat
  <2>1. 1 \in 1 .. Len(todo) + 1 /\ n \in 1 - 1 .. Len(todo)
    BY <1>2
  <2>2. SubSeq(todo, 1, n) \in Seq(Byte) /\ IsSlice(SubSeq(todo, 1, n), B, t + 1, t + n)
    BY <1>2, <1>5, <1>6, <1>7, <2>1, SliceSlice
  <2>3. t + n \in 0 .. Len(B) /\ t + n \in Nat
    BY <1>2, <1>6, <1>7
  <2> QED BY <2>2, <2>3
<1>9. IsSlice(r, B, (t + n) + 1, Len(B))
  <2>1. n + 1 \in 1 .. Len(todo) + 1 /\ Len(todo) \in (n + 1) - 1 .. Len(todo)
    BY <1>2
  <2>2. IsSlice(r, B, t + (n + 1), t + Len(todo))
    BY <1>2, <1>5, <1>6, <1>7, <2>1, SliceSlice
  <2>3. t + (n + 1) = (t + n) + 1 /\ t + Len(todo) = Len(B)
    BY <1>2, <1>6, <1>7
  <2> QED BY <2>2, <2>3
<1> HIDE DEF data, r
<1>10. Len(data) = n /\ n \in Nat
  <2>1. t <= t + n
    BY <1>7
  <2>2. Len(data) = (t + n) - t
    BY <1>7, <1>8, <2>1, SliceMark
  <2> QED BY <1>2, <1>7, <2>2
<1>11. CASE pending = <<>>
  <2>1. k = 0 /\ t = 0
    BY <1>5, <1>11
  <2>2. j = Behind(data, 1) /\ Codes(data, 1) # {}
    BY <1>3, <1>11 DEF j, Joined
  <2>3. Len(data) \in Nat /\ IsSlice(data, B, 0 + 1, n) /\ n <= Len(B) /\ 0 <= n
    BY <1>6, <1>8, <1>10, <2>1
  <2>4. \A i \in 1 .. Len(data) - 2 : i < 1 => ~Mark(data, i)
    BY <2>3
  <2>5. 1 <= Len(nals) => 0 < st[1] - 2
    BY <1>6
  <2>6. /\ 1 <= Len(nals) /\ st[1] < n
        /\ Behind(data, 1) \in Seq(Byte) /\ IsSlice(Behind(data, 1), B, st[1] + 1, n)
    <3>1. \A m \in 1 .. Len(nals) : m < 1 => st[m] - 2 <= 0
      BY <1>6
    <3>2. 0 \in Nat /\ 1 \in Nat /\ n \in Nat /\ 1 >= 1
      BY <1>10
    <3> QED BY <1>4, <1>8, <2>2, <2>3, <2>4, <2>5, <3>1, <3>2, CodeFound
  <2>7. j \in Seq(Byte) /\ IsSlice(j, B, st[1] + 1, n) /\ st[1] \in Nat /\ st[1] < n
    BY <1>6, <2>2, <2>6
  <2>8. Scanned(j, 1)
    <3> SUFFICES ASSUME NEW i \in 1 .. Len(j) - 2, 1 = 0 \/ i < 1 \/ i = Len(j) - 2, Mark(j, i)
                 PROVE  FALSE
      BY DEF Scanned
    <3>1. Len(j) = n - st[1] /\ Len(j) \in Nat
      <4>1. st[1] <= n
        BY <1>10, <2>7
      <4> QED BY <1>10, <2>7, <4>1, SliceMark
    <3>2. i = Len(j) - 2
      BY <3>1
    <3>3. Mark(B, st[1] + i)
      <4>1. st[1] <= n
        BY <1>10, <2>7
      <4> QED BY <1>10, <2>7, <4>1, SliceMark
    <3>4. st[1] + i = n - 2 /\ n - 2 \in 1 .. Len(data) - 2 /\ 0 + (n - 2) = n - 2
      BY <1>10, <2>7, <3>1, <3>2
    <3>5. CodeAt(data, n - 2)
      <4>1. Mark(B, 0 + (n - 2))
        BY <3>3, <3>4
      <4> QED BY ZenonT(40), <1>8, <1>10, <2>3, <3>4, <4>1, SliceMark
    <3>6. Joint(pending, data) = data
      BY <1>8, <1>11, ConcatEmptySeq DEF Joint
    <3>7. ~EndsInCode(data)
      BY <1>3, <3>6
    <3>8. Len(data) > 2 /\ Len(data) - 2 = n - 2
      BY <1>10, <3>4
    <3> QED BY <3>5, <3>7, <3>8 DEF EndsInCode
  <2>9. search' = 1
    BY <1>3, <1>11, EmptySeq DEF Begin
  <2>10. 0 + n = n /\ 0 + 1 = 1 /\ 0 < Len(nals)
    BY <1>6, <1>10, <2>6
  <2>11. HandedOver(nals, k, t + n)'
    BY <1>3, <1>5, <1>8, <1>9, <1>10, <2>1, <2>7, <2>8, <2>9, <2>10 DEF HandedOver, B, st
  <2> QED BY <2>11
<1>12. CASE pending # <<>>
  <2> DEFINE a == st[k + 1]
  <2>1. /\ k < Len(nals) /\ a < t /\ IsSlice(pending, B, a + 1, t) /\ a \in Nat
    <3>1. k + 1 \in 1 .. Len(nals)
      BY <1>5, <1>6, <1>12
    <3> QED BY <1>5, <1>6, <1>12, <3>1
  <2> HIDE DEF a
  <2>2. j = Joint(pending, data)
    BY <1>12 DEF j, Joined, Joint
  <2>3. j \in Seq(Byte) /\ IsSlice(j, B, a + 1, t + n) /\ a <= t + n /\ a < t + n
    <3>1. a <= t /\ t <= t + n /\ a <= t + n /\ a < t + n
      BY <1>7, <1>10, <2>1
    <3> QED BY <1>2, <1>7, <1>8, <2>1, <2>2, <3>1, SliceJoint
  <2>4. Len(j) = (t + n) - a /\ Len(j) \in Nat
    BY <1>8, <2>1, <2>3, SliceMark
  <2>5. Len(pending) = t - a
    <3>1. a <= t
      BY <1>7, <2>1
    <3> QED BY <1>2, <1>7, <2>1, <3>1, SliceMark
  <2>6. Scanned(j, Begin(pending))
    <3> SUFFICES ASSUME NEW i \in 1 .. Len(j) - 2,
                        Begin(pending) = 0 \/ i < Begin(pending) \/ i = Len(j) - 2, Mark(j, i)
                 PROVE  FALSE
      BY DEF Scanned
    <3>1. CASE i = Len(j) - 2
      <4>1. CodeAt(j, Len(j) - 2) /\ Len(j) > 2
        <5>1. Len(j) - 2 \in 1 .. Len(j) - 2 /\ Len(j) > 2
          BY <2>4, <3>1
        <5>2. CodeAt(j, Len(j) - 2) <=> Mark(j, Len(j) - 2)
          BY <2>3, <5>1, CodeAtIs
        <5> QED BY <3>1, <5>1, <5>2
      <4> QED BY <1>3, <2>2, <4>1 DEF EndsInCode
    <3>2. CASE i # Len(j) - 2
      <4>1. i \in 1 .. Len(pending) - 2
        <5>1. Begin(pending) = IF Len(pending) < 2 THEN 1 ELSE Len(pending) - 1
          BY DEF Begin
        <5>2. i \in Nat /\ i >= 1
          BY <2>4
        <5>3. CASE Len(pending) < 2
          <6>1. Begin(pending) = 1
            BY <5>1, <5>3
          <6> QED BY <3>2, <5>2, <6>1
        <5>4. CASE ~(Len(pending) < 2)
          <6> DEFINE z == Begin(pending)
                    y == Len(pending)
          <6>1. z = y - 1 /\ (z = 0 \/ i < z) /\ y \in Nat /\ ~(y < 2)
            BY <1>2, <3>2, <5>1, <5>4
          <6> HIDE DEF z, y
          <6>2. i \in 1 .. y - 2
            BY <5>2, <6>1
          <6> QED BY <6>2 DEF y
        <5> QED BY <5>3, <5>4
      <4>2. Mark(B, a + i)
        BY <1>8, <2>1, <2>3, SliceMark
      <4>3. Mark(pending, i)
        <5>1. a <= t
          BY <1>7, <2>1
        <5> QED BY <1>2, <1>7, <2>1, <4>1, <4>2, <5>1, SliceMark
      <4> QED BY <1>5, <4>1, <4>3
    <3> QED BY <3>1, <3>2
  <2>7. HandedOver(nals, k, t + n)'
    BY <1>3, <1>5, <1>8, <1>9, <1>12, <2>1, <2>3, <2>6 DEF HandedOver, B, st, a
  <2> QED BY <2>7
<1> QED BY <1>11, <1>12

\* No code is found any more.
LEMMA KeepHands ==
  ASSUME TypeInv, KeepRest, NEW nals, NEW k, NEW t, HandedOver(nals, k, t)
  PROVE  HandedOver(nals, k, t)'
<1>1. search # 0 /\ Codes(pending, search) = {} /\ search' = 0 /\ todo' = todo /\ pending' = pending
  BY DEF KeepRest
<1>2. pending \in Seq(Byte) /\ search \in Nat /\ Len(pending) \in Nat
  BY DEF TypeInv
<1>3. ASSUME NEW i \in 1 .. Len(pending) - 2 PROVE ~Mark(pending, i)
  <2>1. CASE i < search \/ i = Len(pending) - 2
    BY <2>1 DEF HandedOver, Scanned
  <2>2. CASE ~(i < search \/ i = Len(pending) - 2)
    <3>1. i \in search .. Len(pending) - 3
      BY <1>2, <2>2
    <3>2. ~CodeAt(pending, i)
      BY <1>1, <3>1 DEF Codes
    <3> QED BY <1>2, <3>2, CodeAtIs
  <2> QED BY <2>1, <2>2
<1>4. Scanned(pending, 0)
  BY <1>3 DEF Scanned
<1> QED BY <1>1, <1>4 DEF HandedOver

\* A code is found: before it is the NAL that is its turn.
LEMMA NextHands ==
  ASSUME TypeInv, NextNal, NEW nals, GoodStream(nals), NEW k, NEW t, HandedOver(nals, k, t)
  PROVE  /\ k + 1 \in 1 .. Len(nals) /\ k \in Nat
         /\ HandedOver(nals, k + 1, t)'
         /\ sending' = Started(nals[k + 1])
<1> DEFINE B == ByteStream(nals)
           st == Starts(nals)
           len == Lens(nals)
           rest == Behind(pending, search)
           nal == NalBefore(pending, search)
<1>1. /\ search # 0 /\ Codes(pending, search) # {}
      /\ sending' = IF nal = <<>> THEN Nothing ELSE Started(nal)
      /\ pending' = rest /\ search' = 1 /\ todo' = todo
  BY DEF NextNal
<1>2. pending \in Seq(Byte) /\ search \in Nat /\ search >= 1
  BY <1>1 DEF TypeInv
<1>3. StreamFacts(nals, B, len, st)
  BY StreamIs
<1> HIDE DEF B, st, len, rest, nal
<1>4. pending # <<>> /\ Scanned(pending, search) /\ IsSlice(todo, B, t + 1, Len(B))
  BY <1>1 DEF HandedOver, B
<1>5. /\ k \in 0 .. Len(nals) /\ k < Len(nals) /\ t \in 0 .. Len(B)
      /\ st[k + 1] < t /\ IsSlice(pending, B, st[k + 1] + 1, t)
  BY <1>4 DEF HandedOver, B, st
<1>6. /\ Len(B) \in Nat /\ Len(nals) \in Nat
      /\ \A m \in 1 .. Len(nals) : st[m] \in Nat /\ len[m] \in Nat
      /\ \A m \in 1 .. Len(nals), n \in 1 .. Len(nals) : m < n => st[m] + len[m] + 3 <= st[n]
      /\ \A m \in 1 .. Len(nals) : nals[m] # <<>>
  BY <1>3 DEF StreamFacts, GoodStream
<1> DEFINE a == st[k + 1]
<1>7. a \in Nat /\ t \in Nat /\ t <= Len(B) /\ a < t /\ a <= t /\ IsSlice(pending, B, a + 1, t)
  <2>1. k + 1 \in 1 .. Len(nals)
    BY <1>5, <1>6
  <2> DEFINE b == st[k + 1]
  <2>2. b \in Nat /\ b < t
    BY <1>5, <1>6, <2>1
  <2> HIDE DEF b
  <2>3. t \in Nat /\ t <= Len(B) /\ b <= t
    BY <1>5, <1>6, <2>2
  <2> QED BY <1>5, <2>2, <2>3 DEF b
<1>8. \A i \in 1 .. Len(pending) - 2 : i < search => ~Mark(pending, i)
  BY <1>4 DEF Scanned
<1>9. k + 2 <= Len(nals) => a < st[k + 2] - 2
  <2> SUFFICES ASSUME k + 2 <= Len(nals) PROVE a < st[k + 2] - 2
    OBVIOUS
  <2>1. k + 1 \in 1 .. Len(nals) /\ k + 2 \in 1 .. Len(nals) /\ k + 1 < k + 2
    BY <1>5, <1>6
  <2>2. st[k + 1] + len[k + 1] + 3 <= st[k + 2] /\ len[k + 1] \in Nat /\ st[k + 2] \in Nat
    BY <1>6, <2>1
  <2> DEFINE x == st[k + 2]
             y == len[k + 1]
  <2>3. a + y + 3 <= x /\ y \in Nat /\ x \in Nat
    BY <2>2
  <2> HIDE DEF a, x, y
  <2>4. a < x - 2
    BY <1>7, <2>3
  <2> QED BY <2>4 DEF x
<1>10. ASSUME NEW n \in 1 .. Len(nals), n < k + 2 PROVE st[n] - 2 <= a
  <2>1. k + 1 \in 1 .. Len(nals) /\ n <= k + 1
    BY <1>5, <1>6, <1>10
  <2>2. CASE n = k + 1
    <3> HIDE DEF a
    <3>1. a - 2 <= a
      BY <1>7
    <3> QED BY <2>2, <3>1 DEF a
  <2>3. CASE n # k + 1
    <3> DEFINE x == st[n]
               y == len[n]
    <3>1. n < k + 1
      BY <1>5, <1>6, <2>1, <2>3
    <3>2. x + y + 3 <= a /\ x \in Nat /\ y \in Nat
      BY <1>6, <2>1, <3>1
    <3> HIDE DEF a, x, y
    <3>3. x - 2 <= a
      BY <1>7, <3>2
    <3> QED BY <3>3 DEF x
  <2> QED BY <2>2, <2>3
<1>11. k + 2 \in Nat /\ k + 2 >= 1 /\ k \in Nat
  BY <1>5, <1>6
<1> DEFINE f == Min(Codes(pending, search))
<1> HIDE DEF a
<1>12. /\ k + 2 <= Len(nals) /\ st[k + 2] < t
       /\ f = (st[k + 2] - 2) - a
       /\ f \in 1 .. Len(pending) - 3
       /\ rest \in Seq(Byte) /\ IsSlice(rest, B, st[k + 2] + 1, t)
  BY ZenonT(40), <1>1, <1>2, <1>3, <1>7, <1>8, <1>9, <1>10, <1>11, CodeFound DEF rest
<1>13. k + 1 \in 1 .. Len(nals) - 1 /\ (k + 1) + 1 = k + 2 /\ k + 1 \in 1 .. Len(nals) /\ k + 2 \in 1 .. Len(nals)
  BY SMTT(20), <1>5, <1>6, <1>12
<1>14. nal = nals[k + 1]
  <2>1. f = (st[(k + 1) + 1] - 2) - st[k + 1]
    BY <1>12, <1>13 DEF a
  <2> QED BY <1>2, <1>3, <1>5, <1>7, <1>12, <1>13, <2>1, NalFound DEF nal, a
<1>15. sending' = Started(nals[k + 1])
  BY <1>1, <1>6, <1>13, <1>14
<1> DEFINE c == st[k + 2]
<1>16. c \in Nat /\ c < t /\ c <= t /\ a < c /\ IsSlice(rest, B, c + 1, t)
  <2>1. c \in Nat /\ c < t /\ a < c - 2 /\ IsSlice(rest, B, c + 1, t)
    BY <1>6, <1>9, <1>12, <1>13
  <2> HIDE DEF c
  <2>2. a < c /\ c <= t
    BY <1>7, <2>1
  <2> QED BY <2>1, <2>2
<1> HIDE DEF c
<1>17. Scanned(rest, 1)
  <2> SUFFICES ASSUME NEW i \in 1 .. Len(rest) - 2, 1 = 0 \/ i < 1 \/ i = Len(rest) - 2, Mark(rest, i)
               PROVE  FALSE
    BY DEF Scanned
  <2>1. Len(rest) = t - c /\ Mark(B, c + i)
    BY <1>7, <1>12, <1>16, SliceMark
  <2>2. Len(pending) = t - a
    BY <1>2, <1>7, SliceMark
  <2>3. i = Len(rest) - 2
    BY <1>7, <1>16, <2>1
  <2>4. Len(pending) - 2 \in 1 .. Len(pending) - 2 /\ c + i = a + (Len(pending) - 2)
    BY <1>7, <1>16, <2>1, <2>2, <2>3
  <2>5. Mark(pending, Len(pending) - 2)
    <3>1. Mark(B, a + (Len(pending) - 2))
      BY Zenon, <2>1, <2>4
    <3>2. pending \in Seq(Byte) /\ a \in Nat /\ t \in Nat /\ a <= t /\ IsSlice(pending, B, a + 1, t)
      BY <1>2, <1>7
    <3>3. \A x \in 1 .. Len(pending) - 2 : Mark(pending, x) <=> Mark(B, a + x)
      BY ONLY <3>2, SliceMark
    <3> QED BY ONLY <2>4, <3>1, <3>3
  <2>6. ~Mark(pending, Len(pending) - 2)
    BY Zenon, <1>4, <2>4 DEF Scanned
  <2> QED BY <2>5, <2>6
<1>18. rest # <<>>
  <2>1. Len(rest) = t - c
    BY <1>7, <1>12, <1>16, SliceMark
  <2>2. Len(rest) # 0
    BY <1>7, <1>16, <2>1
  <2> QED BY <2>2, EmptySeq
<1>19. /\ k + 1 \in 0 .. Len(nals) /\ k + 1 < Len(nals) /\ t \in 0 .. Len(B)
       /\ st[(k + 1) + 1] < t /\ IsSlice(rest, B, st[(k + 1) + 1] + 1, t)
  <2>1. k + 1 \in 0 .. Len(nals) /\ k + 1 < Len(nals)
    BY <1>6, <1>11, <1>12
  <2> QED BY <1>5, <1>13, <1>16, <2>1 DEF c
<1>20. HandedOver(nals, k + 1, t)'
  BY <1>1, <1>4, <1>17, <1>18, <1>19 DEF HandedOver, B, st
<1> QED BY <1>11, <1>13, <1>15, <1>20

-----------------------------------------------------------------------------
(* From a NAL to its packets                                               *)

\* With u bytes of what the decoder should be fed sent, s is what is left of NAL k.
Left(nals, k, u, s) ==
  /\ u \in 0 .. Len(Feed(nals))
  /\ s.data = <<>> => u = Ends(nals)[k]
  /\ s.data # <<>> =>
       /\ k > 0 /\ s.head = nals[k][1]
       /\ IsSlice(s.data, Feed(nals), (Ends(nals)[k] - Len(s.data)) + 1, Ends(nals)[k])
       /\ \/ ~s.fu /\ ~s.first /\ Len(s.data) = Lens(nals)[k] /\ u = Ends(nals)[k - 1]
          \/ s.fu /\ s.first /\ Len(s.data) = Lens(nals)[k] - 1 /\ u = Ends(nals)[k - 1]
          \/ s.fu /\ ~s.first /\ Len(s.data) <= Lens(nals)[k] /\ u = Ends(nals)[k] - Len(s.data)

\* p is what comes behind the first a bytes, up to byte b.
Carries(nals, p, a, b) ==
  a \in Nat /\ b \in Nat /\ a <= b /\ IsSlice(Unpack(p), Feed(nals), a + 1, b)

\* Where a NAL is in the feed.
NalAt(F, nal, e, g, l) ==
  /\ e \in Nat /\ g \in Nat /\ l \in Nat /\ l > 0 /\ g = e + (4 + l)
  /\ g <= Len(F) /\ Len(F) \in Nat /\ F \in Seq(Byte)
  /\ nal \in Seq(Byte) /\ Len(nal) = l
  /\ \A j \in 1 .. 4 : F[e + j] = LongCode[j]
  /\ \A j \in 1 .. l : F[(e + 4) + j] = nal[j]

LEMMA NalFacts ==
  ASSUME NEW nals, GoodStream(nals), NEW k \in 1 .. Len(nals)
  PROVE  NalAt(Feed(nals), nals[k], Ends(nals)[k - 1], Ends(nals)[k], Lens(nals)[k])
<1> DEFINE F == Feed(nals)
           len == Lens(nals)
           ends == Ends(nals)
<1>1. FeedFacts(nals, F, len, ends)
  BY FeedIs
<1>2. nals \in Seq(Seq(Byte)) /\ nals[k] # <<>> /\ len[k] = Len(nals[k])
  BY DEF GoodStream, Lens
<1>3. nals[k] \in Seq(Byte) /\ len[k] \in Nat /\ len[k] > 0
  <2>1. nals[k] \in Seq(Byte)
    BY <1>2, ElementOfSeq
  <2>2. Len(nals[k]) \in Nat /\ Len(nals[k]) > 0
    BY <1>2, <2>1, EmptySeq
  <2> HIDE DEF len
  <2> QED BY <1>2, <2>1, <2>2
<1> HIDE DEF F, len, ends
<1>4. k - 1 \in 0 .. Len(nals) /\ k \in 0 .. Len(nals) /\ Len(nals) \in Nat
  BY <1>1 DEF FeedFacts
<1>5. /\ F \in Seq(Byte) /\ Len(F) \in Nat
      /\ ends[k - 1] \in Nat /\ ends[k] \in Nat /\ ends[k] <= Len(F)
      /\ ends[k] = ends[k - 1] + (4 + len[k])
      /\ \A j \in 1 .. 4 : F[ends[k - 1] + j] = LongCode[j]
      /\ \A j \in 1 .. len[k] : F[(ends[k - 1] + 4) + j] = nals[k][j]
  BY <1>1, <1>4 DEF FeedFacts
<1>6. NalAt(F, nals[k], ends[k - 1], ends[k], len[k])
  BY Zenon, <1>2, <1>3, <1>5 DEF NalAt
<1> QED BY <1>6 DEF F, ends, len

LEMMA StartedLeft ==
  ASSUME NEW nals, GoodStream(nals), NEW k \in 1 .. Len(nals)
  PROVE  Left(nals, k, Ends(nals)[k - 1], Started(nals[k]))
<1> DEFINE nal == nals[k]
           e == Ends(nals)[k - 1]
           g == Ends(nals)[k]
           l == Lens(nals)[k]
           F == Feed(nals)
<1>0. NalAt(F, nal, e, g, l)
  BY NalFacts
<1>2. Started(nal) = IF Whole(nal) THEN Sending(FALSE, FALSE, nal[1], nal)
                                   ELSE Sending(TRUE, TRUE, nal[1], Tail(nal))
  BY DEF Started
<1>3. nal # <<>>
  BY DEF GoodStream
<1>4. k \in Nat /\ k > 0
  BY DEF GoodStream
<1>5. MaxLen \in Nat /\ MaxLen > 0
  BY MaxLenAssumption
<1> HIDE DEF nal, e, g, l, F
<1>1. /\ e \in Nat /\ g \in Nat /\ l \in Nat /\ l > 0 /\ g = e + (4 + l)
      /\ g <= Len(F) /\ Len(F) \in Nat
      /\ nal \in Seq(Byte) /\ Len(nal) = l
      /\ \A j \in 1 .. l : F[(e + 4) + j] = nal[j]
  BY <1>0 DEF NalAt
<1>6. e \in 0 .. Len(F)
  BY <1>1
<1>7. CASE Whole(nal)
  <2> DEFINE s == Sending(FALSE, FALSE, nal[1], nal)
  <2>1. s.fu = FALSE /\ s.first = FALSE /\ s.head = nal[1] /\ s.data = nal /\ Started(nal) = s
    BY <1>2, <1>7 DEF Sending
  <2> HIDE DEF s
  <2>2. (g - l) + 1 = e + 5 /\ (g - (e + 5)) + 1 = l
    BY <1>1
  <2>3. \A i \in 1 .. l : ((e + 5) + i) - 1 = (e + 4) + i
    BY <1>1
  <2>4. IsSlice(nal, F, e + 5, g)
    BY <1>1, <2>2, <2>3 DEF IsSlice
  <2>5. IsSlice(nal, F, (g - Len(nal)) + 1, g)
    BY <1>1, <2>2, <2>4
  <2>6. Left(nals, k, e, s)
    BY Zenon, <1>1, <1>3, <1>4, <1>6, <2>1, <2>5 DEF Left, nal, e, g, l, F
  <2> QED BY <2>1, <2>6 DEF nal, e
<1>8. CASE ~Whole(nal)
  <2> DEFINE s == Sending(TRUE, TRUE, nal[1], Tail(nal))
             d == Tail(nal)
  <2>1. s.fu = TRUE /\ s.first = TRUE /\ s.head = nal[1] /\ s.data = d /\ Started(nal) = s
    BY <1>2, <1>8 DEF Sending
  <2>0. Len(d) = l - 1 /\ \A i \in 1 .. l - 1 : d[i] = nal[i + 1]
    <3>1. Len(Tail(nal)) = Len(nal) - 1 /\ \A i \in 1 .. Len(Tail(nal)) : Tail(nal)[i] = nal[i + 1]
      BY <1>1, <1>3, HeadTailProperties
    <3> QED BY <1>1, <3>1
  <2> HIDE DEF s, d
  <2>2. l > 1
    <3>1. Len(nal) > MaxLen
      BY <1>1, <1>5, <1>8 DEF Whole
    <3> QED BY <1>1, <1>5, <3>1
  <2>3. d # <<>>
    <3>1. Len(d) # 0
      BY <1>1, <2>0, <2>2
    <3> QED BY <3>1, EmptySeq
  <2>4. (g - (l - 1)) + 1 = e + 6 /\ (g - (e + 6)) + 1 = l - 1
    BY <1>1
  <2>5. ASSUME NEW i \in 1 .. l - 1 PROVE d[i] = F[((e + 6) + i) - 1]
    <3>1. i + 1 \in 1 .. l /\ (e + 4) + (i + 1) = ((e + 6) + i) - 1
      BY <1>1
    <3> QED BY <1>1, <2>0, <3>1
  <2>6. IsSlice(d, F, e + 6, g)
    BY <2>0, <2>4, <2>5 DEF IsSlice
  <2>7. IsSlice(d, F, (g - Len(d)) + 1, g)
    BY <2>0, <2>4, <2>6
  <2>8. Left(nals, k, e, s)
    BY Zenon, <1>4, <1>6, <2>0, <2>1, <2>3, <2>7 DEF Left, nal, e, g, l, F
  <2> QED BY <2>1, <2>8 DEF nal, e
<1> QED BY <1>7, <1>8 DEF nal, e

\* A packet takes what comes next, and leaves what comes behind it.
LEMMA PacketLeft ==
  ASSUME NEW nals, GoodStream(nals), NEW k \in 0 .. Len(nals), NEW u,
         sending \in Record, sending.data # <<>>, Left(nals, k, u, sending),
         ~(Packet(sending).first /\ Packet(sending).last)
  PROVE  \E v : Left(nals, k, v, AfterPacket(sending)) /\ Carries(nals, Packet(sending), u, v)
<1> DEFINE s == sending
           d == s.data
           n == Portion(s)
           e == Ends(nals)[k - 1]
           g == Ends(nals)[k]
           l == Lens(nals)[k]
           F == Feed(nals)
           h == <<nals[k][1]>>
           p == Packet(s)
           piece == SubSeq(d, 1, n)
           rest == SubSeq(d, n + 1, Len(d))
<1>1. k \in 1 .. Len(nals) /\ k > 0
  BY DEF Left, GoodStream
<1>0. NalAt(F, nals[k], e, g, l)
  BY <1>1, NalFacts
<1>3. /\ d \in Seq(Byte) /\ Len(d) \in Nat /\ Len(d) > 0 /\ n \in 1 .. Len(d)
      /\ s.fu \in BOOLEAN /\ s.first \in BOOLEAN
  <2>1. d \in Seq(Byte) /\ s.fu \in BOOLEAN /\ s.first \in BOOLEAN
    BY DEF Record
  <2>2. n \in 1 .. Len(d)
    BY PacketType
  <2>3. Len(d) \in Nat /\ Len(d) > 0
    BY <2>1, EmptySeq
  <2> QED BY <2>1, <2>2, <2>3
<1>4. /\ s.head = nals[k][1]
      /\ IsSlice(d, F, (g - Len(d)) + 1, g)
      /\ \/ ~s.fu /\ ~s.first /\ Len(d) = l /\ u = e
         \/ s.fu /\ s.first /\ Len(d) = l - 1 /\ u = e
         \/ s.fu /\ ~s.first /\ Len(d) <= l /\ u = g - Len(d)
  BY DEF Left
<1>5. ~s.fu => n = Len(d)
  BY DEF Portion
<1>6. /\ p.fu = s.fu /\ p.head = s.head /\ p.first = s.first /\ p.last = (n = Len(d))
      /\ p.data = piece
  BY DEF Packet
<1>7. AfterPacket(s) = IF n = Len(d) THEN Nothing ELSE Sending(s.fu, FALSE, s.head, rest)
  BY DEF AfterPacket
<1>8. Unpack(p) = CASE ~p.fu -> Joint(LongCode, p.data)
                    [] p.fu /\ p.first /\ ~p.last -> Joint(Joint(LongCode, <<p.head>>), p.data)
                    [] OTHER -> p.data
  BY DEF Unpack, Joint, LongCode
<1>9. ~(p.first /\ p.last)
  OBVIOUS
<1> HIDE DEF s, d, n, e, g, l, F, p
<1>2. /\ e \in Nat /\ g \in Nat /\ l \in Nat /\ l > 0 /\ g = e + (4 + l)
      /\ g <= Len(F) /\ Len(F) \in Nat
  BY <1>0 DEF NalAt
<1> DEFINE z == g - Len(d)
<1>10. z \in Nat /\ z <= g /\ z + Len(d) = g
  <2>1. Len(d) <= l
    BY <1>2, <1>3, <1>4
  <2> QED BY <1>2, <1>3, <2>1
<1>11. piece \in Seq(Byte) /\ IsSlice(piece, F, z + 1, z + n) /\ rest \in Seq(Byte)
       /\ IsSlice(rest, F, z + (n + 1), z + Len(d))
  <2>1. /\ 1 \in 1 .. Len(d) + 1 /\ n \in 1 - 1 .. Len(d)
        /\ n + 1 \in 1 .. Len(d) + 1 /\ Len(d) \in (n + 1) - 1 .. Len(d)
    BY <1>3
  <2>2. IsSlice(d, F, z + 1, g)
    BY <1>4
  <2> HIDE DEF z
  <2>3. piece \in Seq(Byte) /\ IsSlice(piece, F, z + 1, z + n)
    BY <1>2, <1>3, <1>10, <2>1, <2>2, SliceSlice
  <2>4. rest \in Seq(Byte) /\ IsSlice(rest, F, z + (n + 1), z + Len(d))
    BY <1>2, <1>3, <1>10, <2>1, <2>2, SliceSlice
  <2> QED BY <2>3, <2>4
<1> HIDE DEF piece, rest, z
<1>12. IsSlice(LongCode, F, e + 1, e + 4) /\ LongCode \in Seq(Byte)
  <2>1. ((e + 4) - (e + 1)) + 1 = 4 /\ \A i \in 1 .. 4 : ((e + 1) + i) - 1 = e + i
    BY <1>2
  <2>2. \A j \in 1 .. 4 : F[e + j] = LongCode[j]
    BY <1>0 DEF NalAt
  <2> QED BY <2>1, <2>2, LongCodeIs DEF IsSlice
<1>13. h \in Seq(Byte) /\ IsSlice(h, F, (e + 4) + 1, e + 5)
  <2>1. 1 \in 1 .. l
    BY <1>2
  <2>2. nals[k][1] \in Byte /\ F[(e + 4) + 1] = nals[k][1]
    BY <1>0, <2>1, ElementOfSeq DEF NalAt
  <2>3. h \in Seq(Byte) /\ Len(h) = 1 /\ h[1] = nals[k][1]
    BY <2>2
  <2>4. ((e + 5) - ((e + 4) + 1)) + 1 = 1 /\ (((e + 4) + 1) + 1) - 1 = (e + 4) + 1
    BY <1>2
  <2> HIDE DEF h
  <2>5. \A i \in 1 .. 1 : i = 1
    OBVIOUS
  <2>6. \A i \in 1 .. 1 : h[i] = F[(((e + 4) + 1) + i) - 1]
    BY Zenon, <2>2, <2>3, <2>4, <2>5
  <2> QED BY <2>3, <2>4, <2>6 DEF IsSlice
<1> HIDE DEF h
\* What is left behind the packet.
<1>14. CASE n = Len(d)
  <2>1. AfterPacket(s) = Nothing /\ Nothing.data = <<>>
    BY <1>7, <1>14, NothingType
  <2>2. Left(nals, k, g, Nothing)
    <3>1. g \in 0 .. Len(F)
      BY <1>2
    <3> QED BY Zenon, <2>1, <3>1 DEF Left, g, F
  <2>3. z + n = g
    BY <1>10, <1>14
  <2>4. Carries(nals, p, u, g)
    <3>1. CASE ~s.fu
      <4>1. Unpack(p) = Joint(LongCode, piece)
        BY <1>6, <1>8, <3>1
      <4>2. z = e + 4 /\ u = e
        BY <1>2, <1>4, <3>1 DEF z
      <4>3. IsSlice(piece, F, (e + 4) + 1, g) /\ e + 4 \in Nat /\ e <= e + 4 /\ e + 4 <= g
        BY <1>2, <1>11, <2>3, <4>2
      <4>4. IsSlice(Joint(LongCode, piece), F, e + 1, g)
        BY <1>2, <1>11, <1>12, <4>3, SliceJoint
      <4>5. e <= g
        BY <1>2
      <4> QED BY <1>2, <4>1, <4>2, <4>4, <4>5 DEF Carries, F
    <3>2. CASE s.fu
      <4>1. ~s.first
        BY <1>6, <1>9, <1>14
      <4>2. Unpack(p) = piece
        BY <1>6, <1>8, <3>2, <4>1
      <4>3. u = z
        BY <1>4, <3>2, <4>1 DEF z
      <4> QED BY <1>2, <1>10, <1>11, <2>3, <4>2, <4>3 DEF Carries, F
    <3> QED BY <1>3, <3>1, <3>2
  <2> QED BY <2>1, <2>2, <2>4 DEF s, p
<1>15. CASE n # Len(d)
  <2> DEFINE r == Sending(s.fu, FALSE, s.head, rest)
  <2>1. AfterPacket(s) = r
    BY <1>7, <1>15
  <2>2. r.fu = s.fu /\ r.first = FALSE /\ r.head = s.head /\ r.data = rest
    BY DEF Sending
  <2> HIDE DEF r
  <2>3. s.fu
    BY <1>3, <1>5, <1>15
  <2>4. Len(rest) = Len(d) - n
    <3>1. ((z + Len(d)) - (z + (n + 1))) + 1 = Len(d) - n
      BY <1>3, <1>10
    <3> QED BY <1>11, <3>1 DEF IsSlice
  <2>5. rest # <<>>
    <3>1. Len(rest) # 0
      BY <1>3, <1>15, <2>4
    <3> QED BY <3>1, EmptySeq
  <2>6. z + n = g - Len(rest) /\ z + (n + 1) = (g - Len(rest)) + 1 /\ z + n \in 0 .. Len(F) /\ z + n \in Nat
    <3> DEFINE a == Len(d)
               b == Len(rest)
               c == Len(F)
    <3>1. /\ b = a - n /\ a \in Nat /\ n \in 1 .. a /\ z \in Nat /\ z + a = g /\ g \in Nat
          /\ g <= c /\ c \in Nat
      BY <1>2, <1>3, <1>10, <2>4
    <3> HIDE DEF a, b, c
    <3>2. z + n = g - b /\ z + (n + 1) = (g - b) + 1 /\ z + n \in 0 .. c /\ z + n \in Nat
      BY <3>1
    <3> QED BY <3>2 DEF b, c
  <2>7. IsSlice(rest, F, (g - Len(rest)) + 1, g)
    BY <1>10, <1>11, <2>6
  <2>8. Len(rest) <= l
    <3>1. Len(d) <= l
      BY <1>2, <1>3, <1>4
    <3> QED BY <1>2, <1>3, <2>4, <3>1
  <2>9. Left(nals, k, z + n, r)
    BY Zenon, <1>1, <1>4, <2>2, <2>3, <2>5, <2>6, <2>7, <2>8 DEF Left, g, l, F
  <2>10. Carries(nals, p, u, z + n)
    <3>1. CASE s.first
      <4>1. Unpack(p) = Joint(Joint(LongCode, h), piece)
        <5>1. p.fu /\ p.first /\ ~p.last /\ <<p.head>> = h /\ p.data = piece
          BY <1>4, <1>6, <1>15, <2>3, <3>1 DEF h
        <5> QED BY <1>8, <5>1
      <4>2. z = e + 5 /\ u = e
        <5>1. Len(d) = l - 1 /\ u = e
          BY <1>4, <2>3, <3>1
        <5> QED BY <1>2, <5>1 DEF z
      <4>3. Joint(LongCode, h) \in Seq(Byte) /\ IsSlice(Joint(LongCode, h), F, e + 1, e + 5)
        <5>1. e + 4 \in Nat /\ e + 5 \in Nat /\ e <= e + 4 /\ e + 4 <= e + 5
          BY <1>2
        <5> QED BY <1>2, <1>12, <1>13, <5>1, SliceJoint
      <4>4. IsSlice(Joint(Joint(LongCode, h), piece), F, e + 1, z + n)
        <5>1. e + 5 \in Nat /\ e <= e + 5 /\ e + 5 <= z + n /\ z + n \in Nat
          BY <1>2, <1>3, <4>2
        <5>2. IsSlice(piece, F, (e + 5) + 1, z + n)
          BY <1>11, <4>2
        <5> QED BY <1>2, <1>11, <4>3, <5>1, <5>2, SliceJoint
      <4>5. e <= z + n
        BY <1>2, <1>3, <4>2
      <4> QED BY <1>2, <2>6, <4>1, <4>2, <4>4, <4>5 DEF Carries, F
    <3>2. CASE ~s.first
      <4>1. Unpack(p) = piece
        BY <1>6, <1>8, <2>3, <3>2
      <4>2. u = z /\ z <= z + n
        <5>1. u = z
          BY <1>4, <2>3, <3>2 DEF z
        <5>2. z <= z + n
          <6> DEFINE a == Len(d)
          <6>1. a \in Nat /\ n \in 1 .. a
            BY <1>3
          <6> HIDE DEF a
          <6> QED BY <1>10, <6>1
        <5> QED BY <5>1, <5>2
      <4> QED BY <1>10, <1>11, <2>6, <4>1, <4>2 DEF Carries, F
    <3> QED BY <1>3, <3>1, <3>2
  <2> QED BY <2>1, <2>9, <2>10 DEF s, p
<1> QED BY <1>14, <1>15

-----------------------------------------------------------------------------
(* Numbers that start again                                                *)

LEMMA Division ==
  ASSUME NEW S \in Nat, S > 1, NEW n \in Nat
  PROVE  \E q \in Nat : \E r \in 0 .. S - 1 : r = n % S /\ n = (q * S) + r
<1>1. n \div S \in Nat /\ n % S \in 0 .. S - 1
  BY Z3
<1>2. n = (n \div S) * S + (n % S)
  BY SMTT(60)
<1> QED BY <1>1, <1>2, Zenon

LEMMA Remainder ==
  ASSUME NEW S \in Nat, S > 1, NEW q \in Nat, NEW r \in 0 .. S - 1
  PROVE  ((q * S) + r) % S = r
BY Z3T(60)

LEMMA ModNext ==
  ASSUME NEW S \in Nat, S > 1, NEW n \in Nat
  PROVE  ((n % S) + 1) % S = (n + 1) % S
<1>1. PICK q \in Nat, r \in 0 .. S - 1 : r = n % S /\ n = (q * S) + r
  BY Division
<1>2. CASE r + 1 < S
  <2>1. r + 1 \in 0 .. S - 1
    BY <1>2
  <2>2. ((q * S) + (r + 1)) % S = r + 1
    BY <2>1, Remainder
  <2>3. ((0 * S) + (r + 1)) % S = r + 1
    BY <2>1, Remainder
  <2> DEFINE z == q * S
  <2>4. z \in Nat
    BY Z3
  <2>5. n + 1 = z + (r + 1)
    <3>1. n = z + r
      BY <1>1
    <3> HIDE DEF z
    <3> QED BY <2>4, <3>1
  <2>6. (0 * S) + (r + 1) = r + 1
    OBVIOUS
  <2> QED BY Zenon, <1>1, <2>2, <2>3, <2>5, <2>6
<1>3. CASE ~(r + 1 < S)
  <2>0. r + 1 = S /\ 0 \in 0 .. S - 1
    BY <1>3
  <2>1. q + 1 \in Nat /\ 1 \in Nat
    OBVIOUS
  <2>2. (((q + 1) * S) + 0) % S = 0
    BY <2>0, <2>1, Remainder
  <2>3. ((1 * S) + 0) % S = 0
    BY <2>0, <2>1, Remainder
  <2>4. ((q + 1) * S) + 0 = n + 1
    BY <1>1, <2>0, Z3T(20)
  <2>5. (1 * S) + 0 = r + 1
    BY <2>0
  <2> QED BY Zenon, <1>1, <2>2, <2>3, <2>4, <2>5
<1> QED BY <1>2, <1>3

LEMMA ModSame ==
  ASSUME NEW S \in Nat, S > 1, NEW a \in Nat, NEW b \in Nat, a % S = b % S, a - b < S, b - a < S
  PROVE  a = b
<1>1. PICK p \in Nat, r \in 0 .. S - 1 : r = a % S /\ a = (p * S) + r
  BY Division
<1>2. PICK q \in Nat, t \in 0 .. S - 1 : t = b % S /\ b = (q * S) + t
  BY Division
<1>3. r = t
  BY <1>1, <1>2
<1>4. ~(p < q)
  <2> SUFFICES ASSUME p < q PROVE FALSE
    OBVIOUS
  <2>1. (p + 1) * S <= q * S
    BY Z3T(20)
  <2>2. (p + 1) * S = (p * S) + S
    BY Z3T(20)
  <2> QED BY <1>1, <1>2, <1>3, <2>1, <2>2
<1>5. ~(q < p)
  <2> SUFFICES ASSUME q < p PROVE FALSE
    OBVIOUS
  <2>1. (q + 1) * S <= p * S
    BY Z3T(20)
  <2>2. (q + 1) * S = (q * S) + S
    BY Z3T(20)
  <2> QED BY <1>1, <1>2, <1>3, <2>1, <2>2
<1>6. p = q
  BY <1>4, <1>5
<1> QED BY <1>1, <1>2, <1>3, <1>6

-----------------------------------------------------------------------------
(* From the packets sent to those received                                 *)

\* a and b differ by d at most.
Near(a, b, d) == a - b <= d /\ b - a <= d

\* m packets were sent, with the first upto[i] bytes in the first i of them.
Path(nals, m, upto, u) ==
  /\ m \in Nat
  /\ upto[0] = 0 /\ upto[m] = u
  /\ \A i \in 0 .. m : upto[i] \in 0 .. Len(Feed(nals))
  /\ seqno = (m + 1) % SeqNos

\* Packet r was received last; the packet at place j of the network is packet idx[j].
Followed(nals, m, upto, r, idx) ==
  /\ r \in 0 .. m
  /\ \A j \in 1 .. Len(net) :
       /\ idx[j] \in 1 .. m
       /\ net[j].seq = idx[j] % SeqNos
       /\ Carries(nals, net[j].packet, upto[idx[j] - 1], upto[idx[j]])
       /\ Near(idx[j], r + j, trouble)
  /\ Near(m, r + Len(net), trouble)
  /\ last_seq_no = r % SeqNos
  /\ IsSlice(fed, Feed(nals), 1, upto[r])

\* Nothing was noticed, and nothing slipped through.
Silent == ~alarm /\ "blind" \notin happened

\* As long as nothing was noticed, what was fed is what the sender sent up to the
\* packet received last.
PathInv(nals, u) ==
  \E m, upto : /\ Path(nals, m, upto, u)
               /\ Silent => \E r, idx : Followed(nals, m, upto, r, idx)

\* The sender looks for codes: the path is not touched.
LEMMA QuietPath ==
  ASSUME UNCHANGED <<seqno, net, last_seq_no, fed, alarm, trouble>>,
         "blind" \in happened <=> "blind" \in happened',
         NEW nals, NEW u, PathInv(nals, u)
  PROVE  PathInv(nals, u)'
<1>1. PICK m, upto : /\ Path(nals, m, upto, u)
                     /\ Silent => \E r, idx : Followed(nals, m, upto, r, idx)
  BY DEF PathInv
<1>2. Path(nals, m, upto, u)'
  BY <1>1 DEF Path
<1>3. ASSUME Silent' PROVE \E r, idx : Followed(nals, m, upto, r, idx)'
  <2>1. Silent
    BY <1>3 DEF Silent
  <2>2. PICK r, idx : Followed(nals, m, upto, r, idx)
    BY <1>1, <2>1
  <2>3. Followed(nals, m, upto, r, idx)'
    BY <2>2 DEF Followed
  <2> QED BY <2>3
<1> QED BY <1>2, <1>3 DEF PathInv

\* A packet goes onto the path, behind the others.
LEMMA SendPath ==
  ASSUME TypeInv, SendPacket, NEW nals, NEW u, NEW v \in 0 .. Len(Feed(nals)), PathInv(nals, u),
         Carries(nals, Packet(sending), u, v)
  PROVE  PathInv(nals, v)'
<1>1. PICK m, upto : /\ Path(nals, m, upto, u)
                     /\ Silent => \E r, idx : Followed(nals, m, upto, r, idx)
  BY DEF PathInv
<1> DEFINE pk == Packet(sending)
           p == [packet |-> pk, seq |-> seqno]
           L == Len(net)
<1>2. /\ net' = Append(net, p) /\ seqno' = (seqno + 1) % SeqNos
      /\ happened \subseteq happened'
      /\ "blind" \in happened <=> "blind" \in happened'
      /\ UNCHANGED <<last_seq_no, fed, alarm, trouble>>
  BY DEF SendPacket, receiver
<1>3. m \in Nat /\ seqno = (m + 1) % SeqNos
  BY <1>1 DEF Path
<1>4. /\ L \in Nat /\ Len(net') = L + 1 /\ net'[L + 1] = p
      /\ \A j \in 1 .. L : net'[j] = net[j]
  <2>1. net \in Seq([packet : Carried, seq : 0 .. SeqNos - 1])
    BY DEF TypeInv
  <2>2. net \in Seq([packet : Carried, seq : 0 .. SeqNos - 1] \cup {p})
    BY <2>1, SeqMonotonic
  <2> HIDE DEF p
  <2> QED BY <1>2, <2>2, AppendProperties
<1>5. p.packet = pk /\ p.seq = seqno
  OBVIOUS
<1>6. PICK more : /\ \A i \in 0 .. m : more[i] = upto[i]
                  /\ more[m + 1] = v
  <2> DEFINE f == [i \in 0 .. m + 1 |-> IF i = m + 1 THEN v ELSE upto[i]]
  <2>1. /\ \A i \in 0 .. m : f[i] = upto[i]
        /\ f[m + 1] = v
    BY <1>3
  <2> HIDE DEF f
  <2> QED BY <2>1
<1> HIDE DEF p, pk, L
<1>7. Path(nals, m + 1, more, v)'
  <2>1. seqno' = ((m + 1) + 1) % SeqNos
    <3>1. m + 1 \in Nat
      BY <1>3
    <3> QED BY <1>2, <1>3, <3>1, Constants, ModNext
  <2>2. ASSUME NEW i \in 0 .. m + 1 PROVE more[i] \in 0 .. Len(Feed(nals))
    <3>1. CASE i = m + 1
      BY <1>6, <3>1
    <3>2. CASE i # m + 1
      <4>1. i \in 0 .. m
        BY <1>3, <3>2
      <4> QED BY <1>1, <1>6, <4>1 DEF Path
    <3> QED BY <3>1, <3>2
  <2>3. m + 1 \in Nat /\ 0 \in 0 .. m /\ more[0] = 0
    BY <1>1, <1>3, <1>6 DEF Path
  <2> QED BY <1>6, <2>1, <2>2, <2>3 DEF Path
<1>8. ASSUME Silent' PROVE \E r, idx : Followed(nals, m + 1, more, r, idx)'
  <2>1. Silent
    BY <1>2, <1>8 DEF Silent
  <2>2. PICK r, idx : Followed(nals, m, upto, r, idx)
    BY <1>1, <2>1
  <2>3. PICK ind : /\ \A j \in 1 .. L : ind[j] = idx[j]
                   /\ ind[L + 1] = m + 1
    <3> DEFINE f == [j \in 1 .. L + 1 |-> IF j = L + 1 THEN m + 1 ELSE idx[j]]
    <3>1. /\ \A j \in 1 .. L : f[j] = idx[j]
          /\ f[L + 1] = m + 1
      BY <1>4
    <3> HIDE DEF f
    <3> QED BY <3>1
  <2>4. r \in 0 .. m /\ r \in Nat /\ r \in 0 .. m + 1
    BY <1>3, <2>2 DEF Followed
  <2>5. trouble \in Nat
    BY Constants DEF TypeInv
  <2>6. Near(m + 1, r + (L + 1), trouble)
    <3>1. Near(m, r + L, trouble)
      BY <2>2 DEF Followed, L
    <3> QED BY <1>3, <1>4, <2>4, <2>5, <3>1 DEF Near
  <2>7. ASSUME NEW j \in 1 .. L + 1
        PROVE  /\ ind[j] \in 1 .. m + 1
               /\ net'[j].seq = ind[j] % SeqNos
               /\ Carries(nals, net'[j].packet, more[ind[j] - 1], more[ind[j]])
               /\ Near(ind[j], r + j, trouble)
    <3>1. CASE j = L + 1
      <4>1. net'[j] = p /\ ind[j] = m + 1 /\ (m + 1) - 1 = m /\ m \in 0 .. m /\ m + 1 \in 1 .. m + 1
        BY <1>3, <1>4, <2>3, <3>1
      <4>2. more[m] = u /\ more[m + 1] = v
        BY <1>1, <1>6, <4>1 DEF Path
      <4>3. Carries(nals, pk, u, v)
        BY DEF pk
      <4> QED BY Zenon, <1>3, <1>5, <2>6, <3>1, <4>1, <4>2, <4>3
    <3>2. CASE j # L + 1
      <4>1. j \in 1 .. L
        BY <1>4, <3>2
      <4>2. net'[j] = net[j] /\ ind[j] = idx[j]
        BY <1>4, <2>3, <4>1
      <4>3. /\ idx[j] \in 1 .. m
            /\ net[j].seq = idx[j] % SeqNos
            /\ Carries(nals, net[j].packet, upto[idx[j] - 1], upto[idx[j]])
            /\ Near(idx[j], r + j, trouble)
        BY <2>2, <4>1 DEF Followed, L
      <4>4. idx[j] - 1 \in 0 .. m /\ idx[j] \in 0 .. m /\ idx[j] \in 1 .. m + 1
        BY <1>3, <4>3
      <4>5. more[idx[j] - 1] = upto[idx[j] - 1] /\ more[idx[j]] = upto[idx[j]]
        BY <1>6, <4>4
      <4> QED BY Zenon, <4>2, <4>3, <4>4, <4>5
    <3> QED BY <3>1, <3>2
  <2>8. last_seq_no = r % SeqNos /\ IsSlice(fed, Feed(nals), 1, upto[r]) /\ more[r] = upto[r]
    BY <1>6, <2>2, <2>4 DEF Followed
  <2>9. Followed(nals, m + 1, more, r, ind)'
    <3>1. Len(net') = L + 1 /\ trouble' = trouble /\ last_seq_no' = last_seq_no /\ fed' = fed
      BY <1>2, <1>4
    <3>2. ASSUME NEW j \in 1 .. Len(net')
          PROVE  /\ ind[j] \in 1 .. m + 1
                 /\ net'[j].seq = ind[j] % SeqNos
                 /\ Carries(nals, net'[j].packet, more[ind[j] - 1], more[ind[j]])
                 /\ Near(ind[j], r + j, trouble')
      BY Zenon, <2>7, <3>1
    <3>3. Near(m + 1, r + Len(net'), trouble')
      BY Zenon, <2>6, <3>1
    <3>4. last_seq_no' = r % SeqNos /\ IsSlice(fed', Feed(nals), 1, more[r])
      BY Zenon, <2>8, <3>1
    <3> QED BY Zenon, <2>4, <3>2, <3>3, <3>4 DEF Followed
  <2> QED BY <2>9
<1> QED BY <1>7, <1>8 DEF PathInv

\* What is received without being noticed is the packet that is its turn: the
\* network does less than there are numbers.
LEMMA DeliverPath ==
  ASSUME TypeInv, Deliver, NEW nals, Feed(nals) \in Seq(Byte), NEW u, PathInv(nals, u)
  PROVE  PathInv(nals, u)'
<1>1. PICK m, upto : /\ Path(nals, m, upto, u)
                     /\ Silent => \E r, idx : Followed(nals, m, upto, r, idx)
  BY DEF PathInv
<1> DEFINE p == Head(net)
           F == Feed(nals)
           L == Len(net)
           up == Unpack(p.packet)
<1>2. /\ net # <<>> /\ net' = Tail(net) /\ fed' = Joint(fed, up)
      /\ alarm' = (alarm \/ OutOfTurn(p.seq)) /\ last_seq_no' = p.seq
      /\ happened' = happened \cup (IF p.seq = 0 /\ last_seq_no + 1 # SeqNos THEN {"blind"} ELSE {})
      /\ UNCHANGED <<seqno, trouble>>
  BY DEF Deliver, Receive, sender, Joint
<1>3. /\ L \in Nat /\ L > 0 /\ p = net[1] /\ Len(net') = L - 1
      /\ \A i \in 1 .. L - 1 : net'[i] = net[i + 1]
      /\ p \in [packet : Carried, seq : 0 .. SeqNos - 1]
  BY <1>2, NetType DEF TypeInv
<1> HIDE DEF p, F, L
<1>4. Path(nals, m, upto, u)'
  BY <1>1, <1>2 DEF Path
<1>5. ASSUME Silent' PROVE \E r, idx : Followed(nals, m, upto, r, idx)'
  <2>1. ~alarm /\ ~OutOfTurn(p.seq) /\ "blind" \notin happened'
    BY <1>2, <1>5 DEF Silent
  <2>2. Silent /\ (p.seq = 0 => last_seq_no + 1 = SeqNos)
    BY <1>2, <2>1 DEF Silent
  <2>3. PICK r, idx : Followed(nals, m, upto, r, idx)
    BY <1>1, <2>2
  <2>4. /\ m \in Nat /\ r \in 0 .. m /\ r \in Nat /\ trouble \in 0 .. MaxTrouble
        /\ last_seq_no \in 0 .. SeqNos - 1 /\ last_seq_no = r % SeqNos
        /\ IsSlice(fed, F, 1, upto[r]) /\ Near(m, r + L, trouble)
    BY <1>1, <2>3 DEF Path, Followed, TypeInv, F, L
  <2>5. ASSUME NEW j \in 1 .. L
        PROVE  /\ idx[j] \in 1 .. m
               /\ net[j].seq = idx[j] % SeqNos
               /\ Carries(nals, net[j].packet, upto[idx[j] - 1], upto[idx[j]])
               /\ Near(idx[j], r + j, trouble)
    BY <2>3 DEF Followed, L
  <2> DEFINE i == idx[1]
  <2>6. /\ i \in 1 .. m /\ i \in Nat /\ p.seq = i % SeqNos
        /\ Carries(nals, p.packet, upto[i - 1], upto[i]) /\ Near(i, r + 1, trouble)
    <3>1. 1 \in 1 .. L
      BY <1>3
    <3> QED BY <1>3, <2>4, <2>5, <3>1
  <2> HIDE DEF i
  <2>7. p.seq = After(last_seq_no)
    <3>1. p.seq \in 0 .. SeqNos - 1
      BY <1>3
    <3>2. p.seq = 0 \/ p.seq = last_seq_no + 1
      BY <2>1 DEF OutOfTurn
    <3> DEFINE q == p.seq
    <3> HIDE DEF q
    <3>3. q \in 0 .. SeqNos - 1 /\ (q = 0 \/ q = last_seq_no + 1) /\ (q = 0 => last_seq_no + 1 = SeqNos)
      BY <2>2, <3>1, <3>2 DEF q
    <3>4. q = After(last_seq_no)
      BY <2>4, <3>3, SeqNosAssumption, MaxTroubleAssumption DEF After
    <3> QED BY <3>4 DEF q
  <2>8. i % SeqNos = (r + 1) % SeqNos
    <3>1. ((r % SeqNos) + 1) % SeqNos = (r + 1) % SeqNos
      BY <2>4, Constants, ModNext
    <3>2. (last_seq_no + 1) % SeqNos = After(last_seq_no)
      BY <2>4, AfterIsNext
    <3> QED BY Zenon, <2>4, <2>6, <2>7, <3>1, <3>2
  <2>9. i = r + 1
    <3>1. i - (r + 1) < SeqNos /\ (r + 1) - i < SeqNos /\ r + 1 \in Nat
      BY <2>4, <2>6, SeqNosAssumption, MaxTroubleAssumption DEF Near
    <3> QED BY <2>6, <2>8, <3>1, Constants, ModSame
  <2>10. r + 1 \in 0 .. m /\ r + 1 \in 1 .. m /\ (r + 1) - 1 = r
    BY <2>4, <2>6, <2>9
  <2>11. Carries(nals, p.packet, upto[r], upto[r + 1]) /\ p.seq = (r + 1) % SeqNos
    BY Zenon, <2>6, <2>9, <2>10
  <2>12. IsSlice(fed', F, 1, upto[r + 1])
    <3>1. /\ upto[r] \in Nat /\ upto[r + 1] \in Nat /\ upto[r] <= upto[r + 1]
          /\ IsSlice(up, F, upto[r] + 1, upto[r + 1])
      BY <2>11 DEF Carries, F
    <3>2. up \in Seq(Byte)
      BY <1>3, UnpackType
    <3> HIDE DEF up
    <3>3. 0 \in Nat /\ 0 <= upto[r] /\ IsSlice(fed, F, 0 + 1, upto[r]) /\ fed \in Seq(Byte)
      BY <2>4, <3>1 DEF TypeInv
    <3>4. IsSlice(Joint(fed, up), F, 0 + 1, upto[r + 1])
      BY <3>1, <3>2, <3>3, SliceJoint
    <3> QED BY <1>2, <3>4
  <2>0. PICK ind : \A j \in 1 .. L - 1 : ind[j] = idx[j + 1]
    <3> DEFINE f == [j \in 1 .. L - 1 |-> idx[j + 1]]
    <3>1. \A j \in 1 .. L - 1 : f[j] = idx[j + 1]
      OBVIOUS
    <3> HIDE DEF f
    <3> QED BY <3>1
  <2>13. ASSUME NEW j \in 1 .. L - 1
         PROVE  /\ ind[j] \in 1 .. m
                /\ net'[j].seq = ind[j] % SeqNos
                /\ Carries(nals, net'[j].packet, upto[ind[j] - 1], upto[ind[j]])
                /\ Near(ind[j], (r + 1) + j, trouble)
    <3>1. j + 1 \in 1 .. L /\ r + (j + 1) = (r + 1) + j
      <4>1. L \in Nat /\ r \in Nat
        BY <1>3, <2>4
      <4> QED BY <4>1
    <3>2. net'[j] = net[j + 1] /\ ind[j] = idx[j + 1]
      <4>1. net'[j] = net[j + 1]
        BY <1>3
      <4> QED BY <2>0, <4>1
    <3>3. /\ idx[j + 1] \in 1 .. m
          /\ net[j + 1].seq = idx[j + 1] % SeqNos
          /\ Carries(nals, net[j + 1].packet, upto[idx[j + 1] - 1], upto[idx[j + 1]])
          /\ Near(idx[j + 1], r + (j + 1), trouble)
      BY <2>5, <3>1
    <3> QED BY Zenon, <3>1, <3>2, <3>3
  <2>14. Near(m, (r + 1) + (L - 1), trouble)
    <3>1. (r + 1) + (L - 1) = r + L
      BY <1>3, <2>4
    <3> QED BY <2>4, <3>1
  <2>15. Followed(nals, m, upto, r + 1, ind)'
    <3>1. Len(net') = L - 1 /\ trouble' = trouble /\ last_seq_no' = p.seq
      BY <1>2, <1>3
    <3>2. ASSUME NEW j \in 1 .. Len(net')
          PROVE  /\ ind[j] \in 1 .. m
                 /\ net'[j].seq = ind[j] % SeqNos
                 /\ Carries(nals, net'[j].packet, upto[ind[j] - 1], upto[ind[j]])
                 /\ Near(ind[j], (r + 1) + j, trouble')
      BY Zenon, <2>13, <3>1
    <3>3. Near(m, (r + 1) + Len(net'), trouble')
      BY Zenon, <2>14, <3>1
    <3>4. last_seq_no' = (r + 1) % SeqNos
      BY Zenon, <2>11, <3>1
    <3>5. IsSlice(fed', Feed(nals), 1, upto[r + 1])
      BY <2>12 DEF F
    <3> QED BY Zenon, <2>10, <3>2, <3>3, <3>4, <3>5 DEF Followed
  <2> QED BY <2>15
<1> QED BY <1>4, <1>5 DEF PathInv

\* A packet is lost, overtaken or repeated: no packet is further from its place
\* than what happened so far.
LEMMA TroublePath ==
  ASSUME TypeInv, Lose \/ Overtake \/ Repeat, NEW nals, NEW u, PathInv(nals, u)
  PROVE  PathInv(nals, u)'
<1>1. PICK m, upto : /\ Path(nals, m, upto, u)
                     /\ Silent => \E r, idx : Followed(nals, m, upto, r, idx)
  BY DEF PathInv
<1>2. /\ UNCHANGED <<seqno, last_seq_no, fed, alarm>>
      /\ trouble' = trouble + 1 /\ ("blind" \in happened <=> "blind" \in happened')
  BY DEF Lose, Overtake, Repeat, Trouble, sender, receiver
<1>3. Path(nals, m, upto, u)'
  BY <1>1, <1>2 DEF Path
<1>4. ASSUME Silent' PROVE \E r, idx : Followed(nals, m, upto, r, idx)'
  <2>1. Silent
    BY <1>2, <1>4 DEF Silent
  <2>2. PICK r, idx : Followed(nals, m, upto, r, idx)
    BY <1>1, <2>1
  <2> DEFINE L == Len(net)
             M == Len(net')
  <2>3. m \in Nat /\ r \in 0 .. m /\ r \in Nat /\ trouble \in Nat /\ L \in Nat
    <3>1. net \in Seq([packet : Carried, seq : 0 .. SeqNos - 1]) /\ trouble \in 0 .. MaxTrouble
      BY DEF TypeInv
    <3>2. m \in Nat /\ r \in 0 .. m
      BY <1>1, <2>2 DEF Path, Followed
    <3> QED BY <3>1, <3>2, MaxTroubleAssumption
  <2>4. /\ last_seq_no = r % SeqNos /\ IsSlice(fed, Feed(nals), 1, upto[r])
        /\ Near(m, r + L, trouble)
    BY <2>2 DEF Followed
  <2>5. ASSUME NEW j \in 1 .. L
        PROVE  /\ idx[j] \in 1 .. m /\ idx[j] \in Int
               /\ net[j].seq = idx[j] % SeqNos
               /\ Carries(nals, net[j].packet, upto[idx[j] - 1], upto[idx[j]])
               /\ Near(idx[j], r + j, trouble)
    <3>1. idx[j] \in 1 .. m
      BY <2>2 DEF Followed
    <3>2. idx[j] \in Int
      BY <2>3, <3>1
    <3> QED BY <2>2, <3>1, <3>2 DEF Followed
  \* Where each packet under way came from.
  <2>6. \E from : /\ M \in Nat /\ M - L \in -1 .. 1
                  /\ \A j \in 1 .. M : /\ from[j] \in 1 .. L /\ net'[j] = net[from[j]]
                                       /\ from[j] - j \in -1 .. 1
    <3>0. net \in Seq([packet : Carried, seq : 0 .. SeqNos - 1])
      BY DEF TypeInv
    <3>1. CASE Lose
      <4> DEFINE from == [j \in 1 .. M |-> j + 1]
      <4>1. M = L - 1 /\ L > 0 /\ \A j \in 1 .. L - 1 : net'[j] = net[j + 1]
        BY <3>0, <3>1, NetType DEF Lose
      <4> HIDE DEF M
      <4>2. ASSUME NEW j \in 1 .. M
            PROVE  from[j] \in 1 .. L /\ net'[j] = net[from[j]] /\ from[j] - j \in -1 .. 1
        <5>1. from[j] = j + 1 /\ j \in 1 .. L - 1
          BY <4>1
        <5> HIDE DEF from
        <5>2. j + 1 \in 1 .. L /\ (j + 1) - j \in -1 .. 1
          BY <2>3, <5>1
        <5> QED BY Zenon, <4>1, <5>1, <5>2
      <4>3. M \in Nat /\ M - L \in -1 .. 1
        BY <2>3, <4>1
      <4> HIDE DEF from
      <4> QED BY <4>2, <4>3
    <3>2. CASE Overtake
      <4> DEFINE from == [j \in 1 .. M |-> IF j = 1 THEN 2 ELSE IF j = 2 THEN 1 ELSE j]
      <4>1. L > 1 /\ net' = <<net[2], net[1]>> \o SubSeq(net, 3, Len(net))
        BY <3>2 DEF Overtake
      <4>2. M = L /\ net'[1] = net[2] /\ net'[2] = net[1] /\ \A j \in 3 .. L : net'[j] = net[j]
        BY <3>0, <4>1, OvertakeNet
      <4> HIDE DEF M
      <4>3. ASSUME NEW j \in 1 .. M
            PROVE  from[j] \in 1 .. L /\ net'[j] = net[from[j]] /\ from[j] - j \in -1 .. 1
        <5>1. from[j] = IF j = 1 THEN 2 ELSE IF j = 2 THEN 1 ELSE j
          OBVIOUS
        <5> HIDE DEF from
        <5>2. CASE j = 1
          <6>1. from[j] = 2 /\ 2 \in 1 .. L /\ 2 - 1 \in -1 .. 1
            BY <2>3, <4>1, <5>1, <5>2
          <6> QED BY Zenon, <4>2, <5>2, <6>1
        <5>3. CASE j = 2
          <6>1. from[j] = 1 /\ 1 \in 1 .. L /\ 1 - 2 \in -1 .. 1
            BY <2>3, <4>1, <5>1, <5>3
          <6> QED BY Zenon, <4>2, <5>3, <6>1
        <5>4. CASE j # 1 /\ j # 2
          <6>1. from[j] = j /\ j \in 1 .. L /\ j \in 3 .. L /\ j - j \in -1 .. 1
            BY <2>3, <4>2, <5>1, <5>4
          <6> QED BY Zenon, <4>2, <6>1
        <5> QED BY <5>2, <5>3, <5>4
      <4>4. M \in Nat /\ M - L \in -1 .. 1
        BY <2>3, <4>2
      <4> HIDE DEF from
      <4> QED BY <4>3, <4>4
    <3>3. CASE Repeat
      <4> DEFINE from == [j \in 1 .. M |-> IF j = 1 THEN 1 ELSE j - 1]
      <4>1. net # <<>> /\ net' = <<Head(net)>> \o net
        BY <3>3 DEF Repeat
      <4>2. M = L + 1 /\ net'[1] = net[1] /\ \A j \in 2 .. L + 1 : net'[j] = net[j - 1]
        BY <3>0, <4>1, RepeatNet
      <4>3. L > 0
        BY <3>0, <4>1, NetType
      <4> HIDE DEF M
      <4>4. ASSUME NEW j \in 1 .. M
            PROVE  from[j] \in 1 .. L /\ net'[j] = net[from[j]] /\ from[j] - j \in -1 .. 1
        <5>1. from[j] = IF j = 1 THEN 1 ELSE j - 1
          OBVIOUS
        <5> HIDE DEF from
        <5>2. CASE j = 1
          <6>1. from[j] = 1 /\ 1 \in 1 .. L /\ 1 - 1 \in -1 .. 1
            BY <2>3, <4>3, <5>1, <5>2
          <6> QED BY Zenon, <4>2, <5>2, <6>1
        <5>3. CASE j # 1
          <6>1. from[j] = j - 1 /\ j - 1 \in 1 .. L /\ j \in 2 .. L + 1 /\ (j - 1) - j \in -1 .. 1
            BY <2>3, <4>2, <5>1, <5>3
          <6> QED BY Zenon, <4>2, <6>1
        <5> QED BY <5>2, <5>3
      <4>5. M \in Nat /\ M - L \in -1 .. 1
        BY <2>3, <4>2
      <4> HIDE DEF from
      <4> QED BY <4>4, <4>5
    <3> QED BY <3>1, <3>2, <3>3
  <2>7. PICK from : /\ M \in Nat /\ M - L \in -1 .. 1
                    /\ \A j \in 1 .. M : /\ from[j] \in 1 .. L /\ net'[j] = net[from[j]]
                                         /\ from[j] - j \in -1 .. 1
    BY <2>6
  <2>7a. PICK ind : \A j \in 1 .. M : ind[j] = idx[from[j]]
    <3> DEFINE f == [j \in 1 .. M |-> idx[from[j]]]
    <3>1. \A j \in 1 .. M : f[j] = idx[from[j]]
      OBVIOUS
    <3> HIDE DEF f
    <3> QED BY <3>1
  <2>8. ASSUME NEW j \in 1 .. M
        PROVE  /\ ind[j] \in 1 .. m
               /\ net'[j].seq = ind[j] % SeqNos
               /\ Carries(nals, net'[j].packet, upto[ind[j] - 1], upto[ind[j]])
               /\ Near(ind[j], r + j, trouble + 1)
    <3> DEFINE f == from[j]
    <3>1. f \in 1 .. L /\ net'[j] = net[f] /\ f - j \in -1 .. 1
      BY <2>7
    <3>2. ind[j] = idx[f]
      BY <2>7a
    <3> HIDE DEF f
    <3>3. /\ idx[f] \in 1 .. m /\ idx[f] \in Int
          /\ net[f].seq = idx[f] % SeqNos
          /\ Carries(nals, net[f].packet, upto[idx[f] - 1], upto[idx[f]])
          /\ Near(idx[f], r + f, trouble)
      BY <2>5, <3>1
    <3>4. Near(idx[f], r + j, trouble + 1)
      <4> DEFINE a == idx[f]
      <4>1. a \in Int /\ a - (r + f) <= trouble /\ (r + f) - a <= trouble
        BY <3>3 DEF Near
      <4>2. f \in Int /\ j \in Int /\ f - j <= 1 /\ j - f <= 1
        BY <2>3, <2>7, <3>1
      <4> HIDE DEF a
      <4>3. a - (r + j) <= trouble + 1 /\ (r + j) - a <= trouble + 1
        BY <2>3, <4>1, <4>2
      <4> QED BY <4>3 DEF Near, a
    <3> QED BY Zenon, <3>1, <3>2, <3>3, <3>4
  <2>9. Near(m, r + M, trouble + 1)
    <3> HIDE DEF L, M
    <3> QED BY <2>3, <2>4, <2>7 DEF Near
  <2> HIDE DEF L
  <2>10. Followed(nals, m, upto, r, ind)'
    <3>1. M = Len(net')
      OBVIOUS
    <3> HIDE DEF M
    <3>2. ASSUME NEW j \in 1 .. Len(net')
          PROVE  /\ ind[j] \in 1 .. m
                 /\ net'[j].seq = ind[j] % SeqNos
                 /\ Carries(nals, net'[j].packet, upto[ind[j] - 1], upto[ind[j]])
                 /\ Near(ind[j], r + j, trouble')
      BY Zenon, <1>2, <2>8, <3>1
    <3>3. Near(m, r + Len(net'), trouble')
      BY Zenon, <1>2, <2>9, <3>1
    <3>4. last_seq_no' = r % SeqNos /\ IsSlice(fed', Feed(nals), 1, upto[r])
      BY Zenon, <1>2, <2>4
    <3> QED BY Zenon, <2>3, <3>2, <3>3, <3>4 DEF Followed
  <2> QED BY <2>10
<1> QED BY <1>3, <1>4 DEF PathInv

-----------------------------------------------------------------------------
(* The whole way                                                           *)

\* Nothing went wrong but in the network.
Clean == happened \cap {"cut", "senderr", "lone"} = {}

\* What the network did is in the history.
TroubleInv == trouble > 0 => happened \cap {"loss", "reorder", "dup"} # {}

\* The bytes handed over, the NAL in hand and the packets sent are one thread.
Threaded(nals) ==
  \E k, t, u : HandedOver(nals, k, t) /\ Left(nals, k, u, sending) /\ PathInv(nals, u)

ThreadInv == Clean => Threaded(world.stream)

\* The inductive invariant.
StreamInv == TypeInv /\ IInv /\ TroubleInv /\ ThreadInv

LEMMA FeedType ==
  ASSUME NEW nals, GoodStream(nals)
  PROVE  Feed(nals) \in Seq(Byte)
BY FeedIs DEF FeedFacts

LEMMA InitThread == Init => ThreadInv
<1> SUFFICES ASSUME Init PROVE Threaded(world.stream)
  BY DEF ThreadInv
<1>1. PICK nals : nals = world.stream
  OBVIOUS
<1>2. GoodStream(nals)
  BY <1>1, WorldGood DEF Init
<1>3. /\ todo = ByteStream(nals) /\ pending = <<>> /\ search = 0 /\ sending = Nothing
      /\ seqno = 1 /\ net = <<>> /\ last_seq_no = 0 /\ fed = <<>> /\ trouble = 0
  BY <1>1 DEF Init
<1>4. Len(<<>>) = 0
  BY EmptySeq
<1> DEFINE B == ByteStream(nals)
<1>5. Len(nals) \in Nat
  BY <1>2 DEF GoodStream
<1>6. B \in Seq(Byte) /\ Len(B) \in Nat
  BY <1>2, StreamBytes
<1> HIDE DEF B
<1>7. IsSlice(B, B, 0 + 1, Len(B))
  <2>1. (Len(B) - (0 + 1)) + 1 = Len(B) /\ \A i \in 1 .. Len(B) : ((0 + 1) + i) - 1 = i
    BY <1>6
  <2> QED BY <2>1 DEF IsSlice
<1>8. Scanned(<<>>, 0)
  BY <1>4 DEF Scanned
<1>9. HandedOver(nals, 0, 0)
  <2>1. 0 \in 0 .. Len(nals) /\ 0 \in 0 .. Len(B)
    BY <1>5, <1>6
  <2> QED BY Zenon, <1>3, <1>7, <1>8, <2>1 DEF HandedOver, B
<1> DEFINE F == Feed(nals)
<1>10. F \in Seq(Byte) /\ Len(F) \in Nat /\ Ends(nals)[0] = 0
  BY <1>2, FeedIs DEF FeedFacts
<1> HIDE DEF F
<1>11. Left(nals, 0, 0, sending)
  <2>1. 0 \in 0 .. Len(F)
    BY <1>10
  <2> QED BY Zenon, <1>3, <1>10, <2>1, NothingType DEF Left, F
<1>12. PICK upto : upto[0] = 0
  <2> DEFINE f == [i \in {0} |-> 0]
  <2>1. f[0] = 0
    OBVIOUS
  <2> HIDE DEF f
  <2> QED BY <2>1
<1>13. 1 % SeqNos = 1 /\ 0 % SeqNos = 0
  <2>1. 1 \in 0 .. SeqNos - 1 /\ 0 \in 0 .. SeqNos - 1 /\ SeqNos \in Nat /\ SeqNos > 1
    BY SeqNosAssumption, MaxTroubleAssumption
  <2>2. ((0 * SeqNos) + 1) % SeqNos = 1 /\ ((0 * SeqNos) + 0) % SeqNos = 0
    BY <2>1, Remainder
  <2>3. (0 * SeqNos) + 1 = 1 /\ (0 * SeqNos) + 0 = 0
    BY <2>1
  <2> QED BY Zenon, <2>2, <2>3
<1>14. Path(nals, 0, upto, 0)
  <2>1. 0 \in Nat /\ 0 + 1 = 1 /\ 0 \in 0 .. Len(F) /\ \A i \in 0 .. 0 : i = 0
    BY <1>10
  <2>2. seqno = (0 + 1) % SeqNos
    BY <1>3, <1>13, <2>1
  <2>3. \A i \in 0 .. 0 : upto[i] \in 0 .. Len(F)
    BY Zenon, <1>12, <2>1
  <2> QED BY Zenon, <1>12, <2>1, <2>2, <2>3 DEF Path, F
<1>15. Followed(nals, 0, upto, 0, upto)
  <2>1. 0 \in 0 .. 0 /\ Near(0, 0 + Len(net), trouble)
    BY <1>3, <1>4 DEF Near
  <2>2. \A j \in 1 .. Len(net) : FALSE
    BY <1>3, <1>4
  <2>3. IsSlice(fed, F, 1, upto[0])
    <3>1. (0 - 1) + 1 = 0 /\ \A i \in 1 .. 0 : FALSE
      OBVIOUS
    <3> QED BY Zenon, <1>3, <1>4, <1>12, <3>1 DEF IsSlice
  <2>4. last_seq_no = 0 % SeqNos
    BY <1>3, <1>13
  <2> QED BY Zenon, <2>1, <2>2, <2>3, <2>4 DEF Followed, F
<1>16. PathInv(nals, 0)
  BY <1>14, <1>15 DEF PathInv
<1> QED BY <1>1, <1>9, <1>11, <1>16 DEF Threaded

\* What is put together from the steps of the parts.
LEMMA SendThread ==
  ASSUME TypeInv, SendPacket, Clean', NEW nals, GoodStream(nals), Threaded(nals)
  PROVE  Threaded(nals)'
<1>1. PICK k, t, u : HandedOver(nals, k, t) /\ Left(nals, k, u, sending) /\ PathInv(nals, u)
  BY DEF Threaded
<1>2. sending \in Record /\ sending.data # <<>>
  BY DEF TypeInv, SendPacket
<1>3. ~(Packet(sending).first /\ Packet(sending).last)
  <2>1. happened' = happened \cup (IF Packet(sending).first /\ Packet(sending).last THEN {"lone"} ELSE {})
    BY DEF SendPacket
  <2> QED BY <2>1 DEF Clean
<1>4. k \in 0 .. Len(nals)
  BY <1>1 DEF HandedOver
<1>5. PICK v : Left(nals, k, v, AfterPacket(sending)) /\ Carries(nals, Packet(sending), u, v)
  BY <1>1, <1>2, <1>3, <1>4, PacketLeft
<1>6. v \in 0 .. Len(Feed(nals))
  BY <1>5 DEF Left
<1>7. PathInv(nals, v)'
  BY <1>1, <1>5, <1>6, SendPath
<1>8. HandedOver(nals, k, t)'
  <2>1. todo' = todo /\ pending' = pending /\ search' = search
    BY DEF SendPacket
  <2> QED BY <1>1, <2>1 DEF HandedOver
<1>9. sending' = AfterPacket(sending)
  BY DEF SendPacket
<1>10. Left(nals, k, v, sending')
  BY <1>5, <1>9
<1> QED BY <1>7, <1>8, <1>10 DEF Threaded

LEMMA NextThread ==
  ASSUME TypeInv, NextNal, NEW nals, GoodStream(nals), Threaded(nals)
  PROVE  Threaded(nals)'
<1>1. PICK k, t, u : HandedOver(nals, k, t) /\ Left(nals, k, u, sending) /\ PathInv(nals, u)
  BY DEF Threaded
<1>2. /\ sending.data = <<>>
      /\ UNCHANGED <<seqno, net, last_seq_no, fed, alarm, trouble, happened>>
  BY DEF NextNal, receiver
<1>3. k + 1 \in 1 .. Len(nals) /\ k \in Nat /\ HandedOver(nals, k + 1, t)' /\ sending' = Started(nals[k + 1])
  BY <1>1, NextHands
<1>4. u = Ends(nals)[k]
  BY <1>1, <1>2 DEF Left
<1>5. (k + 1) - 1 = k
  BY <1>3
<1>6. Left(nals, k + 1, u, sending')
  <2>1. Left(nals, k + 1, Ends(nals)[(k + 1) - 1], Started(nals[k + 1]))
    BY <1>3, StartedLeft
  <2> QED BY Zenon, <1>3, <1>4, <1>5, <2>1
<1>7. PathInv(nals, u)'
  BY <1>1, <1>2, QuietPath
<1> QED BY <1>3, <1>6, <1>7 DEF Threaded

\* Buffers, codes and packets keep the thread of the stream.
LEMMA StepThread ==
  ASSUME StreamInv, [Next]_vars, Clean'
  PROVE  Threaded(world.stream)'
<1>0. PICK nals : nals = world.stream
  OBVIOUS
<1>1. TypeInv /\ GoodStream(nals)
  BY <1>0, WorldGood DEF StreamInv, TypeInv
<1>2. world' = world /\ happened \subseteq happened'
  <2>1. CASE Analyze \/ NextNal \/ KeepRest \/ SendPacket \/ SendFails
    BY <2>1 DEF Analyze, NextNal, KeepRest, SendPacket, SendFails
  <2>2. CASE Deliver
    BY <2>2 DEF Deliver, Receive
  <2>3. CASE Lose \/ Overtake \/ Repeat
    BY <2>3 DEF Lose, Overtake, Repeat
  <2>4. CASE UNCHANGED vars
    BY <2>4 DEF vars
  <2> QED BY <2>1, <2>2, <2>3, <2>4 DEF Next
<1>3. Clean
  BY <1>2 DEF Clean
<1>4. Threaded(nals)
  BY <1>0, <1>3 DEF StreamInv, ThreadInv
<1>5. PICK k, t, u : HandedOver(nals, k, t) /\ Left(nals, k, u, sending) /\ PathInv(nals, u)
  BY <1>4 DEF Threaded
<1>6. Feed(nals) \in Seq(Byte)
  BY <1>1, FeedType
<1>7. ASSUME UNCHANGED <<todo, pending, search>> PROVE HandedOver(nals, k, t)'
  BY <1>5, <1>7 DEF HandedOver
<1>8. CASE Analyze
  <2>1. /\ "cut" \notin happened'
        /\ "blind" \in happened <=> "blind" \in happened'
        /\ UNCHANGED <<sending, seqno, net, last_seq_no, fed, alarm, trouble>>
    <3>1. "cut" \notin happened'
      BY DEF Clean
    <3> QED BY <1>8, <3>1 DEF Analyze, receiver
  <2>2. \E s : HandedOver(nals, k, s)'
    BY <1>1, <1>5, <1>8, <2>1, AnalyzeHands
  <2>3. Left(nals, k, u, sending')
    BY <1>5, <2>1
  <2>4. PathInv(nals, u)'
    BY <1>5, <2>1, QuietPath
  <2>5. Threaded(nals)'
    BY <2>2, <2>3, <2>4 DEF Threaded
  <2> QED BY <1>0, <1>2, <2>5
<1>9. CASE NextNal
  <2>1. Threaded(nals)'
    BY <1>1, <1>4, <1>9, NextThread
  <2> QED BY <1>0, <1>2, <2>1
<1>10. CASE KeepRest
  <2>1. UNCHANGED <<sending, seqno, net, last_seq_no, fed, alarm, trouble, happened>>
    BY <1>10 DEF KeepRest, receiver
  <2>2. HandedOver(nals, k, t)'
    BY <1>1, <1>5, <1>10, KeepHands
  <2>3. Left(nals, k, u, sending')
    BY <1>5, <2>1
  <2>4. PathInv(nals, u)'
    BY <1>5, <2>1, QuietPath
  <2>5. Threaded(nals)'
    BY <2>2, <2>3, <2>4 DEF Threaded
  <2> QED BY <1>0, <1>2, <2>5
<1>11. CASE SendPacket
  <2>1. Threaded(nals)'
    BY <1>1, <1>4, <1>11, SendThread
  <2> QED BY <1>0, <1>2, <2>1
<1>12. CASE SendFails
  <2>1. ~Clean'
    BY <1>12 DEF SendFails, Clean
  <2> QED BY <2>1
<1>13. CASE Deliver
  <2>1. UNCHANGED <<todo, pending, search, sending>>
    BY <1>13 DEF Deliver, Receive, sender
  <2>2. PathInv(nals, u)'
    BY <1>1, <1>5, <1>6, <1>13, DeliverPath
  <2>3. Left(nals, k, u, sending')
    BY <1>5, <2>1
  <2>4. HandedOver(nals, k, t)'
    BY <1>7, <2>1
  <2>5. Threaded(nals)'
    BY <2>2, <2>3, <2>4 DEF Threaded
  <2> QED BY <1>0, <1>2, <2>5
<1>14. CASE Lose \/ Overtake \/ Repeat
  <2>1. UNCHANGED <<todo, pending, search, sending>>
    BY <1>14 DEF Lose, Overtake, Repeat, sender
  <2>2. PathInv(nals, u)'
    BY <1>1, <1>5, <1>14, TroublePath
  <2>3. Left(nals, k, u, sending')
    BY <1>5, <2>1
  <2>4. HandedOver(nals, k, t)'
    BY <1>7, <2>1
  <2>5. Threaded(nals)'
    BY <2>2, <2>3, <2>4 DEF Threaded
  <2> QED BY <1>0, <1>2, <2>5
<1>15. CASE UNCHANGED vars
  <2>1. UNCHANGED <<todo, pending, search, sending, seqno, net, last_seq_no, fed, alarm, trouble, happened>>
    BY <1>15 DEF vars, sender, receiver
  <2>2. PathInv(nals, u)'
    BY <1>5, <2>1, QuietPath
  <2>3. Left(nals, k, u, sending')
    BY <1>5, <2>1
  <2>4. HandedOver(nals, k, t)'
    BY <1>7, <2>1
  <2>5. Threaded(nals)'
    BY <2>2, <2>3, <2>4 DEF Threaded
  <2> QED BY <1>0, <1>2, <2>5
<1> QED BY <1>8, <1>9, <1>10, <1>11, <1>12, <1>13, <1>14, <1>15 DEF Next

LEMMA StepTrouble == TroubleInv /\ [Next]_vars => TroubleInv'
<1> SUFFICES ASSUME TroubleInv, [Next]_vars PROVE TroubleInv'
  OBVIOUS
<1>1. CASE Lose \/ Overtake \/ Repeat
  BY <1>1 DEF Lose, Overtake, Repeat, TroubleInv
<1>2. CASE ~(Lose \/ Overtake \/ Repeat)
  <2>1. trouble' = trouble /\ happened \subseteq happened'
    BY <1>2 DEF Next, Analyze, NextNal, KeepRest, SendPacket, SendFails, Deliver, Receive,
                vars, sender, receiver
  <2> QED BY <2>1 DEF TroubleInv
<1> QED BY <1>1, <1>2

LEMMA StreamInvInit == Init => StreamInv
<1> SUFFICES ASSUME Init PROVE StreamInv
  OBVIOUS
<1>1. IInv
  BY InitIInv
<1>2. TroubleInv
  BY DEF Init, TroubleInv
<1> QED BY <1>1, <1>2, InitType, InitThread DEF StreamInv

LEMMA StreamInvNext == StreamInv /\ [Next]_vars => StreamInv'
<1> SUFFICES ASSUME StreamInv, [Next]_vars PROVE StreamInv'
  OBVIOUS
<1>1. TypeInv' /\ IInv' /\ TroubleInv'
  BY NextType, NextIInv, StepTrouble DEF StreamInv
<1>2. ThreadInv'
  BY StepThread DEF ThreadInv
<1> QED BY <1>1, <1>2 DEF StreamInv

\* What begins a stream begins it in the library's sense.
LEMMA SlicePrefix ==
  ASSUME NEW c \in Seq(Byte), NEW F \in Seq(Byte), NEW n \in 0 .. Len(F), IsSlice(c, F, 1, n)
  PROVE  IsPrefix(c, F)
<1>1. Len(F) \in Nat /\ n \in Nat /\ n <= Len(F)
  OBVIOUS
<1>2. Len(c) = n
  <2>1. (n - 1) + 1 = n
    BY <1>1
  <2> QED BY <2>1 DEF IsSlice
<1> DEFINE a == SubSeq(c, 1, n)
           b == SubSeq(F, 1, n)
<1>3. a \in Seq(Byte) /\ IsSlice(a, c, 1, n)
  <2>1. 1 \in 1 .. Len(c) + 1 /\ n \in 1 - 1 .. Len(c)
    BY <1>1, <1>2
  <2> QED BY <2>1, SliceIs
<1>4. b \in Seq(Byte) /\ IsSlice(b, F, 1, n)
  <2>1. 1 \in 1 .. Len(F) + 1 /\ n \in 1 - 1 .. Len(F)
    BY <1>1
  <2> QED BY <2>1, SliceIs
<1> HIDE DEF a, b
<1>5. IsSlice(c, c, 1, n)
  <2>1. (n - 1) + 1 = n /\ \A i \in 1 .. n : (1 + i) - 1 = i
    BY <1>1
  <2> QED BY <1>2, <2>1 DEF IsSlice
<1>6. a = c
  BY <1>3, <1>5, SliceSame
<1>7. b = c
  BY <1>4, SliceSame
<1>8. a = b /\ Len(c) <= Len(F)
  BY <1>1, <1>2, <1>6, <1>7
<1> QED BY <1>2, <1>8 DEF IsPrefix, a, b

\* Where nothing was noticed, and nothing slipped through, the decoder was fed
\* the beginning of what it should be.
LEMMA SilentPrefix ==
  ASSUME StreamInv, Clean, Silent
  PROVE  IsPrefix(fed, Feed(world.stream))
<1> DEFINE nals == world.stream
<1>1. GoodStream(nals) /\ fed \in Seq(Byte)
  BY WorldGood DEF StreamInv, TypeInv
<1>2. Feed(nals) \in Seq(Byte)
  BY <1>1, FeedType
<1>3. Threaded(nals)
  BY DEF StreamInv, ThreadInv
<1> HIDE DEF nals
<1>4. PICK u : PathInv(nals, u)
  BY <1>3 DEF Threaded
<1>5. PICK m, upto, r, idx : Path(nals, m, upto, u) /\ Followed(nals, m, upto, r, idx)
  BY <1>4 DEF PathInv
<1>6. upto[r] \in 0 .. Len(Feed(nals)) /\ IsSlice(fed, Feed(nals), 1, upto[r])
  BY <1>5 DEF Path, Followed
<1>7. IsPrefix(fed, Feed(nals))
  BY <1>1, <1>2, <1>6, SlicePrefix
<1> QED BY <1>7 DEF nals

LEMMA CalmSilent ==
  ASSUME StreamInv, happened = {}
  PROVE  Clean /\ Silent /\ ~(trouble > 0)
<1>1. ~alarm
  BY DEF StreamInv, IInv, Calm, NumberInv
<1> QED BY <1>1 DEF Clean, Silent, StreamInv, TroubleInv

\* When all is through, all but the last NAL have arrived.
LEMMA AllButLast ==
  ASSUME StreamInv, happened = {}, todo = <<>>, search = 0, sending.data = <<>>, net = <<>>
  PROVE  fed = Feed(Front(world.stream))
<1> DEFINE nals == world.stream
           N == Len(nals)
           B == ByteStream(nals)
           st == Starts(nals)
           len == Lens(nals)
           F == Feed(nals)
<1>1. GoodStream(nals) /\ fed \in Seq(Byte) /\ pending \in Seq(Byte) /\ trouble \in Nat
  <2>1. trouble \in Nat
    BY MaxTroubleAssumption DEF StreamInv, TypeInv
  <2> QED BY <2>1, WorldGood DEF StreamInv, TypeInv
<1>2. Clean /\ Silent /\ ~(trouble > 0)
  BY CalmSilent
<1>3. trouble = 0
  BY <1>1, <1>2
<1>4. Threaded(nals)
  BY <1>2 DEF StreamInv, ThreadInv
<1> HIDE DEF nals
<1>5. PICK k, t, u : HandedOver(nals, k, t) /\ Left(nals, k, u, sending) /\ PathInv(nals, u)
  BY <1>4 DEF Threaded
<1>6. PICK m, upto, r, idx : Path(nals, m, upto, u) /\ Followed(nals, m, upto, r, idx)
  BY <1>2, <1>5 DEF PathInv
<1>7. r = m
  <2>1. Len(net) = 0
    BY EmptySeq
  <2>2. m \in Nat /\ r \in 0 .. m /\ Near(m, r + Len(net), trouble)
    BY <1>6 DEF Path, Followed
  <2> QED BY <1>3, <2>1, <2>2 DEF Near
<1>8. IsSlice(fed, F, 1, Ends(nals)[k])
  <2>1. upto[m] = u /\ u = Ends(nals)[k] /\ IsSlice(fed, F, 1, upto[r])
    BY <1>5, <1>6 DEF Path, Left, Followed
  <2> QED BY <1>7, <2>1
<1>9. StreamFacts(nals, B, len, st)
  BY <1>1, StreamIs
<1>10. Len(B) \in Nat /\ N \in Nat
  BY <1>9 DEF StreamFacts
<1> HIDE DEF B, st, len
<1>11. /\ k \in 0 .. N /\ t \in 0 .. Len(B) /\ IsSlice(todo, B, t + 1, Len(B))
       /\ pending = <<>> => k = 0 /\ t = 0
       /\ pending # <<>> => k < N /\ st[k + 1] < t /\ IsSlice(pending, B, st[k + 1] + 1, t)
       /\ Scanned(pending, 0)
  BY <1>5 DEF HandedOver, B, st
<1>12. t = Len(B)
  <2>1. todo \in Seq(Byte) /\ Len(todo) = 0
    BY EmptySeq
  <2>2. t \in Nat /\ t <= Len(B)
    BY <1>10, <1>11
  <2>3. IsSlice(todo, B, t + 1, Len(B))
    BY <1>11
  <2>4. Len(todo) = Len(B) - t
    BY ONLY <1>10, <2>1, <2>2, <2>3, SliceMark
  <2> QED BY <1>10, <2>1, <2>2, <2>4
<1>13. CASE N = 0
  <2>1. nals = <<>> /\ k = 0
    <3>1. nals \in Seq(Seq(Byte))
      BY <1>1 DEF GoodStream
    <3> QED BY <1>11, <1>13, <3>1, EmptySeq
  <2>2. Front(nals) = nals
    <3>1. Front(nals) = SubSeq(nals, 1, Len(nals) - 1)
      BY DEF Front
    <3>2. Len(nals) - 1 = 0 - 1
      BY <1>13
    <3>3. SubSeq(<<>>, 1, 0 - 1) = <<>>
      OBVIOUS
    <3> QED BY <2>1, <3>1, <3>2, <3>3
  <2>3. Len(F) = 0 /\ F \in Seq(Byte) /\ Ends(nals)[0] = 0
    <3>1. FeedFacts(nals, F, Lens(nals), Ends(nals))
      BY <1>1, FeedIs
    <3> QED BY <1>13, <3>1 DEF FeedFacts
  <2>4. IsSlice(F, F, 1, 0)
    <3>1. (0 - 1) + 1 = 0 /\ \A i \in 1 .. 0 : FALSE
      OBVIOUS
    <3> QED BY Zenon, <2>3, <3>1 DEF IsSlice
  <2>5. IsSlice(fed, F, 1, 0)
    BY <1>8, <2>1, <2>3
  <2>6. fed = F
    BY <1>1, <2>3, <2>4, <2>5, SliceSame
  <2> QED BY <2>2, <2>6 DEF nals
<1>14. CASE N # 0
  <2>1. nals # <<>> /\ N > 0
    BY <1>10, <1>14, EmptySeq
  <2>2. /\ st[N] + len[N] = Len(B) /\ N \in 1 .. N
        /\ \A i \in 1 .. N : st[i] \in Nat /\ len[i] \in Nat /\ len[i] > 0 /\ Mark(B, st[i] - 2)
        /\ \A i \in 1 .. N : st[i] + len[i] <= Len(B)
        /\ \A i \in 1 .. N, j \in 1 .. N : i < j => st[i] + len[i] + 3 <= st[j]
    BY <1>9, <1>10, <2>1 DEF StreamFacts
  <2>3. pending # <<>>
    <3>1. SUFFICES ASSUME pending = <<>> PROVE FALSE
      OBVIOUS
    <3>2. Len(B) = 0
      BY <1>11, <1>12, <3>1
    <3>3. st[N] \in Nat /\ len[N] \in Nat /\ len[N] > 0 /\ st[N] + len[N] = 0
      BY <2>2, <3>2
    <3> QED BY <3>3
  <2>4. k \in Nat /\ k < N /\ k + 1 \in 1 .. N
    BY <1>10, <1>11, <2>3
  <2> DEFINE a == st[k + 1]
  <2>5. a \in Nat /\ a <= t /\ t \in Nat /\ IsSlice(pending, B, a + 1, t)
    <3>1. a \in Nat /\ a < t /\ IsSlice(pending, B, a + 1, t)
      BY <1>11, <2>2, <2>3, <2>4
    <3> HIDE DEF a
    <3>2. t \in Nat
      BY <1>10, <1>12
    <3>3. a <= t
      BY <3>1, <3>2
    <3> QED BY <3>1, <3>2, <3>3
  <2>6. Len(pending) = t - a /\ \A i \in 1 .. Len(pending) - 2 : Mark(pending, i) <=> Mark(B, a + i)
    <3> HIDE DEF a
    <3>1. Len(pending) = t - a
      BY ONLY <1>1, <2>5, SliceMark
    <3>2. \A i \in 1 .. Len(pending) - 2 : Mark(pending, i) <=> Mark(B, a + i)
      BY ONLY <1>1, <2>5, SliceMark
    <3> QED BY <3>1, <3>2
  \* A code behind this NAL would have been found.
  <2>7. k + 1 = N
    <3>1. SUFFICES ASSUME k + 1 # N PROVE FALSE
      OBVIOUS
    <3>2. k + 2 \in 1 .. N /\ k + 1 < k + 2
      BY <1>10, <2>4, <3>1
    <3> DEFINE b == st[k + 2]
               x == len[k + 1]
               y == len[k + 2]
    <3>3. /\ b \in Nat /\ x \in Nat /\ x > 0 /\ y \in Nat /\ y > 0
          /\ a + x + 3 <= b /\ b + y <= t /\ Mark(B, b - 2)
      BY <1>12, <2>2, <2>4, <3>2
    <3> DEFINE i == (b - 2) - a
    <3> HIDE DEF a, b, x, y
    <3>4. i \in 1 .. (t - a) - 2 /\ a + i = b - 2
      BY <2>5, <3>3
    <3>5. i \in 1 .. Len(pending) - 2
      BY <2>6, <3>4
    <3> HIDE DEF i
    <3>6. Mark(B, a + i)
      BY Zenon, <3>3, <3>4
    <3>7. Mark(pending, i)
      BY <2>6, <3>5, <3>6
    <3> QED BY Zenon, <1>11, <3>5, <3>7 DEF Scanned
  <2>8. k = N - 1
    BY <2>4, <2>7
  <2>9. Feed(Front(nals)) \in Seq(Byte) /\ IsSlice(Feed(Front(nals)), F, 1, Ends(nals)[N - 1])
    BY <1>1, <2>1, FeedFront
  <2>10. fed = Feed(Front(nals))
    BY <1>1, <1>8, <2>8, <2>9, SliceSame
  <2> QED BY <2>10 DEF nals
<1> QED BY <1>13, <1>14

LEMMA StreamAlways == Spec => []StreamInv
BY StreamInvInit, StreamInvNext, PTL DEF Spec

\* When nothing goes wrong the decoder is fed the NALs of the stream in order and
\* whole, each after a start code: for every stream, every way it is handed over
\* in buffers, every number of bytes in a packet.
THEOREM FedInOrder == Spec => []Faithful
<1>1. StreamInv => Faithful
  BY CalmSilent, SilentPrefix DEF Faithful
<1> QED BY <1>1, StreamAlways, PTL

\* When all is through, the last NAL of the stream is the only one held back.
THEOREM OnlyTheLastWaits == Spec => []LastHeldBack
<1>1. StreamInv => LastHeldBack
  BY AllButLast DEF LastHeldBack
<1> QED BY <1>1, StreamAlways, PTL

\* What the network does to the stream is noticed before the decoder is fed
\* anything else, as long as it does less than there are numbers; a packet 0 out
\* of turn is the exception.
THEOREM TroubleIsNoticed == Spec => []Noticed
<1>1. StreamInv => Noticed
  <2> SUFFICES ASSUME StreamInv, happened \subseteq {"loss", "reorder", "dup"}, ~alarm
               PROVE  IsPrefix(fed, Feed(world.stream))
    BY DEF Noticed
  <2>1. Clean /\ Silent
    BY DEF Clean, Silent
  <2> QED BY <2>1, SilentPrefix
<1> QED BY <1>1, StreamAlways, PTL
=============================================================================
