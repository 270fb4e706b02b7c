-------------------------- MODULE RemoteCodecProofs --------------------------
(***************************************************************************)
(* Spelling and reading undo each other: of a text and of a number, of a   *)
(* line and of its tokens, of a message and of its line.  And a Wi-Fi code *)
(* is read byte after byte as it is read as a whole.                       *)
(***************************************************************************)
EXTENDS RemoteCodec, RemoteNdef, FiniteSetTheorems, SequenceTheorems, WellFoundedInduction, TLAPS

-----------------------------------------------------------------------------
(* Induction.  The library's principles take a formula as a parameter; the *)
(* same can be said of sets, because the naturals are well-founded.        *)

LEMMA EveryNaturalIsReached ==
  ASSUME NEW S \in SUBSET Nat, 0 \in S, \A n \in S : n + 1 \in S
  PROVE  S = Nat
<1> SUFFICES ASSUME Nat \ S # {} PROVE FALSE
  OBVIOUS
<1> DEFINE Less == {ss \in Nat \X Nat : ss[1] < ss[2]}
<1>1. IsWellFoundedOn(Less, Nat)
  BY NatLessThanWellFounded DEF OpToRel
<1>2. PICK n \in Nat \ S : \A k \in Nat \ S : ~(<<k, n>> \in Less)
  <2> HIDE DEF Less
  <2> QED
    BY <1>1, WFMin
<1>3. n \in Nat \ {0} /\ n - 1 \in Nat
  OBVIOUS
<1>4. n - 1 \notin S
  <2>1. (n - 1) + 1 = n
    BY <1>3
  <2> QED
    BY <2>1
<1>5. <<n - 1, n>> \in Less
  BY <1>3
<1> QED
  BY <1>2, <1>3, <1>4, <1>5

(* A set with the empty sequence, closed under Append, has every sequence. *)
LEMMA EverySequenceIsReached ==
  ASSUME NEW S, NEW T \in SUBSET Seq(S), <<>> \in T,
         \A s \in T : \A e \in S : Append(s, e) \in T
  PROVE  T = Seq(S)
<1> DEFINE Reached == {n \in Nat : \A s \in Seq(S) : Len(s) = n => s \in T}
<1>1. 0 \in Reached
  BY EmptySeq
<1>2. ASSUME NEW n \in Reached, NEW s \in Seq(S), Len(s) = n + 1 PROVE s \in T
  <2>1. n \in Nat /\ \A t \in Seq(S) : Len(t) = n => t \in T
    OBVIOUS
  <2>2. s # <<>>
    BY <1>2, <2>1, EmptySeq
  <2>3. PICK t \in Seq(S), e \in S : s = Append(t, e)
    BY <2>2, SequenceEmptyOrAppend
  <2>4. Len(s) = Len(t) + 1 /\ Len(t) \in Nat
    BY <2>3, AppendProperties, LenProperties
  <2>5. Len(t) = n
    BY <1>2, <2>1, <2>4
  <2>6. t \in T
    BY <2>1, <2>3, <2>5
  <2> QED
    BY <2>3, <2>6
<1>3. ASSUME NEW n \in Reached PROVE n + 1 \in Reached
  <2>1. n + 1 \in Nat
    OBVIOUS
  <2> QED
    BY <1>2, <2>1
<1>4. Reached = Nat
  <2> HIDE DEF Reached
  <2>1. Reached \in SUBSET Nat
    BY DEF Reached
  <2> QED
    BY <1>1, <1>3, <2>1, EveryNaturalIsReached
<1> QED
  BY <1>4, LenProperties

(* The functions on 0 .. N each value of which is made from the one before. *)
Made(S, c, N, step) ==
  {g \in [0 .. N -> S] : g[0] = c /\ \A n \in 1 .. N : g[n] = step[<<g[n - 1], n>>]}

(* There is one.                                                           *)
LEMMA RecursionIsDefined ==
  ASSUME NEW S, NEW c \in S, NEW N \in Nat, NEW step \in [S \X (1 .. N) -> S]
  PROVE  Made(S, c, N, step) # {}
<1> DEFINE Upto(k) == \E g \in [0 .. k -> S] :
             g[0] = c /\ \A i \in 1 .. k : g[i] = step[<<g[i - 1], i>>]
           Reached == {k \in Nat : k <= N => Upto(k)}
<1>1. 0 \in Reached
  <2> DEFINE g == [i \in 0 .. 0 |-> c]
  <2>1. g \in [0 .. 0 -> S] /\ g[0] = c /\ \A i \in 1 .. 0 : g[i] = step[<<g[i - 1], i>>]
    OBVIOUS
  <2> QED
    BY <2>1
<1>2. ASSUME NEW k \in Reached, k + 1 <= N PROVE Upto(k + 1)
  <2>1. k \in Nat /\ k <= N /\ k + 1 \in 1 .. N
    BY <1>2
  <2>2. PICK g \in [0 .. k -> S] : g[0] = c /\ \A i \in 1 .. k : g[i] = step[<<g[i - 1], i>>]
    BY <2>1
  <2> DEFINE h == [i \in 0 .. k + 1 |-> IF i <= k THEN g[i] ELSE step[<<g[k], k + 1>>]]
  <2>3. g[k] \in S
    BY <2>1
  <2>4. step[<<g[k], k + 1>>] \in S
    BY <2>1, <2>3
  <2>5. h \in [0 .. k + 1 -> S]
    BY <2>1, <2>4
  <2>6. h[0] = c
    BY <2>1, <2>2
  <2>7. ASSUME NEW i \in 1 .. k + 1 PROVE h[i] = step[<<h[i - 1], i>>]
    <3>1. CASE i <= k
      <4>1. i \in 1 .. k /\ i - 1 \in 0 .. k + 1 /\ i - 1 <= k /\ i \in 0 .. k + 1
        BY <2>1, <3>1
      <4> QED
        BY <2>2, <3>1, <4>1
    <3>2. CASE ~(i <= k)
      <4>1. i = k + 1 /\ i - 1 = k /\ k \in 0 .. k + 1 /\ k <= k /\ i \in 0 .. k + 1
        BY <2>1, <3>2
      <4> QED
        BY <3>2, <4>1
    <3> QED
      BY <3>1, <3>2
  <2> HIDE DEF h
  <2> QED
    BY <2>5, <2>6, <2>7
<1>3. \A k \in Reached : k + 1 \in Reached
  BY <1>2
<1>4. N \in Reached
  <2> HIDE DEF Reached
  <2>1. Reached \in SUBSET Nat
    BY DEF Reached
  <2> QED
    BY <1>1, <1>3, <2>1, EveryNaturalIsReached
<1> QED
  BY <1>4 DEF Made

(* Two such functions agree as far as what they are made from does.        *)
LEMMA RecursionIsUnique ==
  ASSUME NEW M \in Nat, NEW g, NEW h, g[0] = h[0],
         \A n \in 1 .. M : g[n - 1] = h[n - 1] => g[n] = h[n]
  PROVE  g[M] = h[M]
<1> DEFINE Reached == {n \in Nat : n <= M => g[n] = h[n]}
<1>1. 0 \in Reached
  OBVIOUS
<1>2. ASSUME NEW n \in Reached PROVE n + 1 \in Reached
  <2> SUFFICES ASSUME n + 1 <= M PROVE g[n + 1] = h[n + 1]
    OBVIOUS
  <2>1. n + 1 \in 1 .. M /\ (n + 1) - 1 = n /\ n <= M
    OBVIOUS
  <2> QED
    BY <2>1
<1>3. M \in Reached
  <2> HIDE DEF Reached
  <2>1. Reached \in SUBSET Nat
    BY DEF Reached
  <2> QED
    BY <1>1, <1>2, <2>1, EveryNaturalIsReached
<1> QED
  BY <1>3

-----------------------------------------------------------------------------
(* Scans.  One by a function is what its equation says of it.              *)
Scan(take, start, raw) ==
  LET after[i \in 0 .. Len(raw)] == IF i = 0 THEN start ELSE take[<<after[i - 1], raw[i]>>]
  IN  after[Len(raw)]

(* A sequence of states is one.                                            *)
Run(take, start, raw) ==
  CHOOSE after : after =
    [i \in 0 .. Len(raw) |-> IF i = 0 THEN start ELSE take[<<after[i - 1], raw[i]>>]]

LEMMA ScanIsRun ==
  ASSUME NEW take, NEW start, NEW raw
  PROVE  Scan(take, start, raw) = Run(take, start, raw)[Len(raw)]
BY DEF Scan, Run

IsARun(S, take, start, raw, after) ==
  /\ after \in [0 .. Len(raw) -> S] /\ after[0] = start
  /\ \A n \in 1 .. Len(raw) : after[n] = take[<<after[n - 1], raw[n]>>]

LEMMA RunIs ==
  ASSUME NEW S, NEW C, NEW take \in [S \X C -> S], NEW start \in S, NEW raw \in Seq(C)
  PROVE  IsARun(S, take, start, raw, Run(take, start, raw))
<1> DEFINE N == Len(raw)
           step == [x \in S \X (1 .. N) |-> take[<<x[1], raw[x[2]]>>]]
<1>1. N \in Nat /\ \A n \in 1 .. N : raw[n] \in C
  BY LenProperties, ElementOfSeq
<1>2. step \in [S \X (1 .. N) -> S]
  BY <1>1
<1>3. \A s \in S, n \in 1 .. N : step[<<s, n>>] = take[<<s, raw[n]>>]
  OBVIOUS
<1> HIDE DEF N, step
<1>4. Made(S, start, N, step) # {}
  BY <1>1, <1>2, RecursionIsDefined
<1>5. PICK g \in [0 .. N -> S] :
        g[0] = start /\ \A n \in 1 .. N : g[n] = step[<<g[n - 1], n>>]
  BY <1>4 DEF Made
<1>6. \A n \in 1 .. N : g[n] = take[<<g[n - 1], raw[n]>>]
  <2> TAKE n \in 1 .. N
  <2>1. n - 1 \in 0 .. N
    BY <1>1
  <2>2. g[n - 1] \in S
    BY <2>1
  <2> QED
    BY <1>3, <1>5, <2>2
<1> DEFINE eq(after) == [i \in 0 .. N |-> IF i = 0 THEN start ELSE take[<<after[i - 1], raw[i]>>]]
<1>7. g = eq(g)
  <2>1. \A i \in 0 .. N : g[i] = IF i = 0 THEN start ELSE take[<<g[i - 1], raw[i]>>]
    BY <1>1, <1>5, <1>6
  <2>2. g = [i \in 0 .. N |-> g[i]]
    OBVIOUS
  <2> QED
    BY <2>1, <2>2
<1>8. Run(take, start, raw) = eq(Run(take, start, raw))
  <2>1. Run(take, start, raw) = CHOOSE after : after = eq(after)
    BY DEF Run, N
  <2> HIDE DEF eq
  <2> QED
    BY <1>7, <2>1
<1> DEFINE f == Run(take, start, raw)
<1>9. f = eq(f)
  BY <1>8
<1> HIDE DEF f
<1>10. f[0] = start /\ \A n \in 1 .. N : f[n] = take[<<f[n - 1], raw[n]>>]
  BY <1>1, <1>9
<1>11. \A m \in 0 .. N : f[m] = g[m]
  <2> TAKE m \in 0 .. N
  <2>1. m \in Nat /\ f[0] = g[0]
    BY <1>1, <1>5, <1>10
  <2>2. \A n \in 1 .. m : f[n - 1] = g[n - 1] => f[n] = g[n]
    <3> TAKE n \in 1 .. m
    <3>1. n \in 1 .. N
      BY <1>1
    <3> QED
      BY <1>6, <1>10, <3>1
  <2> HIDE DEF eq
  <2> QED
    BY <2>1, <2>2, RecursionIsUnique
<1>12. f \in [0 .. N -> S]
  <2>1. \A m \in 0 .. N : f[m] \in S
    BY <1>11
  <2>2. f = [m \in 0 .. N |-> f[m]]
    BY <1>9
  <2> QED
    BY <2>1, <2>2
<1> QED
  BY <1>10, <1>12 DEF f, N, IsARun

(* What a scan makes of nothing, and of one byte more.                     *)
Takes(S, C) == [S \X C -> S]

Stepwise(S, C, take, start) ==
  /\ Scan(take, start, <<>>) = start
  /\ \A s \in Seq(C) : Scan(take, start, s) \in S
  /\ \A s \in Seq(C), c \in C :
       Scan(take, start, Append(s, c)) = take[<<Scan(take, start, s), c>>]

LEMMA ScanIsStepwise ==
  ASSUME NEW S, NEW C, NEW take \in Takes(S, C), NEW start \in S
  PROVE  Stepwise(S, C, take, start)
<1> USE DEF Takes
<1>0. ASSUME NEW s \in Seq(C)
      PROVE  /\ Run(take, start, s)[0] = start
             /\ \A n \in 1 .. Len(s) :
                  Run(take, start, s)[n] = take[<<Run(take, start, s)[n - 1], s[n]>>]
  <2>1. IsARun(S, take, start, s, Run(take, start, s))
    BY RunIs
  <2> QED
    BY <2>1 DEF IsARun
<1>1. Scan(take, start, <<>>) = start
  <2>1. <<>> \in Seq(C) /\ Len(<<>>) = 0
    OBVIOUS
  <2>2. Run(take, start, <<>>)[0] = start
    BY <1>0, <2>1
  <2> QED
    BY <2>1, <2>2, ScanIsRun
<1>2. ASSUME NEW s \in Seq(C) PROVE Scan(take, start, s) \in S
  <2>1. Run(take, start, s) \in [0 .. Len(s) -> S]
    BY RunIs DEF IsARun
  <2>2. Len(s) \in 0 .. Len(s)
    BY LenProperties
  <2> QED
    BY <2>1, <2>2, ScanIsRun
<1>3. ASSUME NEW s \in Seq(C), NEW c \in C
      PROVE  Scan(take, start, Append(s, c)) = take[<<Scan(take, start, s), c>>]
  <2> DEFINE t == Append(s, c)
             f == Run(take, start, s)
             g == Run(take, start, t)
  <2>1. /\ t \in Seq(C) /\ Len(t) = Len(s) + 1 /\ Len(s) \in Nat
        /\ \A i \in 1 .. Len(s) : t[i] = s[i]
        /\ t[Len(s) + 1] = c
    BY AppendProperties, LenProperties
  <2>2. f[0] = start /\ \A n \in 1 .. Len(s) : f[n] = take[<<f[n - 1], s[n]>>]
    BY <1>0
  <2> HIDE DEF t
  <2>3. g[0] = start /\ \A n \in 1 .. Len(t) : g[n] = take[<<g[n - 1], t[n]>>]
    BY <1>0, <2>1
  <2> HIDE DEF f, g
  <2>4. f[Len(s)] = g[Len(s)]
    <3>1. \A n \in 1 .. Len(s) : f[n - 1] = g[n - 1] => f[n] = g[n]
      <4> TAKE n \in 1 .. Len(s)
      <4>1. n \in 1 .. Len(t)
        BY <2>1
      <4> QED
        BY <2>1, <2>2, <2>3, <4>1
    <3>2. f[0] = g[0]
      BY <2>2, <2>3
    <3> QED
      BY <2>1, <3>1, <3>2, RecursionIsUnique
  <2>5. Len(t) \in 1 .. Len(t) /\ Len(t) - 1 = Len(s)
    BY <2>1
  <2>6. g[Len(t)] = take[<<g[Len(t) - 1], t[Len(t)]>>]
    BY <2>3, <2>5
  <2>7. Scan(take, start, t) = g[Len(t)] /\ Scan(take, start, s) = f[Len(s)]
    BY ScanIsRun DEF f, g
  <2> QED
    BY <2>1, <2>4, <2>5, <2>6, <2>7 DEF t
<1> QED
  BY <1>1, <1>2, <1>3 DEF Stepwise

LEMMA ScanOfAJoin ==
  ASSUME NEW S, NEW C, NEW take \in Takes(S, C), NEW start \in S,
         NEW s \in Seq(C), NEW t \in Seq(C)
  PROVE  Scan(take, start, s \o t) = Scan(take, Scan(take, start, s), t)
<1> DEFINE T == {u \in Seq(C) : Scan(take, start, s \o u) = Scan(take, Scan(take, start, s), u)}
<1>0. Stepwise(S, C, take, start)
  BY ScanIsStepwise
<1>1. Scan(take, start, s) \in S
  BY <1>0 DEF Stepwise
<1>5. Stepwise(S, C, take, Scan(take, start, s))
  BY <1>1, ScanIsStepwise
<1>2. <<>> \in T
  <2>1. s \o <<>> = s /\ <<>> \in Seq(C)
    BY ConcatEmptySeq
  <2>2. Scan(take, Scan(take, start, s), <<>>) = Scan(take, start, s)
    BY <1>5 DEF Stepwise
  <2> QED
    BY <2>1, <2>2
<1>3. ASSUME NEW u \in T, NEW c \in C PROVE Append(u, c) \in T
  <2>1. u \in Seq(C) /\ Scan(take, start, s \o u) = Scan(take, Scan(take, start, s), u)
    OBVIOUS
  <2>2. s \o u \in Seq(C) /\ Append(u, c) \in Seq(C)
    BY <2>1, ConcatProperties, AppendProperties
  <2>3. s \o Append(u, c) = Append(s \o u, c)
    <3>1. Append(u, c) = u \o <<c>> /\ Append(s \o u, c) = (s \o u) \o <<c>>
      BY <2>1, <2>2, AppendIsConcat
    <3>2. <<c>> \in Seq(C)
      OBVIOUS
    <3>3. (s \o u) \o <<c>> = s \o (u \o <<c>>)
      BY <2>1, <3>2, ConcatAssociative
    <3> QED
      BY <3>1, <3>3
  <2>4. Scan(take, start, Append(s \o u, c)) = take[<<Scan(take, start, s \o u), c>>]
    BY <1>0, <2>2 DEF Stepwise
  <2>5. Scan(take, Scan(take, start, s), Append(u, c))
          = take[<<Scan(take, Scan(take, start, s), u), c>>]
    BY <1>5, <2>1 DEF Stepwise
  <2> QED
    BY <2>1, <2>2, <2>3, <2>4, <2>5
<1>4. T = Seq(C)
  <2>1. T \in SUBSET Seq(C)
    OBVIOUS
  <2> HIDE DEF T
  <2> QED
    BY <1>2, <1>3, <2>1, EverySequenceIsReached
<1> QED
  BY <1>4

-----------------------------------------------------------------------------
(* Short sequences, and joins.                                             *)
LEMMA SingletonIsASeq == ASSUME NEW S, NEW s \in S PROVE <<s>> \in Seq(S)
  OBVIOUS

(* Joins of short sequences.                                               *)
LEMMA JoinOfOnes == ASSUME NEW s, NEW t PROVE <<s>> \o <<t>> = <<s, t>>
<1> DEFINE S == {s, t}
           joined == <<s>> \o <<t>>
<1>1. <<s>> \in Seq(S) /\ <<t>> \in Seq(S) /\ <<s, t>> \in Seq(S)
  OBVIOUS
<1> HIDE DEF S
<1>2. /\ joined \in Seq(S) /\ Len(joined) = Len(<<s>>) + Len(<<t>>)
      /\ \A k \in 1 .. Len(<<s>>) + Len(<<t>>) :
           joined[k] = IF k <= Len(<<s>>) THEN <<s>>[k] ELSE <<t>>[k - Len(<<s>>)]
  BY <1>1, ConcatProperties
<1> HIDE DEF joined
<1>3. Len(<<s>>) = 1 /\ Len(<<t>>) = 1 /\ Len(<<s, t>>) = 2
  OBVIOUS
<1>4. Len(joined) = 2 /\ joined[1] = s /\ joined[2] = t
  BY <1>2, <1>3
<1>5. \A k \in 1 .. 2 : joined[k] = <<s, t>>[k]
  BY <1>4
<1> QED
  BY <1>1, <1>2, <1>3, <1>4, <1>5, SeqEqual DEF joined

LEMMA JoinOfThree == ASSUME NEW s, NEW t, NEW u PROVE <<s, t>> \o <<u>> = <<s, t, u>>
<1> DEFINE S == {s, t, u}
           joined == <<s, t>> \o <<u>>
<1>1. <<s, t>> \in Seq(S) /\ <<u>> \in Seq(S) /\ <<s, t, u>> \in Seq(S)
  OBVIOUS
<1> HIDE DEF S
<1>2. /\ joined \in Seq(S) /\ Len(joined) = Len(<<s, t>>) + Len(<<u>>)
      /\ \A k \in 1 .. Len(<<s, t>>) + Len(<<u>>) :
           joined[k] = IF k <= Len(<<s, t>>) THEN <<s, t>>[k] ELSE <<u>>[k - Len(<<s, t>>)]
  BY <1>1, ConcatProperties
<1> HIDE DEF joined
<1>3. Len(<<s, t>>) = 2 /\ Len(<<u>>) = 1 /\ Len(<<s, t, u>>) = 3
  OBVIOUS
<1>4. Len(joined) = 3 /\ joined[1] = s /\ joined[2] = t /\ joined[3] = u
  BY <1>2, <1>3
<1>5. \A k \in 1 .. 3 : joined[k] = <<s, t, u>>[k]
  BY <1>4
<1> QED
  BY <1>1, <1>2, <1>3, <1>4, <1>5, SeqEqual DEF joined

LEMMA ShortAppends ==
  ASSUME NEW s, NEW t, NEW u
  PROVE  Append(<<s>>, t) = <<s, t>> /\ Append(<<s, t>>, u) = <<s, t, u>>
<1> DEFINE S == {s, t, u}
<1>1. <<s>> \in Seq(S) /\ <<s, t>> \in Seq(S) /\ t \in S /\ u \in S
  OBVIOUS
<1> HIDE DEF S
<1>2. Append(<<s>>, t) = <<s>> \o <<t>>
  BY <1>1, AppendIsConcat
<1>3. Append(<<s, t>>, u) = <<s, t>> \o <<u>>
  BY <1>1, AppendIsConcat
<1> QED
  BY <1>2, <1>3, JoinOfOnes, JoinOfThree

(* Where the elements of two sequences stand when they are joined.         *)
LEMMA ElementsOfAJoin ==
  ASSUME NEW S, NEW s \in Seq(S), NEW t \in Seq(S)
  PROVE  /\ s \o t \in Seq(S)
         /\ \A k \in DOMAIN s : k \in DOMAIN (s \o t) /\ (s \o t)[k] = s[k]
         /\ \A k \in DOMAIN t : Len(s) + k \in DOMAIN (s \o t) /\ (s \o t)[Len(s) + k] = t[k]
         /\ \A k \in DOMAIN (s \o t) :
              \/ k \in DOMAIN s /\ (s \o t)[k] = s[k]
              \/ k - Len(s) \in DOMAIN t /\ (s \o t)[k] = t[k - Len(s)]
<1> DEFINE u == s \o t
<1>1. /\ u \in Seq(S) /\ Len(u) = Len(s) + Len(t)
      /\ \A k \in 1 .. Len(s) + Len(t) : u[k] = IF k <= Len(s) THEN s[k] ELSE t[k - Len(s)]
  BY ConcatProperties
<1>2. /\ DOMAIN u = 1 .. Len(u) /\ DOMAIN s = 1 .. Len(s) /\ DOMAIN t = 1 .. Len(t)
      /\ Len(s) \in Nat /\ Len(t) \in Nat
  BY <1>1, LenProperties
<1> HIDE DEF u
<1>3. \A k \in DOMAIN s : k \in DOMAIN u /\ u[k] = s[k]
  BY <1>1, <1>2
<1>4. ASSUME NEW k \in DOMAIN t PROVE Len(s) + k \in DOMAIN u /\ u[Len(s) + k] = t[k]
  <2>1. k \in 1 .. Len(t) /\ Len(s) + k \in 1 .. Len(s) + Len(t) /\ ~(Len(s) + k <= Len(s))
        /\ (Len(s) + k) - Len(s) = k
    BY <1>2
  <2> QED
    BY <1>1, <1>2, <2>1
<1>5. ASSUME NEW k \in DOMAIN u
      PROVE  \/ k \in DOMAIN s /\ u[k] = s[k]
             \/ k - Len(s) \in DOMAIN t /\ u[k] = t[k - Len(s)]
  <2>1. k \in 1 .. Len(s) + Len(t)
    BY <1>1, <1>2
  <2>2. k <= Len(s) => k \in 1 .. Len(s)
    BY <2>1
  <2>3. ~(k <= Len(s)) => k - Len(s) \in 1 .. Len(t)
    BY <1>2, <2>1
  <2> QED
    BY <1>1, <1>2, <2>1, <2>2, <2>3
<1> QED
  BY <1>1, <1>3, <1>4, <1>5 DEF u

-----------------------------------------------------------------------------
(* The names, and the width of a line.                                     *)
Symbol == 0 .. 255 + Len(Names)

FirstNames ==
  <<"HELLO", "BUTTON", "STATE", "DISPLAY", "version", "peripheral", "locked", "event",
    "foregrounded", "unlocked", "status", "page", "payload", "delivered", "error">>

LEMMA PartsOfTheNames ==
  /\ EventValues \in Seq(ToSet(EventValues)) /\ Len(EventValues) = 4
  /\ StatusValues \in Seq(ToSet(StatusValues)) /\ Len(StatusValues) = 5
  /\ PageValues \in Seq(ToSet(PageValues)) /\ Len(PageValues) = 3
  /\ ErrorValues \in Seq(ToSet(ErrorValues)) /\ Len(ErrorValues) = 17
  /\ FirstNames \in Seq(ToSet(FirstNames)) /\ Len(FirstNames) = 15
<1>1. EventValues \in Seq(ToSet(EventValues)) /\ Len(EventValues) = 4
  BY DEF EventValues, ToSet
<1>2. StatusValues \in Seq(ToSet(StatusValues)) /\ Len(StatusValues) = 5
  BY DEF StatusValues, ToSet
<1>3. PageValues \in Seq(ToSet(PageValues)) /\ Len(PageValues) = 3
  BY DEF PageValues, ToSet
<1>4. ErrorValues \in Seq(ToSet(ErrorValues)) /\ Len(ErrorValues) = 17
  BY DEF ErrorValues, ToSet
<1>5. FirstNames \in Seq(ToSet(FirstNames)) /\ Len(FirstNames) = 15
  BY DEF FirstNames, ToSet
<1> QED
  BY <1>1, <1>2, <1>3, <1>4, <1>5

(* A sequence joined on keeps the elements of both.                        *)
LEMMA JoinHasBoth ==
  ASSUME NEW A, NEW B, NEW s \in Seq(A), NEW t \in Seq(B)
  PROVE  /\ s \o t \in Seq(A \cup B) /\ Len(s \o t) = Len(s) + Len(t)
         /\ \A x \in ToSet(s) \cup ToSet(t) : x \in ToSet(s \o t)
<1>1. s \in Seq(A \cup B) /\ t \in Seq(A \cup B)
  BY SeqMonotonic
<1>2. /\ s \o t \in Seq(A \cup B) /\ Len(s \o t) = Len(s) + Len(t)
      /\ \A i \in 1 .. Len(s) + Len(t) :
           (s \o t)[i] = IF i <= Len(s) THEN s[i] ELSE t[i - Len(s)]
  BY <1>1, ConcatProperties
<1>3. /\ Len(s) \in Nat /\ DOMAIN s = 1 .. Len(s) /\ Len(t) \in Nat /\ DOMAIN t = 1 .. Len(t)
      /\ DOMAIN (s \o t) = 1 .. Len(s) + Len(t)
  BY <1>1, <1>2, LenProperties
<1>4. \A i \in DOMAIN s : (s \o t)[i] = s[i]
  BY <1>2, <1>3
<1>5. \A i \in DOMAIN t : (s \o t)[Len(s) + i] = t[i]
  <2> TAKE i \in DOMAIN t
  <2>1. Len(s) + i \in 1 .. Len(s) + Len(t) /\ ~(Len(s) + i <= Len(s)) /\ (Len(s) + i) - Len(s) = i
    BY <1>3
  <2> QED
    BY <1>2, <2>1
<1>6. ASSUME NEW x \in ToSet(s) \cup ToSet(t) PROVE x \in ToSet(s \o t)
  <2>1. CASE x \in ToSet(s)
    <3>1. PICK i \in DOMAIN s : x = s[i]
      BY <2>1 DEF ToSet
    <3>2. i \in DOMAIN (s \o t)
      BY <1>3
    <3> QED
      BY <1>4, <3>1, <3>2 DEF ToSet
  <2>2. CASE x \in ToSet(t)
    <3>1. PICK i \in DOMAIN t : x = t[i]
      BY <2>2 DEF ToSet
    <3>2. Len(s) + i \in DOMAIN (s \o t)
      BY <1>3
    <3> QED
      BY <1>5, <3>1, <3>2 DEF ToSet
  <2> QED
    BY <2>1, <2>2
<1> QED
  BY <1>2, <1>6

LEMMA NamesAreTogether ==
  /\ \E S : Names \in Seq(S)
  /\ Len(Names) = 44 /\ DOMAIN Names = 1 .. 44
  /\ \A x \in ToSet(FirstNames) \cup ToSet(EventValues) \cup ToSet(StatusValues)
              \cup ToSet(PageValues) \cup ToSet(ErrorValues) : x \in ToSet(Names)
<1> DEFINE A == FirstNames \o EventValues
           B == A \o StatusValues
           C == B \o PageValues
           D == C \o ErrorValues
<1>1. Names = D
  BY DEF Names, FirstNames
<1> DEFINE a == ToSet(FirstNames) \cup ToSet(EventValues)
           b == a \cup ToSet(StatusValues)
           c == b \cup ToSet(PageValues)
           d == c \cup ToSet(ErrorValues)
<1>2. A \in Seq(a) /\ Len(A) = 19 /\ \A x \in a : x \in ToSet(A)
  <2>1. A \in Seq(a) /\ Len(A) = Len(FirstNames) + Len(EventValues) /\ \A x \in a : x \in ToSet(A)
    BY PartsOfTheNames, JoinHasBoth
  <2> QED
    BY <2>1, PartsOfTheNames
<1> HIDE DEF A, a
<1>3. B \in Seq(b) /\ Len(B) = 24 /\ \A x \in b : x \in ToSet(B)
  <2>1. B \in Seq(b) /\ Len(B) = Len(A) + Len(StatusValues)
        /\ \A x \in ToSet(A) \cup ToSet(StatusValues) : x \in ToSet(B)
    BY <1>2, PartsOfTheNames, JoinHasBoth
  <2> QED
    BY <1>2, <2>1, PartsOfTheNames
<1> HIDE DEF B, b
<1>4. C \in Seq(c) /\ Len(C) = 27 /\ \A x \in c : x \in ToSet(C)
  <2>1. C \in Seq(c) /\ Len(C) = Len(B) + Len(PageValues)
        /\ \A x \in ToSet(B) \cup ToSet(PageValues) : x \in ToSet(C)
    BY <1>3, PartsOfTheNames, JoinHasBoth
  <2> QED
    BY <1>3, <2>1, PartsOfTheNames
<1> HIDE DEF C, c
<1>5. D \in Seq(d) /\ Len(D) = 44 /\ \A x \in d : x \in ToSet(D)
  <2>1. D \in Seq(d) /\ Len(D) = Len(C) + Len(ErrorValues)
        /\ \A x \in ToSet(C) \cup ToSet(ErrorValues) : x \in ToSet(D)
    BY <1>4, PartsOfTheNames, JoinHasBoth
  <2> QED
    BY <1>4, <2>1, PartsOfTheNames
<1> HIDE DEF D
<1>6. DOMAIN D = 1 .. 44
  BY <1>5, LenProperties
<1> QED
  BY <1>1, <1>5, <1>6 DEF a, b, c, d

(* A name is one symbol, of its own, and above every byte.                 *)
LEMMA WordsAreSymbols ==
  ASSUME NEW name \in ToSet(Names)
  PROVE  /\ Word(name) \in Symbol /\ Word(name) > 255 /\ Word(name) - 255 \in DOMAIN Names
         /\ Names[Word(name) - 255] = name
<1>1. \E i \in DOMAIN Names : Names[i] = name
  BY DEF ToSet
<1> DEFINE i == CHOOSE i \in DOMAIN Names : Names[i] = name
<1>2. i \in DOMAIN Names /\ Names[i] = name
  BY <1>1
<1>3. Word(name) = 255 + i
  BY DEF Word, Symbols
<1> HIDE DEF i
<1>4. Len(Names) = 44 /\ DOMAIN Names = 1 .. 44
  BY NamesAreTogether
<1>5. (255 + i) - 255 = i /\ 255 + i \in 0 .. 255 + 44 /\ 255 + i > 255
  BY <1>2, <1>4
<1> QED
  BY <1>2, <1>3, <1>4, <1>5 DEF Symbol

LEMMA WordsDiffer ==
  ASSUME NEW a \in ToSet(Names), NEW b \in ToSet(Names), Word(a) = Word(b)
  PROVE  a = b
BY WordsAreSymbols

-----------------------------------------------------------------------------
(* The width of a line is the sum of its parts'.                           *)
LEMMA WidthsAreNatural ==
  /\ \A c \in Symbol : WidthOf(c) \in Nat \ {0}
  /\ \A width \in Nat, c \in Symbol : AddWidth(width, c) \in Nat
<1>1. ASSUME NEW c \in Symbol PROVE WidthOf(c) \in Nat \ {0}
  <2>1. CASE c > 255
    <3>1. c - 255 \in DOMAIN Names
      BY <2>1, NamesAreTogether DEF Symbol
    <3>2. Len(Names[c - 255]) \in 1 .. 17
      BY <3>1, NamesAssumption
    <3>3. \A n \in 1 .. 17 : n \in Nat \ {0}
      OBVIOUS
    <3>4. WidthOf(c) = Len(Names[c - 255])
      BY <2>1 DEF WidthOf
    <3> QED
      BY <3>2, <3>3, <3>4
  <2>2. CASE ~(c > 255)
    BY <2>2 DEF WidthOf
  <2> QED
    BY <2>1, <2>2
<1> QED
  BY <1>1 DEF AddWidth

(* The scan of a width.                                                   *)
WidthFrom(start, raw) == ScanOf(AddWidth, start, raw)

LEMMA WidthFromIsAScan ==
  ASSUME NEW start \in Nat, NEW raw \in Seq(Symbol)
  PROVE  WidthFrom(start, raw) = Scan([x \in Nat \X Symbol |-> AddWidth(x[1], x[2])], start, raw)
<1> DEFINE take == [x \in Nat \X Symbol |-> AddWidth(x[1], x[2])]
           f == Run(take, start, raw)
           eq(after) == [i \in 0 .. Len(raw) |-> IF i = 0 THEN start ELSE AddWidth(after[i - 1], raw[i])]
           h == CHOOSE after : after = eq(after)
<1>1. Len(raw) \in Nat /\ \A n \in 1 .. Len(raw) : raw[n] \in Symbol
  BY LenProperties, ElementOfSeq
<1>2. take \in [Nat \X Symbol -> Nat]
  BY WidthsAreNatural
<1>3. \A s \in Nat, c \in Symbol : take[<<s, c>>] = AddWidth(s, c)
  OBVIOUS
<1>4. Scan(take, start, raw) = f[Len(raw)]
  BY ScanIsRun
<1>5. WidthFrom(start, raw) = h[Len(raw)]
  BY DEF WidthFrom, ScanOf
<1>6. IsARun(Nat, take, start, raw, f)
  <2> HIDE DEF take
  <2> QED
    BY <1>2, RunIs
<1> HIDE DEF take, f
<1>7. f \in [0 .. Len(raw) -> Nat] /\ f[0] = start
  BY <1>6 DEF IsARun
<1>8. \A n \in 1 .. Len(raw) : f[n] = AddWidth(f[n - 1], raw[n])
  <2> TAKE n \in 1 .. Len(raw)
  <2>1. n - 1 \in 0 .. Len(raw)
    BY <1>1
  <2>2. f[n - 1] \in Nat /\ raw[n] \in Symbol
    BY <1>1, <1>7, <2>1
  <2>3. f[n] = take[<<f[n - 1], raw[n]>>]
    BY <1>6 DEF IsARun
  <2> QED
    BY <1>3, <2>2, <2>3
<1>9. f = eq(f)
  <2>1. \A i \in 0 .. Len(raw) : f[i] = IF i = 0 THEN start ELSE AddWidth(f[i - 1], raw[i])
    BY <1>1, <1>7, <1>8
  <2>2. f = [i \in 0 .. Len(raw) |-> f[i]]
    BY <1>7
  <2> QED
    BY <2>1, <2>2
<1>10. h = eq(h)
  <2> HIDE DEF eq
  <2> QED
    BY <1>9
<1> HIDE DEF h
<1>11. h[0] = start /\ \A n \in 1 .. Len(raw) : h[n] = AddWidth(h[n - 1], raw[n])
  BY <1>1, <1>10
<1>12. f[Len(raw)] = h[Len(raw)]
  <2> HIDE DEF eq
  <2>1. \A n \in 1 .. Len(raw) : f[n - 1] = h[n - 1] => f[n] = h[n]
    BY <1>8, <1>11
  <2>2. f[0] = h[0]
    BY <1>7, <1>11
  <2> QED
    BY <1>1, <2>1, <2>2, RecursionIsUnique
<1> QED
  BY <1>4, <1>5, <1>12 DEF take

LEMMA WidthFromSteps ==
  ASSUME NEW start \in Nat
  PROVE  /\ WidthFrom(start, <<>>) = start
         /\ \A s \in Seq(Symbol) : WidthFrom(start, s) \in Nat
         /\ \A s \in Seq(Symbol) : \A c \in Symbol :
              WidthFrom(start, Append(s, c)) = AddWidth(WidthFrom(start, s), c)
         /\ \A s \in Seq(Symbol) : \A t \in Seq(Symbol) :
              WidthFrom(start, s \o t) = WidthFrom(WidthFrom(start, s), t)
<1> DEFINE take == [x \in Nat \X Symbol |-> AddWidth(x[1], x[2])]
<1>1. take \in Takes(Nat, Symbol)
  BY WidthsAreNatural DEF Takes
<1>2. \A s \in Nat, c \in Symbol : take[<<s, c>>] = AddWidth(s, c)
  OBVIOUS
<1>3. \A begin \in Nat : \A s \in Seq(Symbol) : WidthFrom(begin, s) = Scan(take, begin, s)
  BY WidthFromIsAScan
<1> HIDE DEF take
<1>4. Stepwise(Nat, Symbol, take, start)
  BY <1>1, ScanIsStepwise
<1>5. \A s \in Seq(Symbol) : WidthFrom(start, s) \in Nat
  BY <1>3, <1>4 DEF Stepwise
<1>6. WidthFrom(start, <<>>) = start
  <2>1. <<>> \in Seq(Symbol)
    OBVIOUS
  <2> QED
    BY <1>3, <1>4, <2>1 DEF Stepwise
<1>7. ASSUME NEW s \in Seq(Symbol), NEW c \in Symbol
      PROVE  WidthFrom(start, Append(s, c)) = AddWidth(WidthFrom(start, s), c)
  <2>1. Append(s, c) \in Seq(Symbol)
    BY AppendProperties
  <2>2. Scan(take, start, Append(s, c)) = take[<<Scan(take, start, s), c>>]
    BY <1>4 DEF Stepwise
  <2> QED
    BY <1>2, <1>3, <1>5, <2>1, <2>2
<1>8. ASSUME NEW s \in Seq(Symbol), NEW t \in Seq(Symbol)
      PROVE  WidthFrom(start, s \o t) = WidthFrom(WidthFrom(start, s), t)
  <2>1. s \o t \in Seq(Symbol)
    BY ConcatProperties
  <2>2. Scan(take, start, s \o t) = Scan(take, Scan(take, start, s), t)
    BY <1>1, ScanOfAJoin
  <2> QED
    BY <1>3, <1>5, <2>1, <2>2
<1> QED
  BY <1>5, <1>6, <1>7, <1>8

LEMMA WidthFromIsASum ==
  ASSUME NEW start \in Nat, NEW s \in Seq(Symbol)
  PROVE  WidthFrom(start, s) = start + WidthFrom(0, s)
<1> DEFINE T == {t \in Seq(Symbol) : WidthFrom(start, t) = start + WidthFrom(0, t)}
<1>1. 0 \in Nat
  OBVIOUS
<1>2. <<>> \in T
  BY <1>1, WidthFromSteps
<1>3. ASSUME NEW t \in T, NEW c \in Symbol PROVE Append(t, c) \in T
  <2>1. t \in Seq(Symbol) /\ Append(t, c) \in Seq(Symbol)
    BY AppendProperties
  <2>2. /\ WidthFrom(start, Append(t, c)) = AddWidth(WidthFrom(start, t), c)
        /\ WidthFrom(0, Append(t, c)) = AddWidth(WidthFrom(0, t), c)
        /\ WidthFrom(0, t) \in Nat
    BY <1>1, <2>1, WidthFromSteps
  <2>3. WidthFrom(start, t) = start + WidthFrom(0, t) /\ WidthOf(c) \in Nat
    BY WidthsAreNatural
  <2> QED
    BY <2>1, <2>2, <2>3 DEF AddWidth
<1>4. T = Seq(Symbol)
  <2>1. T \in SUBSET Seq(Symbol)
    OBVIOUS
  <2> HIDE DEF T
  <2> QED
    BY <1>2, <1>3, <2>1, EverySequenceIsReached
<1> QED
  BY <1>4

LEMMA WidthIsASum ==
  /\ Width(<<>>) = 0
  /\ \A s \in Seq(Symbol) : Width(s) \in Nat
  /\ \A s \in Seq(Symbol) : \A c \in Symbol : Width(Append(s, c)) = Width(s) + WidthOf(c)
  /\ \A s \in Seq(Symbol) : \A t \in Seq(Symbol) : Width(s \o t) = Width(s) + Width(t)
  /\ \A c \in Symbol : Width(<<c>>) = WidthOf(c)
<1>1. \A s : Width(s) = WidthFrom(0, s)
  BY DEF Width, WidthFrom
<1>2. /\ WidthFrom(0, <<>>) = 0
      /\ \A s \in Seq(Symbol) : WidthFrom(0, s) \in Nat
      /\ \A s \in Seq(Symbol) : \A c \in Symbol :
           WidthFrom(0, Append(s, c)) = AddWidth(WidthFrom(0, s), c)
      /\ \A s \in Seq(Symbol) : \A t \in Seq(Symbol) :
           WidthFrom(0, s \o t) = WidthFrom(WidthFrom(0, s), t)
  <2>1. 0 \in Nat
    OBVIOUS
  <2> QED
    BY <2>1, WidthFromSteps
<1>3. \A s \in Seq(Symbol) : \A c \in Symbol : Width(Append(s, c)) = Width(s) + WidthOf(c)
  BY <1>1, <1>2 DEF AddWidth
<1>4. \A s \in Seq(Symbol) : \A t \in Seq(Symbol) : Width(s \o t) = Width(s) + Width(t)
  BY <1>1, <1>2, WidthFromIsASum
<1>5. ASSUME NEW c \in Symbol PROVE Width(<<c>>) = WidthOf(c)
  <2>1. <<>> \in Seq(Symbol) /\ Append(<<>>, c) = <<c>>
    OBVIOUS
  <2>2. Width(Append(<<>>, c)) = Width(<<>>) + WidthOf(c)
    BY <1>3, <2>1
  <2> QED
    BY <1>1, <1>2, <2>1, <2>2, WidthsAreNatural
<1> QED
  BY <1>1, <1>2, <1>3, <1>4, <1>5

LEMMA ShortWidths ==
  ASSUME NEW a \in Symbol, NEW b \in Symbol, NEW c \in Symbol
  PROVE  /\ Width(<<a>>) = WidthOf(a) /\ Width(<<a, b>>) = WidthOf(a) + WidthOf(b)
         /\ Width(<<a, b, c>>) = WidthOf(a) + WidthOf(b) + WidthOf(c)
<1> DEFINE one == <<a>>
           two == <<a, b>>
<1>1. one \in Seq(Symbol) /\ two \in Seq(Symbol) /\ WidthOf(a) \in Nat /\ WidthOf(b) \in Nat
  BY WidthsAreNatural
<1>2. Append(one, b) = two /\ Append(two, c) = <<a, b, c>>
  BY ShortAppends
<1>3. Width(one) = WidthOf(a)
  BY WidthIsASum
<1> HIDE DEF one, two
<1>4. Width(Append(one, b)) = Width(one) + WidthOf(b)
  BY <1>1, WidthIsASum
<1>5. Width(Append(two, c)) = Width(two) + WidthOf(c)
  BY <1>1, WidthIsASum
<1> QED
  BY <1>2, <1>3, <1>4, <1>5 DEF one, two

-----------------------------------------------------------------------------
(* Sequences joined to one.                                                *)
Joining == [x \in Seq(Symbol) \X Seq(Symbol) |-> x[1] \o x[2]]

LEMMA JoiningIs ==
  /\ Joining \in Takes(Seq(Symbol), Seq(Symbol)) /\ <<>> \in Seq(Symbol)
  /\ \A s \in Seq(Symbol), t \in Seq(Symbol) : Joining[<<s, t>>] = s \o t
<1>1. \A s \in Seq(Symbol), t \in Seq(Symbol) : s \o t \in Seq(Symbol)
  BY ConcatProperties
<1> DEFINE A == Seq(Symbol)
<1>2. <<>> \in A
  OBVIOUS
<1>3. \A s \in A, t \in A : Joining[<<s, t>>] = s \o t
  <2>1. Joining = [x \in A \X A |-> x[1] \o x[2]]
    BY DEF Joining
  <2> HIDE DEF A
  <2> QED
    BY <2>1
<1>4. Joining \in [A \X A -> A]
  <2>1. ASSUME NEW x \in A \X A PROVE x[1] \o x[2] \in A
    <3>1. x[1] \in A /\ x[2] \in A
      OBVIOUS
    <3> QED
      BY <1>1, <3>1
  <2>2. Joining = [x \in A \X A |-> x[1] \o x[2]]
    BY DEF Joining
  <2> HIDE DEF A
  <2> QED
    BY <2>1, <2>2
<1> QED
  BY <1>2, <1>3, <1>4 DEF Takes

LEMMA FlattenIsAScan ==
  ASSUME NEW ss \in Seq(Seq(Symbol))
  PROVE  FlattenSeq(ss) = Scan(Joining, <<>>, ss)
<1> DEFINE f == Run(Joining, <<>>, ss)
           N == Len(ss)
           eq(after) == [i \in 1 .. N |-> IF i = 1 THEN ss[i] ELSE after[i - 1] \o ss[i]]
           h == CHOOSE after : after = eq(after)
<1>1. N \in Nat /\ \A n \in 1 .. N : ss[n] \in Seq(Symbol)
  BY LenProperties, ElementOfSeq
<1>2. CASE N = 0
  <2>1. ss = <<>>
    BY <1>2, EmptySeq
  <2>2. FlattenSeq(ss) = <<>>
    BY <1>2, <2>1 DEF FlattenSeq
  <2>3. Stepwise(Seq(Symbol), Seq(Symbol), Joining, <<>>)
    BY JoiningIs, ScanIsStepwise
  <2> QED
    BY <2>1, <2>2, <2>3 DEF Stepwise
<1>3. CASE N # 0
  <2>1. FlattenSeq(ss) = h[N]
    BY <1>3 DEF FlattenSeq
  <2>2. IsARun(Seq(Symbol), Joining, <<>>, ss, f)
    BY JoiningIs, RunIs DEF Takes
  <2> HIDE DEF f
  <2>3. f \in [0 .. N -> Seq(Symbol)] /\ f[0] = <<>>
    BY <2>2 DEF IsARun
  <2>4. ASSUME NEW n \in 1 .. N
        PROVE  f[n] = f[n - 1] \o ss[n] /\ f[n - 1] \in Seq(Symbol) /\ ss[n] \in Seq(Symbol)
    <3>1. n - 1 \in 0 .. N
      BY <1>1
    <3>2. f[n - 1] \in Seq(Symbol) /\ ss[n] \in Seq(Symbol)
      BY <1>1, <2>3, <3>1
    <3>3. f[n] = Joining[<<f[n - 1], ss[n]>>]
      BY <2>2 DEF IsARun
    <3> QED
      BY <3>2, <3>3, JoiningIs
  <2>5. f[1] = ss[1] /\ 1 \in 1 .. N
    <3>1. 1 \in 1 .. N /\ 1 - 1 = 0
      BY <1>1, <1>3
    <3>2. f[1] = <<>> \o ss[1] /\ ss[1] \in Seq(Symbol)
      BY <2>3, <2>4, <3>1
    <3> QED
      BY <3>1, <3>2, ConcatEmptySeq
  <2> DEFINE g == [i \in 1 .. N |-> f[i]]
  <2>6. g = eq(g)
    <3>1. ASSUME NEW i \in 1 .. N
          PROVE  g[i] = IF i = 1 THEN ss[i] ELSE g[i - 1] \o ss[i]
      <4>1. CASE i = 1
        BY <2>5, <4>1
      <4>2. CASE i # 1
        <5>1. i - 1 \in 1 .. N
          BY <1>1, <4>2
        <5> QED
          BY <2>4, <4>2, <5>1
      <4> QED
        BY <4>1, <4>2
    <3>2. g = [i \in 1 .. N |-> g[i]]
      OBVIOUS
    <3> HIDE DEF g
    <3> QED
      BY <3>1, <3>2
  <2>7. h = eq(h)
    <3> HIDE DEF eq, g
    <3> QED
      BY <2>6
  <2> HIDE DEF h, g
  <2>8. h[1] = ss[1] /\ \A n \in 2 .. N : h[n] = h[n - 1] \o ss[n]
    <3>1. h[1] = ss[1]
      BY <2>5, <2>7
    <3>2. ASSUME NEW n \in 2 .. N PROVE h[n] = h[n - 1] \o ss[n]
      <4>1. n \in 1 .. N /\ n # 1
        BY <1>1
      <4> QED
        BY <2>7, <4>1
    <3> QED
      BY <3>1, <3>2
  <2> DEFINE p == [i \in 0 .. N |-> IF i = 0 THEN <<>> ELSE h[i]]
  <2>9. p[0] = f[0] /\ p[N] = h[N]
    BY <1>1, <1>3, <2>3
  <2>10. ASSUME NEW n \in 1 .. N, f[n - 1] = p[n - 1] PROVE f[n] = p[n]
    <3>1. CASE n = 1
      BY <2>5, <2>8, <3>1
    <3>2. CASE n # 1
      <4>1. n \in 2 .. N /\ n - 1 \in 1 .. N
        BY <1>1, <3>2
      <4>2. f[n] = f[n - 1] \o ss[n] /\ h[n] = h[n - 1] \o ss[n]
        BY <2>4, <2>8, <4>1
      <4>3. p[n] = h[n] /\ p[n - 1] = h[n - 1]
        BY <4>1
      <4> QED
        BY <2>10, <4>2, <4>3
    <3> QED
      BY <3>1, <3>2
  <2> HIDE DEF p, eq
  <2>11. f[N] = p[N]
    BY <1>1, <2>9, <2>10, RecursionIsUnique
  <2>12. Scan(Joining, <<>>, ss) = f[N]
    BY ScanIsRun DEF f
  <2> QED
    BY <2>1, <2>9, <2>11, <2>12
<1> QED
  BY <1>2, <1>3

LEMMA FlattenSteps ==
  /\ FlattenSeq(<<>>) = <<>>
  /\ \A ss \in Seq(Seq(Symbol)) : FlattenSeq(ss) \in Seq(Symbol)
  /\ \A ss \in Seq(Seq(Symbol)) : \A s \in Seq(Symbol) :
       FlattenSeq(Append(ss, s)) = FlattenSeq(ss) \o s
<1>1. Stepwise(Seq(Symbol), Seq(Symbol), Joining, <<>>)
  BY JoiningIs, ScanIsStepwise
<1>2. \A ss \in Seq(Seq(Symbol)) : FlattenSeq(ss) \in Seq(Symbol)
  BY <1>1, FlattenIsAScan DEF Stepwise
<1>3. FlattenSeq(<<>>) = <<>>
  <2>1. <<>> \in Seq(Seq(Symbol))
    OBVIOUS
  <2> QED
    BY <1>1, <2>1, FlattenIsAScan DEF Stepwise
<1>4. ASSUME NEW ss \in Seq(Seq(Symbol)), NEW s \in Seq(Symbol)
      PROVE  FlattenSeq(Append(ss, s)) = FlattenSeq(ss) \o s
  <2>1. Append(ss, s) \in Seq(Seq(Symbol))
    BY AppendProperties
  <2>2. Scan(Joining, <<>>, Append(ss, s)) = Joining[<<Scan(Joining, <<>>, ss), s>>]
    BY <1>1 DEF Stepwise
  <2>3. Scan(Joining, <<>>, ss) \in Seq(Symbol)
    BY <1>1 DEF Stepwise
  <2> QED
    BY <2>1, <2>2, <2>3, FlattenIsAScan, JoiningIs
<1> QED
  BY <1>2, <1>3, <1>4

LEMMA FlattenOfAJoin ==
  ASSUME NEW ss \in Seq(Seq(Symbol)), NEW tt \in Seq(Seq(Symbol))
  PROVE  FlattenSeq(ss \o tt) = FlattenSeq(ss) \o FlattenSeq(tt)
<1> DEFINE T == {uu \in Seq(Seq(Symbol)) : FlattenSeq(ss \o uu) = FlattenSeq(ss) \o FlattenSeq(uu)}
<1>1. <<>> \in T
  <2>1. <<>> \in Seq(Seq(Symbol)) /\ ss \o <<>> = ss
    BY ConcatEmptySeq
  <2>2. FlattenSeq(ss) \o <<>> = FlattenSeq(ss)
    BY FlattenSteps, ConcatEmptySeq
  <2> QED
    BY <2>1, <2>2, FlattenSteps
<1>2. ASSUME NEW uu \in T, NEW u \in Seq(Symbol) PROVE Append(uu, u) \in T
  <2>1. uu \in Seq(Seq(Symbol)) /\ Append(uu, u) \in Seq(Seq(Symbol)) /\ ss \o uu \in Seq(Seq(Symbol))
    BY AppendProperties, ConcatProperties
  <2>2. ss \o Append(uu, u) = Append(ss \o uu, u)
    <3>1. Append(uu, u) = uu \o <<u>> /\ Append(ss \o uu, u) = (ss \o uu) \o <<u>>
      BY <2>1, AppendIsConcat
    <3>2. <<u>> \in Seq(Seq(Symbol))
      OBVIOUS
    <3> QED
      BY <2>1, <3>1, <3>2, ConcatAssociative
  <2>3. /\ FlattenSeq(Append(ss \o uu, u)) = FlattenSeq(ss \o uu) \o u
        /\ FlattenSeq(Append(uu, u)) = FlattenSeq(uu) \o u
    BY <2>1, FlattenSteps
  <2>4. FlattenSeq(ss \o uu) = FlattenSeq(ss) \o FlattenSeq(uu)
    OBVIOUS
  <2>5. (FlattenSeq(ss) \o FlattenSeq(uu)) \o u = FlattenSeq(ss) \o (FlattenSeq(uu) \o u)
    <3>1. FlattenSeq(ss) \in Seq(Symbol) /\ FlattenSeq(uu) \in Seq(Symbol)
      BY <2>1, FlattenSteps
    <3> QED
      BY SMTT(30), <3>1, ConcatAssociative
  <2> QED
    BY <2>1, <2>2, <2>3, <2>4, <2>5
<1>3. T = Seq(Seq(Symbol))
  <2>1. T \in SUBSET Seq(Seq(Symbol))
    OBVIOUS
  <2> HIDE DEF T
  <2> QED
    BY <1>1, <1>2, <2>1, EverySequenceIsReached
<1> QED
  BY <1>3

-----------------------------------------------------------------------------
(* Texts: their spelling, and the scan that reads it.                      *)
Character == 32 .. 126

LEMMA CharactersAreSymbols == 0 .. 255 \subseteq Symbol /\ Character \subseteq Symbol
BY NamesAreTogether DEF Symbol, Character

LEMMA EscapesAreSymbols ==
  ASSUME NEW c \in Character
  PROVE  /\ EscapedByte(c) \in Seq(Symbol)
         /\ IsUnreserved(c) => EscapedByte(c) = <<c>>
         /\ ~IsUnreserved(c) =>
              EscapedByte(c) = <<Percent, HexDigit(c \div 16), HexDigit(c % 16)>>
         /\ HexDigit(c \div 16) \in 48 .. 70 /\ HexDigit(c % 16) \in 48 .. 70
         /\ ByteOf(HexDigit(c \div 16), HexDigit(c % 16)) = c
<1>1. c \in 32 .. 126
  BY DEF Character
<1>2. c \div 16 \in 0 .. 15 /\ c % 16 \in 0 .. 15 /\ 16 * (c \div 16) + (c % 16) = c
  BY <1>1
<1>3. \A n \in 0 .. 15 : HexDigit(n) \in 48 .. 70 /\ HexValue(HexDigit(n)) = n
  BY DEF HexDigit, HexValue, Digit
<1>4. ByteOf(HexDigit(c \div 16), HexDigit(c % 16)) = c
  BY <1>2, <1>3 DEF ByteOf
<1>5. {c, Percent, HexDigit(c \div 16), HexDigit(c % 16)} \subseteq Symbol
  BY <1>1, <1>2, <1>3, CharactersAreSymbols DEF Percent
<1>6. EscapedByte(c) \in Seq(Symbol)
  BY <1>5 DEF EscapedByte
<1> QED
  BY <1>2, <1>3, <1>4, <1>6 DEF EscapedByte

IsAMap(f, S, T) == \A e \in S : f[e] \in T

Mapped(f, t) == [i \in DOMAIN t |-> f[t[i]]]

LEMMA MappedAppend ==
  ASSUME NEW S, NEW T, NEW f, NEW t \in Seq(S), NEW c \in S,
         IsAMap(f, S, T)
  PROVE  /\ Mapped(f, t) \in Seq(T)
         /\ Mapped(f, Append(t, c)) = Append(Mapped(f, t), f[c])
<1> USE DEF IsAMap
<1> DEFINE u == Append(t, c)
           m == [i \in DOMAIN t |-> f[t[i]]]
           n == [i \in DOMAIN u |-> f[u[i]]]
<1>1. /\ Len(t) \in Nat /\ DOMAIN t = 1 .. Len(t) /\ \A i \in 1 .. Len(t) : t[i] \in S
  BY LenProperties, ElementOfSeq
<1>2. /\ DOMAIN u = 1 .. Len(t) + 1 /\ \A i \in 1 .. Len(t) : u[i] = t[i]
      /\ u[Len(t) + 1] = c /\ u \in Seq(S)
  BY <1>1, AppendProperties, LenProperties
<1> HIDE DEF u
<1>3. m \in [1 .. Len(t) -> T] /\ n \in [1 .. Len(t) + 1 -> T]
  BY <1>1, <1>2
<1>4. m \in Seq(T) /\ n \in Seq(T) /\ Len(m) = Len(t) /\ Len(n) = Len(t) + 1
  BY <1>1, <1>3, LenProperties, IsASeq
<1>5. /\ Append(m, f[c]) \in Seq(T) /\ Len(Append(m, f[c])) = Len(t) + 1
      /\ \A i \in 1 .. Len(t) : Append(m, f[c])[i] = m[i]
      /\ Append(m, f[c])[Len(t) + 1] = f[c]
  <2>1. f[c] \in T
    OBVIOUS
  <2> HIDE DEF m, n
  <2> QED
    BY <1>4, <2>1, AppendProperties
<1>6. \A i \in 1 .. Len(t) + 1 : n[i] = Append(m, f[c])[i]
  <2> TAKE i \in 1 .. Len(t) + 1
  <2>1. CASE i \in 1 .. Len(t)
    BY <1>1, <1>2, <1>5, <2>1
  <2>2. CASE i = Len(t) + 1
    BY <1>1, <1>2, <1>5, <2>2
  <2> QED
    BY <1>1, <2>1, <2>2
<1>7. n = Append(m, f[c])
  <2> HIDE DEF m, n
  <2> QED
    BY <1>4, <1>5, <1>6, SeqEqual
<1> QED
  BY <1>4, <1>7 DEF u, Mapped

LEMMA PercentEncodeSteps ==
  /\ PercentEncode(<<>>) = <<>>
  /\ \A t \in Seq(Character) : PercentEncode(t) \in Seq(Symbol)
  /\ \A t \in Seq(Character) : \A c \in Character :
       PercentEncode(Append(t, c)) = PercentEncode(t) \o EscapedByte(c)
<1> DEFINE f == [c \in Character |-> EscapedByte(c)]
           m(t) == [i \in DOMAIN t |-> EscapedByte(t[i])]
<1>1. IsAMap(f, Character, Seq(Symbol))
  BY EscapesAreSymbols DEF IsAMap
<1>2. ASSUME NEW t \in Seq(Character) PROVE m(t) = Mapped(f, t)
  <2>1. \A i \in DOMAIN t : t[i] \in Character
    BY LenProperties, ElementOfSeq
  <2> QED
    BY <2>1 DEF Mapped
<1>3. \A t : PercentEncode(t) = FlattenSeq(m(t))
  BY DEF PercentEncode
<1>4. \A c \in Character : f[c] = EscapedByte(c)
  OBVIOUS
<1> HIDE DEF f
<1>5. ASSUME NEW t \in Seq(Character), NEW c \in Character
      PROVE  m(t) \in Seq(Seq(Symbol)) /\ m(Append(t, c)) = Append(m(t), EscapedByte(c))
  <2>1. Append(t, c) \in Seq(Character)
    BY AppendProperties
  <2>2. Mapped(f, t) \in Seq(Seq(Symbol)) /\ Mapped(f, Append(t, c)) = Append(Mapped(f, t), f[c])
    BY <1>1, MappedAppend
  <2> HIDE DEF m
  <2> QED
    BY <1>2, <1>4, <2>1, <2>2
<1>6. \A t \in Seq(Character) : m(t) \in Seq(Seq(Symbol))
  <2>1. 32 \in Character
    BY DEF Character
  <2> HIDE DEF m
  <2> QED
    BY <1>5, <2>1
<1>7. PercentEncode(<<>>) = <<>>
  <2>1. m(<<>>) = <<>>
    OBVIOUS
  <2> QED
    BY <1>3, <2>1, FlattenSteps
<1> HIDE DEF m
<1>8. \A t \in Seq(Character) : PercentEncode(t) \in Seq(Symbol)
  BY <1>3, <1>6, FlattenSteps
<1>9. ASSUME NEW t \in Seq(Character), NEW c \in Character
      PROVE  PercentEncode(Append(t, c)) = PercentEncode(t) \o EscapedByte(c)
  <2>1. EscapedByte(c) \in Seq(Symbol)
    BY EscapesAreSymbols
  <2>2. FlattenSeq(Append(m(t), EscapedByte(c))) = FlattenSeq(m(t)) \o EscapedByte(c)
    BY <1>6, <2>1, FlattenSteps
  <2> QED
    BY <1>3, <1>5, <2>2
<1> QED
  BY <1>7, <1>8, <1>9

TextScan ==
  [error : {"NONE", "MALFORMED", "BAD_VALUE"}, text : Seq(Character), escape : Seq(Symbol)]

LEMMA TakeByteKeeps ==
  ASSUME NEW scan \in TextScan, NEW c \in Int
  PROVE  TakeByte(scan, c) \in TextScan
<1>1. CASE c \notin 32 .. 126
  BY <1>1 DEF TakeByte, TextScan
<1>2. CASE c \in 32 .. 126 /\ Len(scan.text) >= MaxTextLength
  BY <1>2 DEF TakeByte, TextScan
<1>3. CASE c \in 32 .. 126 /\ ~(Len(scan.text) >= MaxTextLength)
  <2>1. scan.text \in Seq(Character) /\ c \in Character
    BY <1>3 DEF TextScan, Character
  <2>2. Append(scan.text, c) \in Seq(Character)
    BY <2>1, AppendProperties
  <2>3. TakeByte(scan, c) = [scan EXCEPT !.text = Append(scan.text, c)]
    BY <1>3 DEF TakeByte
  <2> QED
    BY <2>2, <2>3 DEF TextScan
<1> QED
  BY <1>1, <1>2, <1>3

LEMMA ScanByteKeeps == \A scan \in TextScan, c \in Symbol : ScanByte(scan, c) \in TextScan
<1> SUFFICES ASSUME NEW scan \in TextScan, NEW c \in Symbol PROVE ScanByte(scan, c) \in TextScan
  OBVIOUS
<1> DEFINE raw == Append(scan.escape, c)
<1>1. raw \in Seq(Symbol) /\ Len(raw) \in Nat /\ \A i \in 1 .. Len(raw) : raw[i] \in Nat
  <2>1. raw \in Seq(Symbol) /\ \A n \in Symbol : n \in Nat
    BY AppendProperties DEF TextScan, Symbol
  <2> HIDE DEF raw
  <2> QED
    BY <2>1, LenProperties, ElementOfSeq
<1>2. c \in Int
  BY DEF Symbol
<1>3. ScanByte(scan, c) =
        IF scan.error # "NONE" THEN scan
        ELSE IF raw[1] # Percent THEN TakeByte(scan, IF IsUnreserved(c) THEN c ELSE -1)
        ELSE IF Len(raw) < 3 THEN [scan EXCEPT !.escape = raw]
        ELSE TakeByte([scan EXCEPT !.escape = <<>>], ByteOf(raw[2], raw[3]))
  BY DEF ScanByte
<1> HIDE DEF raw
<1>4. (IF IsUnreserved(c) THEN c ELSE -1) \in Int
  BY <1>2
<1>5. TakeByte(scan, IF IsUnreserved(c) THEN c ELSE -1) \in TextScan
  BY <1>4, TakeByteKeeps
<1>6. [scan EXCEPT !.escape = raw] \in TextScan
  BY <1>1 DEF TextScan
<1>7. [scan EXCEPT !.escape = <<>>] \in TextScan
  <2>1. <<>> \in Seq(Symbol)
    OBVIOUS
  <2> DEFINE e == <<>>
  <2>2. e \in Seq(Symbol)
    BY <2>1
  <2> HIDE DEF e
  <2>3. [scan EXCEPT !.escape = e] \in TextScan
    BY <2>2 DEF TextScan
  <2> QED
    BY <2>3 DEF e
<1>8. ASSUME ~(Len(raw) < 3) PROVE ByteOf(raw[2], raw[3]) \in Int
  <2>1. raw[2] \in Nat /\ raw[3] \in Nat
    BY <1>1, <1>8
  <2>2. HexValue(raw[2]) \in Int /\ HexValue(raw[3]) \in Int
    BY <2>1 DEF HexValue, Digit
  <2> QED
    BY <2>2 DEF ByteOf
<1>9. ASSUME ~(Len(raw) < 3)
      PROVE  TakeByte([scan EXCEPT !.escape = <<>>], ByteOf(raw[2], raw[3])) \in TextScan
  BY <1>7, <1>8, <1>9, TakeByteKeeps
<1> QED
  BY <1>3, <1>5, <1>6, <1>9

(* The scan of a text.                                                    *)
TextFrom(start, raw) == ScanOf(ScanByte, start, raw)

LEMMA TextFromIsAScan ==
  ASSUME NEW start \in TextScan, NEW raw \in Seq(Symbol)
  PROVE  TextFrom(start, raw) = Scan([x \in TextScan \X Symbol |-> ScanByte(x[1], x[2])], start, raw)
<1> DEFINE take == [x \in TextScan \X Symbol |-> ScanByte(x[1], x[2])]
           f == Run(take, start, raw)
           eq(after) == [i \in 0 .. Len(raw) |-> IF i = 0 THEN start ELSE ScanByte(after[i - 1], raw[i])]
           h == CHOOSE after : after = eq(after)
<1>1. Len(raw) \in Nat /\ \A n \in 1 .. Len(raw) : raw[n] \in Symbol
  BY LenProperties, ElementOfSeq
<1>2. take \in [TextScan \X Symbol -> TextScan]
  BY ScanByteKeeps
<1>3. \A s \in TextScan, c \in Symbol : take[<<s, c>>] = ScanByte(s, c)
  OBVIOUS
<1>4. Scan(take, start, raw) = f[Len(raw)]
  BY ScanIsRun
<1>5. TextFrom(start, raw) = h[Len(raw)]
  BY DEF TextFrom, ScanOf
<1>6. IsARun(TextScan, take, start, raw, f)
  <2> HIDE DEF take
  <2> QED
    BY <1>2, RunIs
<1> HIDE DEF take, f
<1>7. f \in [0 .. Len(raw) -> TextScan] /\ f[0] = start
  BY <1>6 DEF IsARun
<1>8. \A n \in 1 .. Len(raw) : f[n] = ScanByte(f[n - 1], raw[n])
  <2> TAKE n \in 1 .. Len(raw)
  <2>1. n - 1 \in 0 .. Len(raw)
    BY <1>1
  <2>2. f[n - 1] \in TextScan /\ raw[n] \in Symbol
    BY <1>1, <1>7, <2>1
  <2>3. f[n] = take[<<f[n - 1], raw[n]>>]
    BY <1>6 DEF IsARun
  <2> QED
    BY <1>3, <2>2, <2>3
<1>9. f = eq(f)
  <2>1. \A i \in 0 .. Len(raw) : f[i] = IF i = 0 THEN start ELSE ScanByte(f[i - 1], raw[i])
    BY <1>1, <1>7, <1>8
  <2>2. f = [i \in 0 .. Len(raw) |-> f[i]]
    BY <1>7
  <2> QED
    BY <2>1, <2>2
<1>10. h = eq(h)
  <2> HIDE DEF eq
  <2> QED
    BY <1>9
<1> HIDE DEF h
<1>11. h[0] = start /\ \A n \in 1 .. Len(raw) : h[n] = ScanByte(h[n - 1], raw[n])
  BY <1>1, <1>10
<1>12. f[Len(raw)] = h[Len(raw)]
  <2> HIDE DEF eq
  <2>1. \A n \in 1 .. Len(raw) : f[n - 1] = h[n - 1] => f[n] = h[n]
    BY <1>8, <1>11
  <2>2. f[0] = h[0]
    BY <1>7, <1>11
  <2> QED
    BY <1>1, <2>1, <2>2, RecursionIsUnique
<1> QED
  BY <1>4, <1>5, <1>12 DEF take

LEMMA TextFromSteps ==
  ASSUME NEW start \in TextScan
  PROVE  /\ TextFrom(start, <<>>) = start
         /\ \A s \in Seq(Symbol) : TextFrom(start, s) \in TextScan
         /\ \A s \in Seq(Symbol) : \A c \in Symbol :
              TextFrom(start, Append(s, c)) = ScanByte(TextFrom(start, s), c)
         /\ \A s \in Seq(Symbol) : \A t \in Seq(Symbol) :
              TextFrom(start, s \o t) = TextFrom(TextFrom(start, s), t)
<1> DEFINE take == [x \in TextScan \X Symbol |-> ScanByte(x[1], x[2])]
<1>1. take \in Takes(TextScan, Symbol)
  BY ScanByteKeeps DEF Takes
<1>2. \A s \in TextScan, c \in Symbol : take[<<s, c>>] = ScanByte(s, c)
  OBVIOUS
<1>3. \A begin \in TextScan : \A s \in Seq(Symbol) : TextFrom(begin, s) = Scan(take, begin, s)
  BY TextFromIsAScan
<1> HIDE DEF take
<1>4. Stepwise(TextScan, Symbol, take, start)
  BY <1>1, ScanIsStepwise
<1>5. \A s \in Seq(Symbol) : TextFrom(start, s) \in TextScan
  BY <1>3, <1>4 DEF Stepwise
<1>6. TextFrom(start, <<>>) = start
  <2>1. <<>> \in Seq(Symbol)
    OBVIOUS
  <2> QED
    BY <1>3, <1>4, <2>1 DEF Stepwise
<1>7. ASSUME NEW s \in Seq(Symbol), NEW c \in Symbol
      PROVE  TextFrom(start, Append(s, c)) = ScanByte(TextFrom(start, s), c)
  <2>1. Append(s, c) \in Seq(Symbol)
    BY AppendProperties
  <2>2. Scan(take, start, Append(s, c)) = take[<<Scan(take, start, s), c>>]
    BY <1>4 DEF Stepwise
  <2> QED
    BY <1>2, <1>3, <1>5, <2>1, <2>2
<1>8. ASSUME NEW s \in Seq(Symbol), NEW t \in Seq(Symbol)
      PROVE  TextFrom(start, s \o t) = TextFrom(TextFrom(start, s), t)
  <2>1. s \o t \in Seq(Symbol)
    BY ConcatProperties
  <2>2. Scan(take, start, s \o t) = Scan(take, Scan(take, start, s), t)
    BY <1>1, ScanOfAJoin
  <2> QED
    BY <1>3, <1>5, <2>1, <2>2
<1> QED
  BY <1>5, <1>6, <1>7, <1>8

LEMMA TextFromOne ==
  ASSUME NEW start \in TextScan, NEW c \in Symbol
  PROVE  TextFrom(start, <<c>>) = ScanByte(start, c)
<1>1. <<>> \in Seq(Symbol) /\ Append(<<>>, c) = <<c>>
  OBVIOUS
<1>2. TextFrom(start, Append(<<>>, c)) = ScanByte(TextFrom(start, <<>>), c)
  BY <1>1, TextFromSteps
<1> QED
  BY <1>1, <1>2, TextFromSteps

LEMMA TextFromThree ==
  ASSUME NEW start \in TextScan, NEW a \in Symbol, NEW b \in Symbol, NEW c \in Symbol
  PROVE  TextFrom(start, <<a, b, c>>) = ScanByte(ScanByte(ScanByte(start, a), b), c)
<1> DEFINE one == <<a>>
           two == <<a, b>>
<1>1. one \in Seq(Symbol) /\ two \in Seq(Symbol)
  OBVIOUS
<1>4. Append(one, b) = two /\ Append(two, c) = <<a, b, c>>
  BY ShortAppends
<1>5. TextFrom(start, one) = ScanByte(start, a)
  BY TextFromOne
<1> HIDE DEF one, two
<1>2. TextFrom(start, Append(one, b)) = ScanByte(TextFrom(start, one), b)
  BY <1>1, TextFromSteps
<1>3. TextFrom(start, Append(two, c)) = ScanByte(TextFrom(start, two), c)
  BY <1>1, TextFromSteps
<1> QED
  BY <1>2, <1>3, <1>4, <1>5

ReadUpTo(text, escape) == [error |-> "NONE", text |-> text, escape |-> escape]

ReadSoFar(text) == ReadUpTo(text, <<>>)

LEMMA ReadUpToIs ==
  ASSUME NEW t \in Seq(Character), NEW e \in Seq(Symbol)
  PROVE  ReadUpTo(t, e) \in TextScan
BY DEF TextScan, ReadUpTo

LEMMA ReadSoFarIs == ASSUME NEW t \in Seq(Character) PROVE ReadSoFar(t) \in TextScan
<1>1. <<>> \in Seq(Symbol)
  OBVIOUS
<1> QED
  BY <1>1, ReadUpToIs DEF ReadSoFar

(* One byte more, without an escape begun, and of each byte of an escape.  *)
LEMMA ScanByteIs ==
  ASSUME NEW t, NEW c, NEW h, NEW l
  PROVE  /\ c # Percent =>
              ScanByte(ReadSoFar(t), c) = TakeByte(ReadSoFar(t), IF IsUnreserved(c) THEN c ELSE -1)
         /\ ScanByte(ReadSoFar(t), Percent) = ReadUpTo(t, <<Percent>>)
         /\ ScanByte(ReadUpTo(t, <<Percent>>), h) = ReadUpTo(t, <<Percent, h>>)
         /\ ScanByte(ReadUpTo(t, <<Percent, h>>), l) = TakeByte(ReadSoFar(t), ByteOf(h, l))
<1>1. ASSUME NEW e, NEW x, NEW raw, raw = Append(e, x)
      PROVE  ScanByte(ReadUpTo(t, e), x) =
               IF raw[1] # Percent THEN TakeByte(ReadUpTo(t, e), IF IsUnreserved(x) THEN x ELSE -1)
               ELSE IF Len(raw) < 3 THEN ReadUpTo(t, raw)
               ELSE TakeByte(ReadSoFar(t), ByteOf(raw[2], raw[3]))
  <2>1. ReadUpTo(t, e).error = "NONE" /\ ReadUpTo(t, e).escape = e
    BY DEF ReadUpTo
  <2>2. \A f : [ReadUpTo(t, e) EXCEPT !.escape = f] = ReadUpTo(t, f)
    BY DEF ReadUpTo
  <2> QED
    BY <1>1, <2>1, <2>2 DEF ScanByte, ReadSoFar
<1>2. ASSUME NEW x PROVE <<x>> = Append(<<>>, x) /\ <<x>>[1] = x /\ Len(<<x>>) = 1
  OBVIOUS
<1>3. <<Percent, h>> = Append(<<Percent>>, h) /\ <<Percent, h, l>> = Append(<<Percent, h>>, l)
  BY ShortAppends
<1>4. \A x, y, z : /\ <<x, y>>[1] = x /\ Len(<<x, y>>) = 2
                  /\ <<x, y, z>>[1] = x /\ <<x, y, z>>[2] = y /\ <<x, y, z>>[3] = z
                  /\ Len(<<x, y, z>>) = 3
  OBVIOUS
<1>5. 1 < 3 /\ 2 < 3 /\ ~(3 < 3)
  OBVIOUS
<1>6. ASSUME c # Percent
      PROVE  ScanByte(ReadSoFar(t), c) = TakeByte(ReadSoFar(t), IF IsUnreserved(c) THEN c ELSE -1)
  <2> DEFINE raw == <<c>>
  <2>1. raw = Append(<<>>, c) /\ raw[1] = c
    BY <1>2
  <2> HIDE DEF raw
  <2>2. raw[1] # Percent
    BY <1>6, <2>1
  <2>3. ScanByte(ReadUpTo(t, <<>>), c) = TakeByte(ReadUpTo(t, <<>>), IF IsUnreserved(c) THEN c ELSE -1)
    BY <1>1, <2>1, <2>2, Zenon
  <2> QED
    BY <2>3 DEF ReadSoFar
<1>7. ScanByte(ReadSoFar(t), Percent) = ReadUpTo(t, <<Percent>>)
  <2> DEFINE raw == <<Percent>>
  <2>1. raw = Append(<<>>, Percent) /\ raw[1] = Percent /\ Len(raw) = 1
    BY <1>2
  <2> HIDE DEF raw
  <2>2. Len(raw) < 3
    BY <2>1
  <2>3. ScanByte(ReadUpTo(t, <<>>), Percent) = ReadUpTo(t, raw)
    BY <1>1, <2>1, <2>2, Zenon
  <2> QED
    BY <2>3 DEF ReadSoFar, raw
<1>8. ScanByte(ReadUpTo(t, <<Percent>>), h) = ReadUpTo(t, <<Percent, h>>)
  <2> DEFINE raw == <<Percent, h>>
             e == <<Percent>>
  <2>1. raw = Append(e, h) /\ raw[1] = Percent /\ Len(raw) = 2
    BY <1>3, <1>4
  <2> HIDE DEF raw, e
  <2>2. Len(raw) < 3
    BY <2>1
  <2>3. ScanByte(ReadUpTo(t, e), h) = ReadUpTo(t, raw)
    BY <1>1, <2>1, <2>2, Zenon
  <2> QED
    BY <2>3 DEF raw, e
<1>9. ScanByte(ReadUpTo(t, <<Percent, h>>), l) = TakeByte(ReadSoFar(t), ByteOf(h, l))
  <2> DEFINE raw == <<Percent, h, l>>
             e == <<Percent, h>>
  <2>1. raw = Append(e, l) /\ raw[1] = Percent /\ raw[2] = h /\ raw[3] = l /\ Len(raw) = 3
    BY <1>3, <1>4
  <2> HIDE DEF raw, e
  <2>2. ~(Len(raw) < 3)
    BY <2>1
  <2>3. ScanByte(ReadUpTo(t, e), l) = TakeByte(ReadSoFar(t), ByteOf(raw[2], raw[3]))
    BY <1>1, <2>1, <2>2, Zenon
  <2> QED
    BY <2>1, <2>3 DEF e
<1> QED
  BY <1>6, <1>7, <1>8, <1>9

LEMMA LastOfAnEscape ==
  ASSUME NEW t, NEW h, NEW l
  PROVE  ScanByte(ReadUpTo(t, <<Percent, h>>), l) = TakeByte(ReadSoFar(t), ByteOf(h, l))
  BY ScanByteIs

(* A byte's spelling is read as the byte.                                  *)
LEMMA EscapeIsRead ==
  ASSUME NEW t \in Seq(Character), NEW c \in Character, Len(t) < MaxTextLength
  PROVE  TextFrom(ReadSoFar(t), EscapedByte(c)) = ReadSoFar(Append(t, c))
<1> DEFINE st == ReadSoFar(t)
<1>1. st \in TextScan /\ c \in Symbol /\ c \in 32 .. 126 /\ Percent \in Symbol
  <2>1. st \in TextScan
    BY ReadSoFarIs
  <2>2. c \in Symbol
    BY CharactersAreSymbols
  <2>4. c \in 32 .. 126
    BY DEF Character
  <2>3. Percent \in 0 .. 255
    BY DEF Percent
  <2> QED
    BY <2>1, <2>2, <2>3, <2>4, CharactersAreSymbols
<1>2. MaxTextLength \in Nat /\ Len(t) \in Nat
  BY CodecAssumption, LenProperties
<1>3. TakeByte(st, c) = ReadSoFar(Append(t, c))
  <2>1. ~(Len(t) >= MaxTextLength)
    BY <1>2
  <2> QED
    BY <1>1, <2>1 DEF TakeByte, ReadSoFar, ReadUpTo
<1> HIDE DEF st
<1>4. CASE IsUnreserved(c)
  <2>1. c # Percent
    BY <1>1, <1>4 DEF IsUnreserved, Digit, UpperCase, LowerCase, Percent
  <2>2. ScanByte(st, c) = TakeByte(st, c)
    BY <1>4, <2>1, ScanByteIs DEF st
  <2>3. EscapedByte(c) = <<c>>
    BY <1>4 DEF EscapedByte
  <2> QED
    BY <1>1, <1>3, <2>2, <2>3, TextFromOne DEF st
<1>5. CASE ~IsUnreserved(c)
  <2> DEFINE h == HexDigit(c \div 16)
             l == HexDigit(c % 16)
  <2>1. h \in 48 .. 70 /\ l \in 48 .. 70 /\ ByteOf(h, l) = c /\ EscapedByte(c) = <<Percent, h, l>>
    BY <1>5, EscapesAreSymbols
  <2> HIDE DEF h, l
  <2>4. h \in 0 .. 255 /\ l \in 0 .. 255
    BY <2>1
  <2>2. h \in Symbol /\ l \in Symbol
    BY <2>4, CharactersAreSymbols
  <2>5. ScanByte(st, Percent) = ReadUpTo(t, <<Percent>>)
    BY ScanByteIs DEF st
  <2>6. ScanByte(ReadUpTo(t, <<Percent>>), h) = ReadUpTo(t, <<Percent, h>>)
    BY ScanByteIs
  <2>7. ScanByte(ReadUpTo(t, <<Percent, h>>), l) = TakeByte(st, ByteOf(h, l))
    BY ScanByteIs DEF st
  <2>3. ScanByte(ScanByte(ScanByte(st, Percent), h), l) = TakeByte(st, c)
    BY <2>1, <2>5, <2>6, <2>7
  <2> QED
    BY <1>1, <1>3, <2>1, <2>2, <2>3, TextFromThree DEF st
<1> QED
  BY <1>4, <1>5

(* A text's spelling is read as the text, and nothing is left over.        *)
LEMMA EncodedTextIsRead ==
  ASSUME NEW text \in Seq(Character), Len(text) <= MaxTextLength
  PROVE  TextFrom(ReadSoFar(<<>>), PercentEncode(text)) = ReadSoFar(text)
<1> DEFINE T == {t \in Seq(Character) :
                   Len(t) <= MaxTextLength =>
                     TextFrom(ReadSoFar(<<>>), PercentEncode(t)) = ReadSoFar(t)}
<1>1. <<>> \in Seq(Character) /\ ReadSoFar(<<>>) \in TextScan
  <2>1. <<>> \in Seq(Character)
    OBVIOUS
  <2> QED
    BY <2>1, ReadSoFarIs
<1>2. <<>> \in T
  BY <1>1, PercentEncodeSteps, TextFromSteps
<1>3. ASSUME NEW t \in T, NEW c \in Character PROVE Append(t, c) \in T
  <2>1. /\ t \in Seq(Character) /\ Append(t, c) \in Seq(Character)
        /\ Len(Append(t, c)) = Len(t) + 1 /\ Len(t) \in Nat
    BY AppendProperties, LenProperties
  <2>2. ASSUME Len(Append(t, c)) <= MaxTextLength
        PROVE  TextFrom(ReadSoFar(<<>>), PercentEncode(Append(t, c))) = ReadSoFar(Append(t, c))
    <3>1. Len(t) < MaxTextLength /\ Len(t) <= MaxTextLength
      BY <2>1, <2>2, CodecAssumption
    <3>2. PercentEncode(Append(t, c)) = PercentEncode(t) \o EscapedByte(c)
      BY <2>1, PercentEncodeSteps
    <3>3. PercentEncode(t) \in Seq(Symbol) /\ EscapedByte(c) \in Seq(Symbol)
      BY <2>1, PercentEncodeSteps, EscapesAreSymbols
    <3>4. TextFrom(ReadSoFar(<<>>), PercentEncode(t)) = ReadSoFar(t)
      BY <3>1
    <3>5. TextFrom(ReadSoFar(<<>>), PercentEncode(t) \o EscapedByte(c))
            = TextFrom(TextFrom(ReadSoFar(<<>>), PercentEncode(t)), EscapedByte(c))
      BY <1>1, <3>3, TextFromSteps
    <3>6. TextFrom(ReadSoFar(t), EscapedByte(c)) = ReadSoFar(Append(t, c))
      BY <2>1, <3>1, EscapeIsRead
    <3> QED
      BY <3>2, <3>4, <3>5, <3>6
  <2> QED
    BY <2>1, <2>2
<1>4. T = Seq(Character)
  <2>1. T \in SUBSET Seq(Character)
    OBVIOUS
  <2> HIDE DEF T
  <2> QED
    BY <1>2, <1>3, <2>1, EverySequenceIsReached
<1> QED
  BY <1>4

-----------------------------------------------------------------------------
(* Numbers: their digits, and the scan that reads them.                    *)
DigitChars == 48 .. 57

LEMMA DigitCharsAreSymbols ==
  /\ DigitChars \subseteq 0 .. 255 /\ DigitChars \subseteq Symbol
  /\ Seq(DigitChars) \subseteq Seq(Symbol)
<1>1. DigitChars \subseteq 0 .. 255
  BY DEF DigitChars
<1>2. DigitChars \subseteq Symbol
  BY <1>1, CharactersAreSymbols
<1>3. Seq(DigitChars) \subseteq Seq(Symbol)
  BY <1>2, SeqMonotonic
<1> QED
  BY <1>1, <1>2, <1>3

LEMMA TensAndOnes ==
  ASSUME NEW v \in Nat
  PROVE  /\ v \div 10 \in Nat /\ v % 10 \in 0 .. 9 /\ v = 10 * (v \div 10) + (v % 10)
         /\ 48 + (v % 10) \in DigitChars
         /\ v < 10 => 48 + v \in DigitChars
         /\ ~(v < 10) => v \div 10 < v /\ v \div 10 > 0
<1>1. v \div 10 \in Nat /\ v % 10 \in 0 .. 9 /\ v = 10 * (v \div 10) + (v % 10)
  OBVIOUS
<1>2. 48 + (v % 10) \in DigitChars
  BY <1>1 DEF DigitChars
<1>3. v < 10 => 48 + v \in DigitChars
  BY DEF DigitChars
<1>4. ~(v < 10) => v \div 10 < v /\ v \div 10 > 0
  BY <1>1
<1> QED
  BY <1>1, <1>2, <1>3, <1>4

(* The digits of a number, from those of its tens.                         *)
DigitsFrom(f, v) ==
  IF v < 10 THEN <<48 + v>> ELSE Append(f[v \div 10], 48 + (v % 10))

DigitsUpTo(n, f) ==
  f \in [0 .. n -> Seq(DigitChars)] /\ \A v \in 0 .. n : f[v] = DigitsFrom(f, v)

LEMMA DigitsAreUnique ==
  ASSUME NEW n \in Nat, NEW f, NEW m \in Nat, NEW g, DigitsUpTo(n, f), DigitsUpTo(m, g),
         NEW v \in 0 .. n, v <= m
  PROVE  f[v] = g[v]
<1> DEFINE T == {k \in Nat : \A u \in 0 .. k : u <= n /\ u <= m => f[u] = g[u]}
<1>1. ASSUME NEW u \in Nat, u <= n, u <= m,
             \A w \in Nat : w < u => f[w] = g[w]
      PROVE  f[u] = g[u]
  <2>1. u \in 0 .. n /\ u \in 0 .. m
    BY <1>1
  <2>2. f[u] = DigitsFrom(f, u) /\ g[u] = DigitsFrom(g, u)
    BY <2>1 DEF DigitsUpTo
  <2>3. ~(u < 10) => f[u \div 10] = g[u \div 10]
    BY <1>1, TensAndOnes
  <2> QED
    BY <2>2, <2>3 DEF DigitsFrom
<1>2. 0 \in T
  <2>1. \A w \in Nat : w < 0 => f[w] = g[w]
    OBVIOUS
  <2>2. f[0] = g[0]
    BY <1>1, <2>1
  <2> QED
    BY <2>2
<1>3. ASSUME NEW k \in T PROVE k + 1 \in T
  <2>1. \A u \in 0 .. k : u <= n /\ u <= m => f[u] = g[u]
    OBVIOUS
  <2>2. k \in Nat
    OBVIOUS
  <2>3. ASSUME k + 1 <= n, k + 1 <= m PROVE f[k + 1] = g[k + 1]
    <3>1. \A w \in Nat : w < k + 1 => f[w] = g[w]
      BY <2>1, <2>2, <2>3
    <3> QED
      BY <1>1, <2>2, <2>3, <3>1
  <2>4. \A u \in 0 .. k + 1 : u \in 0 .. k \/ u = k + 1
    BY <2>2
  <2> QED
    BY <2>1, <2>2, <2>3, <2>4
<1>4. T = Nat
  <2>1. T \in SUBSET Nat
    OBVIOUS
  <2> HIDE DEF T
  <2> QED
    BY <1>2, <1>3, <2>1, EveryNaturalIsReached
<1> QED
  BY <1>4

LEMMA DigitsOfExist == \A n \in Nat : \E f : DigitsUpTo(n, f)
<1> DEFINE T == {n \in Nat : \E f : DigitsUpTo(n, f)}
<1>1. 0 \in T
  <2> DEFINE f == [v \in 0 .. 0 |-> <<48 + v>>]
  <2>1. \A v \in 0 .. 0 : v < 10 /\ 48 + v \in DigitChars
    BY DEF DigitChars
  <2>2. \A v \in 0 .. 0 : <<48 + v>> \in Seq(DigitChars)
    BY <2>1
  <2>3. f \in [0 .. 0 -> Seq(DigitChars)] /\ \A v \in 0 .. 0 : f[v] = <<48 + v>>
    BY <2>2
  <2> HIDE DEF f
  <2>4. \A v \in 0 .. 0 : f[v] = DigitsFrom(f, v)
    BY <2>1, <2>3 DEF DigitsFrom
  <2>5. DigitsUpTo(0, f)
    BY <2>3, <2>4 DEF DigitsUpTo
  <2> QED
    BY <2>5
<1>2. ASSUME NEW n \in T PROVE n + 1 \in T
  <2>1. n \in Nat
    OBVIOUS
  <2>2. PICK f : DigitsUpTo(n, f)
    OBVIOUS
  <2>3. f \in [0 .. n -> Seq(DigitChars)] /\ \A v \in 0 .. n : f[v] = DigitsFrom(f, v)
    BY <2>2 DEF DigitsUpTo
  <2> DEFINE next == DigitsFrom(f, n + 1)
             g == [v \in 0 .. n + 1 |-> IF v = n + 1 THEN next ELSE f[v]]
  <2> HIDE DEF next, g
  <2>4. next \in Seq(DigitChars)
    <3>1. CASE n + 1 < 10
      <4>1. 48 + (n + 1) \in DigitChars
        BY <2>1, <3>1, TensAndOnes
      <4>2. next = <<48 + (n + 1)>>
        BY <3>1 DEF DigitsFrom, next
      <4> QED
        BY <4>1, <4>2
    <3>2. CASE ~(n + 1 < 10)
      <4>1. (n + 1) \div 10 \in 0 .. n /\ 48 + ((n + 1) % 10) \in DigitChars
        BY <2>1, <3>2, TensAndOnes
      <4>2. next = Append(f[(n + 1) \div 10], 48 + ((n + 1) % 10))
        BY <3>2 DEF DigitsFrom, next
      <4>3. f[(n + 1) \div 10] \in Seq(DigitChars)
        BY <2>3, <4>1
      <4> QED
        BY <4>1, <4>2, <4>3, AppendProperties
    <3> QED
      BY <3>1, <3>2
  <2>5. \A v \in 0 .. n + 1 : v # n + 1 => v \in 0 .. n
    BY <2>1
  <2>6. g \in [0 .. n + 1 -> Seq(DigitChars)] /\ g[n + 1] = next
        /\ \A v \in 0 .. n : g[v] = f[v]
    BY <2>1, <2>3, <2>4, <2>5 DEF g
  <2>7. \A v \in 0 .. n + 1 : DigitsFrom(g, v) = DigitsFrom(f, v)
    <3> TAKE v \in 0 .. n + 1
    <3>1. ~(v < 10) => v \div 10 \in 0 .. n
      BY <2>1, TensAndOnes
    <3> QED
      BY <2>6, <3>1 DEF DigitsFrom
  <2>8. \A v \in 0 .. n + 1 : g[v] = DigitsFrom(g, v)
    BY <2>3, <2>5, <2>6, <2>7 DEF next
  <2>9. DigitsUpTo(n + 1, g)
    BY <2>6, <2>8 DEF DigitsUpTo
  <2> QED
    BY <2>1, <2>9
<1>3. T = Nat
  <2>1. T \in SUBSET Nat
    OBVIOUS
  <2> HIDE DEF T
  <2> QED
    BY <1>1, <1>2, <2>1, EveryNaturalIsReached
<1> QED
  BY <1>3

(* So the digits are what their definition says.                           *)
LEMMA DigitsAre ==
  \A v \in Nat : /\ Digits[v] = DigitsFrom(Digits, v)
                 /\ Digits[v] \in Seq(DigitChars)
<1> DEFINE table(n) == CHOOSE f : DigitsUpTo(n, f)
           G == [v \in Nat |-> table(v)[v]]
           eq(f) == [v \in Nat |-> IF v < 10 THEN <<48 + v>>
                                   ELSE Append(f[v \div 10], 48 + (v % 10))]
<1>1. \A n \in Nat : DigitsUpTo(n, table(n))
  BY DigitsOfExist
<1> HIDE DEF table
<1>2. ASSUME NEW v \in Nat
      PROVE  G[v] = DigitsFrom(G, v) /\ G[v] \in Seq(DigitChars)
  <2>1. DigitsUpTo(v, table(v)) /\ v \in 0 .. v
    BY <1>1
  <2>2. table(v)[v] = DigitsFrom(table(v), v) /\ table(v)[v] \in Seq(DigitChars)
    BY <2>1 DEF DigitsUpTo
  <2>3. ~(v < 10) => table(v)[v \div 10] = G[v \div 10]
    <3> SUFFICES ASSUME ~(v < 10) PROVE table(v)[v \div 10] = G[v \div 10]
      OBVIOUS
    <3> DEFINE u == v \div 10
    <3>1. u \in Nat /\ u \in 0 .. v /\ u <= u
      BY TensAndOnes
    <3> HIDE DEF u
    <3>2. DigitsUpTo(u, table(u))
      BY <1>1, <3>1
    <3>3. table(v)[u] = table(u)[u]
      BY <2>1, <3>1, <3>2, DigitsAreUnique
    <3> QED
      BY <3>1, <3>3 DEF u
  <2> QED
    BY <2>2, <2>3 DEF DigitsFrom
<1>3. G = eq(G)
  BY <1>2 DEF DigitsFrom
<1>4. Digits = CHOOSE f : f = eq(f)
  BY DEF Digits
<1> HIDE DEF eq, G
<1>5. Digits = eq(Digits)
  BY <1>3, <1>4
<1>6. \A v \in Nat : Digits[v] = DigitsFrom(Digits, v)
  BY <1>5 DEF eq, DigitsFrom
<1> DEFINE T == {k \in Nat : \A u \in 0 .. k : Digits[u] \in Seq(DigitChars)}
<1>7. ASSUME NEW u \in Nat, \A w \in Nat : w < u => Digits[w] \in Seq(DigitChars)
      PROVE  Digits[u] \in Seq(DigitChars)
  <2>1. CASE u < 10
    <3>1. 48 + u \in DigitChars /\ Digits[u] = <<48 + u>>
      BY <1>6, <2>1, TensAndOnes DEF DigitsFrom
    <3> QED
      BY <3>1
  <2>2. CASE ~(u < 10)
    <3>1. u \div 10 \in Nat /\ u \div 10 < u /\ 48 + (u % 10) \in DigitChars
      BY <2>2, TensAndOnes
    <3>2. Digits[u] = Append(Digits[u \div 10], 48 + (u % 10))
      BY <1>6, <2>2 DEF DigitsFrom
    <3>3. Digits[u \div 10] \in Seq(DigitChars)
      BY <1>7, <3>1
    <3> QED
      BY <3>1, <3>2, <3>3, AppendProperties
  <2> QED
    BY <2>1, <2>2
<1>8. 0 \in T
  <2>1. \A w \in Nat : w < 0 => Digits[w] \in Seq(DigitChars)
    OBVIOUS
  <2>2. Digits[0] \in Seq(DigitChars)
    BY <1>7, <2>1
  <2> QED
    BY <2>2
<1>9. ASSUME NEW k \in T PROVE k + 1 \in T
  <2>1. k \in Nat /\ \A u \in 0 .. k : Digits[u] \in Seq(DigitChars)
    OBVIOUS
  <2>2. \A w \in Nat : w < k + 1 => Digits[w] \in Seq(DigitChars)
    BY <2>1
  <2>3. Digits[k + 1] \in Seq(DigitChars)
    BY <1>7, <2>1, <2>2
  <2>4. \A u \in 0 .. k + 1 : u \in 0 .. k \/ u = k + 1
    BY <2>1
  <2> QED
    BY <2>1, <2>3, <2>4
<1>10. T = Nat
  <2>1. T \in SUBSET Nat
    OBVIOUS
  <2> HIDE DEF T
  <2> QED
    BY <1>8, <1>9, <2>1, EveryNaturalIsReached
<1>11. \A v \in Nat : Digits[v] \in Seq(DigitChars)
  <2> TAKE v \in Nat
  <2>1. v \in T /\ v \in 0 .. v
    BY <1>10
  <2> QED
    BY <2>1
<1> QED
  BY <1>6, <1>11

LEMMA SmallRemainder == ASSUME NEW n \in Nat, NEW x \in 0 .. n PROVE x % (n + 1) = x
  OBVIOUS

LEMMA AppendDigitIs ==
  ASSUME NEW w \in Int, NEW c \in Symbol
  PROVE  /\ AppendDigit(w, c) \in Int /\ AppendDigit(w, c) >= -1
         /\ AppendDigit(w, c) >= 0 =>
              /\ w >= 0 /\ c \in DigitChars
              /\ AppendDigit(w, c) = 10 * w + (c - 48) /\ AppendDigit(w, c) <= UintMax
         /\ w >= 0 /\ c \in DigitChars /\ 10 * w + (c - 48) <= UintMax =>
              AppendDigit(w, c) = 10 * w + (c - 48)
<1>1. c \in Nat /\ UintMax \in Nat
  BY CodecAssumption DEF Symbol
<1> DEFINE d == c - 48
<1>2. CASE w < 0 \/ ~Digit(c)
  BY <1>1, <1>2 DEF AppendDigit, Digit, DigitChars
<1>3. CASE ~(w < 0 \/ ~Digit(c))
  <2>1. w \in Nat /\ c \in DigitChars /\ d \in 0 .. 9
    BY <1>1, <1>3 DEF Digit, DigitChars
  <2>2. AppendDigit(w, c) = IF w > (UintMax - d) \div 10 THEN -1 ELSE Times10Plus(w, d)
    BY <1>3 DEF AppendDigit
  <2> HIDE DEF d
  <2>3. w > (UintMax - d) \div 10 <=> 10 * w + d > UintMax
    BY <1>1, <2>1
  <2>4. ASSUME ~(10 * w + d > UintMax) PROVE Times10Plus(w, d) = 10 * w + d
    <3>1. w * 10 + d \in 0 .. UintMax
      BY <1>1, <2>1, <2>4
    <3>2. (w * 10 + d) % (UintMax + 1) = w * 10 + d
      BY <1>1, <3>1, SmallRemainder
    <3> QED
      BY <2>1, <3>2 DEF Times10Plus
  <2>5. CASE 10 * w + d > UintMax
    <3>1. AppendDigit(w, c) = -1
      BY <2>2, <2>3, <2>5
    <3> QED
      BY <1>1, <2>1, <2>5, <3>1 DEF d
  <2>6. CASE ~(10 * w + d > UintMax)
    <3>1. AppendDigit(w, c) = 10 * w + d
      BY <2>2, <2>3, <2>4, <2>6
    <3> QED
      BY <1>1, <2>1, <2>6, <3>1 DEF d
  <2> QED
    BY <2>5, <2>6
<1> QED
  BY <1>2, <1>3

LEMMA AppendDigitKeeps == \A w \in Int, c \in Symbol : AppendDigit(w, c) \in Int
BY AppendDigitIs

(* The scan of a number.                                                   *)
NumberFrom(start, raw) == ScanOf(AppendDigit, start, raw)

LEMMA NumberFromIsAScan ==
  ASSUME NEW start \in Int, NEW raw \in Seq(Symbol)
  PROVE  NumberFrom(start, raw) = Scan([x \in Int \X Symbol |-> AppendDigit(x[1], x[2])], start, raw)
<1> DEFINE take == [x \in Int \X Symbol |-> AppendDigit(x[1], x[2])]
           f == Run(take, start, raw)
           eq(after) == [i \in 0 .. Len(raw) |-> IF i = 0 THEN start ELSE AppendDigit(after[i - 1], raw[i])]
           h == CHOOSE after : after = eq(after)
<1>1. Len(raw) \in Nat /\ \A n \in 1 .. Len(raw) : raw[n] \in Symbol
  BY LenProperties, ElementOfSeq
<1>2. take \in [Int \X Symbol -> Int]
  BY AppendDigitKeeps
<1>3. \A s \in Int, c \in Symbol : take[<<s, c>>] = AppendDigit(s, c)
  OBVIOUS
<1>4. Scan(take, start, raw) = f[Len(raw)]
  BY ScanIsRun
<1>5. NumberFrom(start, raw) = h[Len(raw)]
  BY DEF NumberFrom, ScanOf
<1>6. IsARun(Int, take, start, raw, f)
  <2> HIDE DEF take
  <2> QED
    BY <1>2, RunIs
<1> HIDE DEF take, f
<1>7. f \in [0 .. Len(raw) -> Int] /\ f[0] = start
  BY <1>6 DEF IsARun
<1>8. \A n \in 1 .. Len(raw) : f[n] = AppendDigit(f[n - 1], raw[n])
  <2> TAKE n \in 1 .. Len(raw)
  <2>1. n - 1 \in 0 .. Len(raw)
    BY <1>1
  <2>2. f[n - 1] \in Int /\ raw[n] \in Symbol
    BY <1>1, <1>7, <2>1
  <2>3. f[n] = take[<<f[n - 1], raw[n]>>]
    BY <1>6 DEF IsARun
  <2> QED
    BY <1>3, <2>2, <2>3
<1>9. f = eq(f)
  <2>1. \A i \in 0 .. Len(raw) : f[i] = IF i = 0 THEN start ELSE AppendDigit(f[i - 1], raw[i])
    BY <1>1, <1>7, <1>8
  <2>2. f = [i \in 0 .. Len(raw) |-> f[i]]
    BY <1>7
  <2> QED
    BY <2>1, <2>2
<1>10. h = eq(h)
  <2> HIDE DEF eq
  <2> QED
    BY <1>9
<1> HIDE DEF h
<1>11. h[0] = start /\ \A n \in 1 .. Len(raw) : h[n] = AppendDigit(h[n - 1], raw[n])
  BY <1>1, <1>10
<1>12. f[Len(raw)] = h[Len(raw)]
  <2> HIDE DEF eq
  <2>1. \A n \in 1 .. Len(raw) : f[n - 1] = h[n - 1] => f[n] = h[n]
    BY <1>8, <1>11
  <2>2. f[0] = h[0]
    BY <1>7, <1>11
  <2> QED
    BY <1>1, <2>1, <2>2, RecursionIsUnique
<1> QED
  BY <1>4, <1>5, <1>12 DEF take

LEMMA NumberFromSteps ==
  ASSUME NEW start \in Int
  PROVE  /\ NumberFrom(start, <<>>) = start
         /\ \A s \in Seq(Symbol) : NumberFrom(start, s) \in Int
         /\ \A s \in Seq(Symbol) : \A c \in Symbol :
              NumberFrom(start, Append(s, c)) = AppendDigit(NumberFrom(start, s), c)
         /\ \A s \in Seq(Symbol) : \A t \in Seq(Symbol) :
              NumberFrom(start, s \o t) = NumberFrom(NumberFrom(start, s), t)
<1> DEFINE take == [x \in Int \X Symbol |-> AppendDigit(x[1], x[2])]
<1>1. take \in Takes(Int, Symbol)
  BY AppendDigitKeeps DEF Takes
<1>2. \A s \in Int, c \in Symbol : take[<<s, c>>] = AppendDigit(s, c)
  OBVIOUS
<1>3. \A begin \in Int : \A s \in Seq(Symbol) : NumberFrom(begin, s) = Scan(take, begin, s)
  BY NumberFromIsAScan
<1> HIDE DEF take
<1>4. Stepwise(Int, Symbol, take, start)
  BY <1>1, ScanIsStepwise
<1>5. \A s \in Seq(Symbol) : NumberFrom(start, s) \in Int
  BY <1>3, <1>4 DEF Stepwise
<1>6. NumberFrom(start, <<>>) = start
  <2>1. <<>> \in Seq(Symbol)
    OBVIOUS
  <2> QED
    BY <1>3, <1>4, <2>1 DEF Stepwise
<1>7. ASSUME NEW s \in Seq(Symbol), NEW c \in Symbol
      PROVE  NumberFrom(start, Append(s, c)) = AppendDigit(NumberFrom(start, s), c)
  <2>1. Append(s, c) \in Seq(Symbol)
    BY AppendProperties
  <2>2. Scan(take, start, Append(s, c)) = take[<<Scan(take, start, s), c>>]
    BY <1>4 DEF Stepwise
  <2> QED
    BY <1>2, <1>3, <1>5, <2>1, <2>2
<1>8. ASSUME NEW s \in Seq(Symbol), NEW t \in Seq(Symbol)
      PROVE  NumberFrom(start, s \o t) = NumberFrom(NumberFrom(start, s), t)
  <2>1. s \o t \in Seq(Symbol)
    BY ConcatProperties
  <2>2. Scan(take, start, s \o t) = Scan(take, Scan(take, start, s), t)
    BY <1>1, ScanOfAJoin
  <2> QED
    BY <1>3, <1>5, <2>1, <2>2
<1> QED
  BY <1>5, <1>6, <1>7, <1>8

LEMMA NumberOfOne ==
  ASSUME NEW c \in Symbol
  PROVE  NumberFrom(0, <<c>>) = AppendDigit(0, c)
<1>1. <<>> \in Seq(Symbol) /\ Append(<<>>, c) = <<c>> /\ 0 \in Int
  OBVIOUS
<1>2. NumberFrom(0, Append(<<>>, c)) = AppendDigit(NumberFrom(0, <<>>), c)
  BY <1>1, NumberFromSteps
<1> QED
  BY <1>1, <1>2, NumberFromSteps

(* A number's digits are read as the number.                               *)
LEMMA DigitsAreRead == \A v \in 0 .. UintMax : NumberFrom(0, Digits[v]) = v
<1> DEFINE T == {k \in Nat : \A u \in 0 .. k : u <= UintMax => NumberFrom(0, Digits[u]) = u}
<1>1. UintMax \in Nat /\ 0 \in Int
  BY CodecAssumption
<1>2. ASSUME NEW u \in Nat, u <= UintMax,
             \A w \in Nat : w < u => NumberFrom(0, Digits[w]) = w
      PROVE  NumberFrom(0, Digits[u]) = u
  <2>1. CASE u < 10
    <3>1. Digits[u] = <<48 + u>> /\ 48 + u \in DigitChars /\ 48 + u \in Symbol
      BY <2>1, DigitsAre, TensAndOnes, DigitCharsAreSymbols DEF DigitsFrom
    <3>2. AppendDigit(0, 48 + u) = u
      <4>1. 10 * 0 + ((48 + u) - 48) = u
        OBVIOUS
      <4> QED
        BY <1>2, <3>1, <4>1, AppendDigitIs
    <3> QED
      BY <3>1, <3>2, NumberOfOne
  <2>2. CASE ~(u < 10)
    <3> DEFINE w == u \div 10
               c == 48 + (u % 10)
    <3>1. w \in Nat /\ w < u /\ c \in DigitChars /\ u = 10 * w + (c - 48)
      BY <2>2, TensAndOnes
    <3>2. Digits[u] = Append(Digits[w], c) /\ Digits[w] \in Seq(Symbol) /\ c \in Symbol
      BY <2>2, <3>1, DigitsAre, DigitCharsAreSymbols DEF DigitsFrom
    <3> HIDE DEF w, c
    <3>3. NumberFrom(0, Digits[w]) = w
      BY <1>2, <3>1
    <3>4. NumberFrom(0, Append(Digits[w], c)) = AppendDigit(NumberFrom(0, Digits[w]), c)
      BY <1>1, <3>2, NumberFromSteps
    <3>5. AppendDigit(w, c) = u
      BY <1>2, <3>1, <3>2, AppendDigitIs
    <3> QED
      BY <3>2, <3>3, <3>4, <3>5
  <2> QED
    BY <2>1, <2>2
<1>3. 0 \in T
  <2>1. \A w \in Nat : w < 0 => NumberFrom(0, Digits[w]) = w
    OBVIOUS
  <2>2. NumberFrom(0, Digits[0]) = 0
    BY <1>1, <1>2, <2>1
  <2> QED
    BY <2>2
<1>4. ASSUME NEW k \in T PROVE k + 1 \in T
  <2>1. k \in Nat /\ \A u \in 0 .. k : u <= UintMax => NumberFrom(0, Digits[u]) = u
    OBVIOUS
  <2>2. ASSUME k + 1 <= UintMax PROVE NumberFrom(0, Digits[k + 1]) = k + 1
    <3>1. \A w \in Nat : w < k + 1 => NumberFrom(0, Digits[w]) = w
      BY <1>1, <2>1, <2>2
    <3> QED
      BY <1>2, <2>1, <2>2, <3>1
  <2>3. \A u \in 0 .. k + 1 : u \in 0 .. k \/ u = k + 1
    BY <2>1
  <2> QED
    BY <2>1, <2>2, <2>3
<1>5. T = Nat
  <2>1. T \in SUBSET Nat
    OBVIOUS
  <2> HIDE DEF T
  <2> QED
    BY <1>3, <1>4, <2>1, EveryNaturalIsReached
<1>6. ASSUME NEW v \in 0 .. UintMax PROVE NumberFrom(0, Digits[v]) = v
  <2>1. v \in T /\ v \in 0 .. v /\ v <= UintMax
    BY <1>1, <1>5
  <2> QED
    BY <2>1
<1> QED
  BY <1>6
(* What holds of a number when it does of those below it.                  *)
LEMMA EveryNaturalByThoseBelow ==
  ASSUME NEW S \in SUBSET Nat,
         \A u \in Nat : (\A w \in Nat : w < u => w \in S) => u \in S
  PROVE  S = Nat
<1> DEFINE T == {k \in Nat : \A u \in 0 .. k : u \in S}
<1>1. 0 \in T
  <2>1. \A w \in Nat : w < 0 => w \in S
    OBVIOUS
  <2>2. 0 \in S
    BY <2>1
  <2> QED
    BY <2>2
<1>2. ASSUME NEW k \in T PROVE k + 1 \in T
  <2>1. k \in Nat /\ \A u \in 0 .. k : u \in S
    OBVIOUS
  <2>2. \A w \in Nat : w < k + 1 => w \in S
    BY <2>1
  <2>3. k + 1 \in S
    BY <2>1, <2>2
  <2>4. \A u \in 0 .. k + 1 : u \in 0 .. k \/ u = k + 1
    BY <2>1
  <2> QED
    BY <2>1, <2>3, <2>4
<1>3. T = Nat
  <2>1. T \in SUBSET Nat
    OBVIOUS
  <2> HIDE DEF T
  <2> QED
    BY <1>1, <1>2, <2>1, EveryNaturalIsReached
<1>4. \A v \in Nat : v \in S
  <2> TAKE v \in Nat
  <2>1. v \in T /\ v \in 0 .. v
    BY <1>3
  <2> QED
    BY <2>1
<1> QED
  BY <1>4

LEMMA DigitsInTwo ==
  ASSUME NEW v \in Nat
  PROVE  /\ v < 10 => Digits[v] = <<48 + v>> /\ Len(Digits[v]) = 1 /\ Digits[v][1] = 48 + v
         /\ ~(v < 10) =>
              /\ Digits[v] = Append(Digits[v \div 10], 48 + (v % 10))
              /\ Len(Digits[v]) = Len(Digits[v \div 10]) + 1
              /\ Len(Digits[v \div 10]) >= 1 => Digits[v][1] = Digits[v \div 10][1]
         /\ Len(Digits[v]) \in Nat /\ Digits[v] \in Seq(DigitChars)
<1>1. Digits[v] = DigitsFrom(Digits, v) /\ Digits[v] \in Seq(DigitChars) /\ Len(Digits[v]) \in Nat
  BY DigitsAre, LenProperties
<1>2. CASE v < 10
  <2>1. Digits[v] = <<48 + v>>
    BY <1>1, <1>2 DEF DigitsFrom
  <2> QED
    BY <1>1, <1>2, <2>1
<1>3. CASE ~(v < 10)
  <2> DEFINE w == v \div 10
             c == 48 + (v % 10)
  <2>1. w \in Nat /\ c \in DigitChars
    BY TensAndOnes
  <2>2. Digits[v] = Append(Digits[w], c)
    BY <1>1, <1>3 DEF DigitsFrom
  <2>3. Digits[w] \in Seq(DigitChars)
    BY <2>1, DigitsAre
  <2> HIDE DEF w, c
  <2>4. /\ Len(Append(Digits[w], c)) = Len(Digits[w]) + 1 /\ Len(Digits[w]) \in Nat
        /\ \A i \in 1 .. Len(Digits[w]) : Append(Digits[w], c)[i] = Digits[w][i]
    BY <2>1, <2>3, AppendProperties, LenProperties
  <2>5. Len(Digits[w]) >= 1 => Digits[v][1] = Digits[w][1]
    BY <2>2, <2>4
  <2> QED
    BY <1>1, <1>3, <2>2, <2>4, <2>5 DEF w, c
<1> QED
  BY <1>2, <1>3

(* Only nought begins with a nought.                                       *)
LEMMA DigitsStart ==
  \A v \in Nat : Len(Digits[v]) >= 1 /\ (Digits[v][1] = 48 <=> v = 0)
<1> DEFINE S == {v \in Nat : Len(Digits[v]) >= 1 /\ (Digits[v][1] = 48 <=> v = 0)}
<1>1. ASSUME NEW u \in Nat, \A w \in Nat : w < u => w \in S PROVE u \in S
  <2>1. CASE u < 10
    <3>1. Len(Digits[u]) = 1 /\ Digits[u][1] = 48 + u
      BY <2>1, DigitsInTwo
    <3>2. Len(Digits[u]) >= 1 /\ (Digits[u][1] = 48 <=> u = 0)
      BY <3>1
    <3> QED
      BY <3>2
  <2>2. CASE ~(u < 10)
    <3>1. u \div 10 \in Nat /\ u \div 10 < u /\ u \div 10 > 0
      BY <2>2, TensAndOnes
    <3>2. u \div 10 \in S
      BY <1>1, <3>1
    <3>3. Len(Digits[u \div 10]) >= 1 /\ Digits[u \div 10][1] # 48
      BY <3>1, <3>2
    <3>4. /\ Len(Digits[u]) = Len(Digits[u \div 10]) + 1 /\ Digits[u][1] = Digits[u \div 10][1]
          /\ Len(Digits[u \div 10]) \in Nat
      BY <2>2, <3>1, <3>3, DigitsInTwo
    <3> QED
      BY <2>2, <3>3, <3>4
  <2> QED
    BY <2>1, <2>2
<1>2. S = Nat
  <2>1. S \in SUBSET Nat
    OBVIOUS
  <2> HIDE DEF S
  <2> QED
    BY <1>1, <2>1, EveryNaturalByThoseBelow
<1> QED
  BY <1>2

LEMMA DigitsGrow ==
  \A w \in Nat : \A v \in 0 .. w : Len(Digits[v]) <= Len(Digits[w])
<1> DEFINE S == {w \in Nat : \A v \in 0 .. w : Len(Digits[v]) <= Len(Digits[w])}
<1>1. ASSUME NEW u \in Nat, \A w \in Nat : w < u => w \in S PROVE u \in S
  <2>1. ASSUME NEW v \in 0 .. u PROVE Len(Digits[v]) <= Len(Digits[u])
    <3>3. v \in Nat
      OBVIOUS
    <3>1. CASE v < 10
      <4>1. Len(Digits[v]) = 1 /\ Len(Digits[u]) >= 1
        BY <3>1, <3>3, DigitsInTwo, DigitsStart
      <4>2. Len(Digits[u]) \in Nat
        BY DigitsInTwo
      <4> QED
        BY <4>1, <4>2
    <3>2. CASE ~(v < 10)
      <4>1. ~(u < 10)
        BY <3>2
      <4>2. u \div 10 \in Nat /\ u \div 10 < u /\ v \div 10 \in 0 .. u \div 10
        BY <4>1, TensAndOnes
      <4>3. Len(Digits[v \div 10]) <= Len(Digits[u \div 10])
        BY <1>1, <4>2
      <4>4. Len(Digits[u]) = Len(Digits[u \div 10]) + 1
        BY <4>1, DigitsInTwo
      <4>5. Len(Digits[v]) = Len(Digits[v \div 10]) + 1
        BY <3>2, <3>3, DigitsInTwo
      <4>6. Len(Digits[u \div 10]) \in Nat /\ Len(Digits[v \div 10]) \in Nat
        BY <4>2, DigitsInTwo
      <4> QED
        BY <4>3, <4>4, <4>5, <4>6
    <3> QED
      BY <3>1, <3>2
  <2> QED
    BY <2>1
<1>2. S = Nat
  <2>1. S \in SUBSET Nat
    OBVIOUS
  <2> HIDE DEF S
  <2> QED
    BY <1>1, <2>1, EveryNaturalByThoseBelow
<1> QED
  BY <1>2

LEMMA SmallNumbersAreShort == \A v \in Nat : v <= 9999 => Len(Digits[v]) <= 4
<1>1. ASSUME NEW v \in Nat, NEW w \in Nat, ~(v < 10), v \div 10 = w
      PROVE  Len(Digits[v]) = Len(Digits[w]) + 1
  BY <1>1, DigitsInTwo
<1>2. 9 \in Nat /\ 9 < 10
  OBVIOUS
<1>3. Len(Digits[9]) = 1
  BY <1>2, DigitsInTwo
<1>4. 99 \in Nat /\ ~(99 < 10) /\ 99 \div 10 = 9
  OBVIOUS
<1>5. Len(Digits[99]) = Len(Digits[9]) + 1
  BY <1>1, <1>2, <1>4
<1>6. 999 \in Nat /\ ~(999 < 10) /\ 999 \div 10 = 99
  OBVIOUS
<1>7. Len(Digits[999]) = Len(Digits[99]) + 1
  BY <1>1, <1>4, <1>6
<1>8. 9999 \in Nat /\ ~(9999 < 10) /\ 9999 \div 10 = 999
  OBVIOUS
<1>9. Len(Digits[9999]) = Len(Digits[999]) + 1
  BY <1>1, <1>6, <1>8
<1>10. Len(Digits[9999]) = 4
  BY <1>3, <1>5, <1>7, <1>9
<1> DEFINE n == 9999
<1>11. n \in Nat /\ Len(Digits[n]) = 4
  BY <1>8, <1>10
<1> HIDE DEF n
<1>12. ASSUME NEW v \in Nat, v <= n PROVE Len(Digits[v]) <= 4
  <2>1. v \in 0 .. n
    BY <1>11, <1>12
  <2>2. Len(Digits[v]) <= Len(Digits[n])
    BY <1>11, <2>1, DigitsGrow
  <2> QED
    BY <1>11, <2>2
<1> QED
  BY <1>12 DEF n

(* The digits of a number the table allows are decoded as the number.      *)
LEMMA DecodesDigits == \A v \in 0 .. UintMax : DecodeUnsigned(Digits[v]) = v
<1> TAKE v \in 0 .. UintMax
<1>1. UintMax \in Nat /\ MaxIntegerDigits \in Nat /\ v \in Nat
  BY CodecAssumption
<1>2. Len(Digits[v]) \in Nat /\ Len(Digits[v]) >= 1
  BY <1>1, DigitsInTwo, DigitsStart
<1>3. Len(Digits[v]) <= Len(Digits[UintMax]) /\ Len(Digits[UintMax]) \in Nat
  BY <1>1, DigitsGrow, DigitsInTwo
<1>4. Len(Digits[v]) \in 1 .. MaxIntegerDigits
  BY <1>1, <1>2, <1>3, DigitsAssumption
<1>5. ~(Len(Digits[v]) > 1 /\ Digits[v][1] = 48)
  <2>1. CASE v < 10
    <3>1. Len(Digits[v]) = 1
      BY <1>1, <2>1, DigitsInTwo
    <3> QED
      BY <3>1
  <2>2. CASE ~(v < 10)
    <3>1. Digits[v][1] = 48 <=> v = 0
      BY <1>1, DigitsStart
    <3> QED
      BY <1>1, <2>2, <3>1
  <2> QED
    BY <2>1, <2>2
<1>6. NumberFrom(0, Digits[v]) = v
  BY DigitsAreRead
<1> QED
  BY <1>4, <1>5, <1>6 DEF DecodeUnsigned, NumberFrom

LEMMA TensOfASum ==
  ASSUME NEW w \in Nat, NEW d \in 0 .. 9
  PROVE  (10 * w + d) \div 10 = w /\ (10 * w + d) % 10 = d
<1> DEFINE v == 10 * w + d
<1>1. v \in Nat /\ v = 10 * w + d
  OBVIOUS
<1> HIDE DEF v
<1>2. v \div 10 \in Nat /\ v % 10 \in 0 .. 9 /\ v = 10 * (v \div 10) + (v % 10)
  BY <1>1
<1>3. v \div 10 = w /\ v % 10 = d
  BY <1>1, <1>2
<1> QED
  BY <1>3 DEF v

(* And only the digits of a number are decoded as one.                     *)
Unpadded(raw) == Len(raw) > 1 => raw[1] # 48

LEMMA WhatReadsAsANumber ==
  \A raw \in Seq(Symbol) :
    raw # <<>> /\ Unpadded(raw) /\ NumberFrom(0, raw) >= 0 =>
      NumberFrom(0, raw) \in 0 .. UintMax /\ Digits[NumberFrom(0, raw)] = raw
<1> DEFINE good(raw) == raw # <<>> /\ Unpadded(raw) /\ NumberFrom(0, raw) >= 0 =>
                          NumberFrom(0, raw) \in 0 .. UintMax /\ Digits[NumberFrom(0, raw)] = raw
           T == {raw \in Seq(Symbol) : good(raw)}
<1>1. <<>> \in T
  OBVIOUS
<1>2. ASSUME NEW raw \in T, NEW c \in Symbol PROVE Append(raw, c) \in T
  <2>1. raw \in Seq(Symbol) /\ good(raw) /\ 0 \in Int /\ UintMax \in Nat
    BY CodecAssumption
  <2> HIDE DEF good
  <2> DEFINE longer == Append(raw, c)
             w == NumberFrom(0, raw)
             v == NumberFrom(0, longer)
  <2>2. /\ longer \in Seq(Symbol) /\ Len(longer) = Len(raw) + 1 /\ Len(raw) \in Nat
        /\ \A i \in 1 .. Len(raw) : longer[i] = raw[i]
    BY <2>1, AppendProperties, LenProperties
  <2>8. c \in Nat
    BY DEF Symbol
  <2>3. v = AppendDigit(w, c) /\ w \in Int
    BY <2>1, NumberFromSteps
  <2>4. raw = <<>> => w = 0 /\ longer = <<c>>
    BY <2>1, NumberFromSteps
  <2>5. raw # <<>> => Len(raw) >= 1
    BY <2>1, <2>2, EmptySeq
  <2> HIDE DEF longer, w, v
  <2>6. ASSUME Unpadded(longer), v >= 0 PROVE v \in 0 .. UintMax /\ Digits[v] = longer
    <3>1. w >= 0 /\ c \in DigitChars /\ v = 10 * w + (c - 48) /\ v <= UintMax
      BY <2>3, <2>6, AppendDigitIs
    <3>2. v \in Nat /\ v \in 0 .. UintMax /\ c - 48 \in 0 .. 9
      BY <2>1, <2>3, <3>1 DEF DigitChars
    <3>3. CASE raw = <<>>
      <4>1. v = c - 48 /\ v < 10 /\ 48 + v = c
        BY <2>4, <2>8, <3>1, <3>2, <3>3
      <4> QED
        BY <2>4, <3>2, <3>3, <4>1, DigitsInTwo
    <3>4. CASE raw # <<>>
      <4>1. longer[1] # 48 /\ longer[1] = raw[1]
        BY <2>2, <2>5, <2>6, <3>4 DEF Unpadded
      <4>2. Unpadded(raw)
        BY <4>1 DEF Unpadded
      <4>3. w \in 0 .. UintMax /\ Digits[w] = raw
        BY <2>1, <3>1, <3>4, <4>2 DEF good, w
      <4>4. w # 0
        <5>1. w = 0 => Digits[w][1] = 48
          BY DigitsStart
        <5> QED
          BY <4>1, <4>3, <5>1
      <4>5. ~(v < 10) /\ v \div 10 = w /\ 48 + (v % 10) = c
        <5>1. w \in Nat /\ w >= 1 /\ v = 10 * w + (c - 48) /\ c - 48 \in 0 .. 9
          BY <2>1, <3>1, <3>2, <4>3, <4>4
        <5>2. v \div 10 = w /\ v % 10 = c - 48
          BY <5>1, TensOfASum
        <5> QED
          BY <2>8, <5>1, <5>2
      <4> QED
        BY <3>2, <4>3, <4>5, DigitsInTwo DEF longer
    <3> QED
      BY <3>3, <3>4
  <2>7. good(longer)
    BY <2>6 DEF good, v
  <2> QED
    BY <2>2, <2>7 DEF longer, good
<1>3. T = Seq(Symbol)
  <2>1. T \in SUBSET Seq(Symbol)
    OBVIOUS
  <2> HIDE DEF T
  <2> QED
    BY <1>1, <1>2, <2>1, EverySequenceIsReached
<1> QED
  BY <1>3

LEMMA DecodesOnlyDigits ==
  ASSUME NEW raw \in Seq(Symbol), DecodeUnsigned(raw) >= 0
  PROVE  DecodeUnsigned(raw) \in 0 .. UintMax /\ Digits[DecodeUnsigned(raw)] = raw
<1>1. /\ Len(raw) \in 1 .. MaxIntegerDigits /\ ~(Len(raw) > 1 /\ raw[1] = 48)
      /\ DecodeUnsigned(raw) = NumberFrom(0, raw)
  BY DEF DecodeUnsigned, NumberFrom
<1>2. raw # <<>> /\ Unpadded(raw)
  BY <1>1 DEF Unpadded
<1> QED
  BY <1>1, <1>2, WhatReadsAsANumber

LEMMA DecodedIsANumber == \A raw \in Seq(Symbol) : DecodeUnsigned(raw) \in Int
<1> TAKE raw \in Seq(Symbol)
<1>1. NumberFrom(0, raw) \in Int
  <2>1. 0 \in Int
    OBVIOUS
  <2> QED
    BY <2>1, NumberFromSteps
<1> QED
  BY <1>1 DEF DecodeUnsigned, NumberFrom

-----------------------------------------------------------------------------
(* Texts again: what reads as a text is its spelling, but for escapes.     *)
OverEscapes(raw) ==
  \E i \in 1 .. Len(raw) - 2 : raw[i] = Percent /\ IsUnreserved(ByteOf(raw[i + 1], raw[i + 2]))

LEMMA OverEscapesOfAJoin ==
  ASSUME NEW s \in Seq(Symbol), NEW t \in Seq(Symbol), OverEscapes(s) \/ OverEscapes(t)
  PROVE  OverEscapes(s \o t)
<1> DEFINE u == s \o t
<1>1. /\ u \in Seq(Symbol) /\ Len(u) = Len(s) + Len(t) /\ Len(s) \in Nat /\ Len(t) \in Nat
      /\ \A k \in 1 .. Len(s) + Len(t) : u[k] = IF k <= Len(s) THEN s[k] ELSE t[k - Len(s)]
  BY ConcatProperties, LenProperties
<1> HIDE DEF u
<1>2. CASE OverEscapes(s)
  <2>1. PICK i \in 1 .. Len(s) - 2 :
          s[i] = Percent /\ IsUnreserved(ByteOf(s[i + 1], s[i + 2]))
    BY <1>2 DEF OverEscapes
  <2>2. i \in 1 .. Len(u) - 2 /\ u[i] = s[i] /\ u[i + 1] = s[i + 1] /\ u[i + 2] = s[i + 2]
    BY <1>1
  <2> QED
    BY <2>1, <2>2 DEF OverEscapes, u
<1>3. CASE OverEscapes(t)
  <2>1. PICK i \in 1 .. Len(t) - 2 :
          t[i] = Percent /\ IsUnreserved(ByteOf(t[i + 1], t[i + 2]))
    BY <1>3 DEF OverEscapes
  <2> DEFINE j == Len(s) + i
  <2>2. /\ j \in 1 .. Len(u) - 2 /\ j + 2 \in 1 .. Len(s) + Len(t) /\ j + 1 \in 1 .. Len(s) + Len(t)
        /\ j \in 1 .. Len(s) + Len(t) /\ ~(j <= Len(s)) /\ ~(j + 1 <= Len(s)) /\ ~(j + 2 <= Len(s))
        /\ j - Len(s) = i /\ (j + 1) - Len(s) = i + 1 /\ (j + 2) - Len(s) = i + 2
    BY <1>1
  <2> HIDE DEF j
  <2>3. u[j] = t[i] /\ u[j + 1] = t[i + 1] /\ u[j + 2] = t[i + 2]
    BY <1>1, <2>2
  <2> QED
    BY <2>1, <2>2, <2>3 DEF OverEscapes, u
<1> QED
  BY <1>2, <1>3

LEMMA HexOfAByte ==
  ASSUME NEW h \in Symbol, NEW l \in Symbol, ByteOf(h, l) \in 32 .. 126
  PROVE  /\ h \in 0 .. 255 /\ l \in 0 .. 255
         /\ HexDigit(ByteOf(h, l) \div 16) = h /\ HexDigit(ByteOf(h, l) % 16) = l
<1>1. h \in Nat /\ l \in Nat
  BY DEF Symbol
<1>2. HexValue(h) >= 0 /\ HexValue(l) >= 0 /\ ByteOf(h, l) = 16 * HexValue(h) + HexValue(l)
  <2>1. HexValue(h) \in Int /\ HexValue(l) \in Int
    BY <1>1 DEF HexValue, Digit
  <2>2. ~(HexValue(h) < 0 \/ HexValue(l) < 0)
    BY DEF ByteOf
  <2> QED
    BY <2>1, <2>2 DEF ByteOf
<1>3. \A c \in Nat : HexValue(c) >= 0 =>
        c \in 0 .. 255 /\ HexValue(c) \in 0 .. 15 /\ HexDigit(HexValue(c)) = c
  BY DEF HexValue, HexDigit, Digit
<1>4. \A x \in 0 .. 15, y \in 0 .. 15 : (16 * x + y) \div 16 = x /\ (16 * x + y) % 16 = y
  <2> TAKE x \in 0 .. 15, y \in 0 .. 15
  <2> DEFINE v == 16 * x + y
  <2>1. v \in Nat /\ v = 16 * x + y
    OBVIOUS
  <2> HIDE DEF v
  <2>2. v \div 16 \in Nat /\ v % 16 \in 0 .. 15 /\ v = 16 * (v \div 16) + (v % 16)
    BY <2>1
  <2>3. v \div 16 = x /\ v % 16 = y
    BY <2>1, <2>2
  <2> QED
    BY <2>3 DEF v
<1> QED
  BY <1>1, <1>2, <1>3, <1>4

(* What stands before the escape begun is the text's spelling, or has an   *)
(* escape too many and is no shorter.                                      *)
Spells(p, t) ==
  /\ p \in Seq(Symbol) /\ t \in Seq(Character) /\ Len(t) <= MaxTextLength
  /\ p = PercentEncode(t) \/ OverEscapes(p)
  /\ Width(PercentEncode(t)) <= Width(p)

LEMMA SpellsMore ==
  ASSUME NEW p, NEW t, Spells(p, t), NEW s \in Seq(Symbol), NEW c \in Character,
         Len(t) < MaxTextLength, s = EscapedByte(c) \/ OverEscapes(s),
         Width(EscapedByte(c)) <= Width(s)
  PROVE  Spells(p \o s, Append(t, c))
<1>1. /\ p \in Seq(Symbol) /\ t \in Seq(Character) /\ (p = PercentEncode(t) \/ OverEscapes(p))
      /\ Width(PercentEncode(t)) <= Width(p)
  BY DEF Spells
<1>2. /\ PercentEncode(Append(t, c)) = PercentEncode(t) \o EscapedByte(c)
      /\ PercentEncode(t) \in Seq(Symbol) /\ EscapedByte(c) \in Seq(Symbol)
  BY <1>1, PercentEncodeSteps, EscapesAreSymbols
<1>3. /\ Append(t, c) \in Seq(Character) /\ Len(Append(t, c)) = Len(t) + 1 /\ Len(t) \in Nat
      /\ MaxTextLength \in Nat
  BY <1>1, AppendProperties, LenProperties, CodecAssumption
<1>4. Len(Append(t, c)) <= MaxTextLength
  BY <1>3
<1>5. p \o s \in Seq(Symbol)
  BY <1>1, ConcatProperties
<1>6. /\ Width(p \o s) = Width(p) + Width(s)
      /\ Width(PercentEncode(t) \o EscapedByte(c)) = Width(PercentEncode(t)) + Width(EscapedByte(c))
      /\ Width(p) \in Nat /\ Width(s) \in Nat
      /\ Width(PercentEncode(t)) \in Nat /\ Width(EscapedByte(c)) \in Nat
  BY <1>1, <1>2, WidthIsASum
<1>7. Width(PercentEncode(Append(t, c))) <= Width(p \o s)
  <2>1. Width(PercentEncode(Append(t, c))) = Width(PercentEncode(t)) + Width(EscapedByte(c))
    BY <1>2, <1>6
  <2>2. \A a, b, d, e \in Nat : a <= b /\ d <= e => a + d <= b + e
    OBVIOUS
  <2>3. Width(PercentEncode(t)) + Width(EscapedByte(c)) <= Width(p) + Width(s)
    BY <1>1, <1>6, <2>2
  <2> QED
    BY <1>6, <2>1, <2>3
<1>8. p \o s = PercentEncode(Append(t, c)) \/ OverEscapes(p \o s)
  <2>1. CASE p = PercentEncode(t) /\ s = EscapedByte(c)
    BY <1>2, <2>1
  <2>2. CASE OverEscapes(p) \/ OverEscapes(s)
    BY <1>1, <2>2, OverEscapesOfAJoin
  <2> QED
    BY <1>1, <2>1, <2>2
<1> QED
  BY <1>3, <1>4, <1>5, <1>7, <1>8 DEF Spells

LEMMA ByteIsTaken ==
  ASSUME NEW t \in Seq(Character), NEW b \in Int, TakeByte(ReadSoFar(t), b).error = "NONE"
  PROVE  /\ b \in Character /\ Len(t) < MaxTextLength
         /\ TakeByte(ReadSoFar(t), b) = ReadSoFar(Append(t, b))
<1>1. ReadSoFar(t).text = t /\ Len(t) \in Nat /\ MaxTextLength \in Nat
  BY CodecAssumption, LenProperties DEF ReadSoFar, ReadUpTo
<1>2. b \in 32 .. 126 /\ ~(Len(t) >= MaxTextLength)
  BY <1>1 DEF TakeByte, ReadSoFar, ReadUpTo
<1>3. TakeByte(ReadSoFar(t), b) = [ReadSoFar(t) EXCEPT !.text = Append(t, b)]
  BY <1>1, <1>2 DEF TakeByte
<1>4. [ReadSoFar(t) EXCEPT !.text = Append(t, b)] = ReadSoFar(Append(t, b))
  <2>1. \A e, u : [ReadUpTo(t, e) EXCEPT !.text = u] = ReadUpTo(u, e)
    BY DEF ReadUpTo
  <2> QED
    BY <2>1 DEF ReadSoFar
<1> QED
  BY <1>1, <1>2, <1>3, <1>4 DEF Character

EscapeBegun(e) == e = <<>> \/ e = <<Percent>> \/ \E h \in Symbol : e = <<Percent, h>>

ScannedAs(raw, st) ==
  st.error = "NONE" => EscapeBegun(st.escape) /\ \E p : Spells(p, st.text) /\ raw = p \o st.escape

LEMMA ScannedOneMore ==
  ASSUME NEW raw \in Seq(Symbol), NEW st \in TextScan, NEW c \in Symbol, ScannedAs(raw, st)
  PROVE  ScannedAs(Append(raw, c), ScanByte(st, c))
<1> DEFINE next == ScanByte(st, c)
<1>1. st.error # "NONE" => next = st
  BY DEF ScanByte
<1> HIDE DEF next
<1> SUFFICES ASSUME next.error = "NONE"
             PROVE  /\ EscapeBegun(next.escape)
                    /\ \E p : Spells(p, next.text) /\ Append(raw, c) = p \o next.escape
  BY DEF ScannedAs, next
<1>2. st.error = "NONE"
  BY <1>1
<1> DEFINE t == st.text
<1>3. PICK p : Spells(p, t) /\ raw = p \o st.escape
  BY <1>2 DEF ScannedAs
<1>4. EscapeBegun(st.escape)
  BY <1>2 DEF ScannedAs
<1>5. st = ReadUpTo(t, st.escape) /\ t \in Seq(Character)
  BY <1>2 DEF TextScan, ReadUpTo
<1>6. p \in Seq(Symbol)
  BY <1>3 DEF Spells
<1> HIDE DEF t
<1>7. Append(raw, c) = raw \o <<c>>
  BY AppendIsConcat
<1>8. WidthOf(c) \in Nat /\ <<c>> \in Seq(Symbol) /\ <<Percent>> \in Seq(Symbol)
  <2>1. Percent \in 0 .. 255
    BY DEF Percent
  <2>2. Percent \in Symbol
    BY <2>1, CharactersAreSymbols
  <2> QED
    BY <2>2, WidthsAreNatural
<1>9. \A text, e : ReadUpTo(text, e).text = text /\ ReadUpTo(text, e).escape = e
                   /\ ReadSoFar(text).text = text /\ ReadSoFar(text).escape = <<>>
  BY DEF ReadUpTo, ReadSoFar
<1>10. CASE st.escape = <<>> /\ c # Percent
  <2> DEFINE b == IF IsUnreserved(c) THEN c ELSE -1
  <2>1. st = ReadSoFar(t) /\ raw = p
    BY <1>3, <1>5, <1>6, <1>10, ConcatEmptySeq DEF ReadSoFar
  <2>11. c # Percent => ScanByte(ReadSoFar(t), c) = TakeByte(ReadSoFar(t), b)
    BY ScanByteIs
  <2>12. b \in Int
    BY DEF Symbol
  <2>2. next = TakeByte(ReadSoFar(t), b) /\ b \in Int
    BY <1>10, <2>1, <2>11, <2>12 DEF next
  <2> HIDE DEF b
  <2>3. b \in Character /\ Len(t) < MaxTextLength /\ next = ReadSoFar(Append(t, b))
    BY <1>5, <2>2, ByteIsTaken
  <2>4. b = c /\ IsUnreserved(c)
    BY <2>3 DEF b, Character
  <2>5. EscapedByte(b) = <<c>>
    BY <2>4 DEF EscapedByte
  <2>6. Width(EscapedByte(b)) <= Width(<<c>>)
    <3>1. Width(<<c>>) \in Nat
      BY <1>8, WidthIsASum
    <3> QED
      BY <2>5, <3>1
  <2>7. Spells(p \o <<c>>, Append(t, b))
    BY <1>3, <1>8, <2>3, <2>5, <2>6, SpellsMore
  <2>8. p \o <<c>> \in Seq(Symbol)
    BY <1>6, <1>8, ConcatProperties
  <2>9. Append(raw, c) = (p \o <<c>>) \o <<>>
    BY <1>7, <2>1, <2>8, ConcatEmptySeq
  <2>10. next.text = Append(t, b) /\ next.escape = <<>>
    BY <1>9, <2>3
  <2> QED
    BY <2>7, <2>9, <2>10 DEF EscapeBegun
<1>11. CASE st.escape = <<>> /\ c = Percent
  <2>1. st = ReadSoFar(t) /\ raw = p
    BY <1>3, <1>5, <1>6, <1>11, ConcatEmptySeq DEF ReadSoFar
  <2>2. next = ReadUpTo(t, <<Percent>>)
    BY <1>11, <2>1, ScanByteIs DEF next
  <2>3. next.text = t /\ next.escape = <<Percent>>
    BY <1>9, <2>2
  <2> QED
    BY <1>3, <1>7, <1>11, <2>1, <2>3 DEF EscapeBegun
<1>12. CASE st.escape = <<Percent>>
  <2>1. next = ReadUpTo(t, <<Percent, c>>)
    BY <1>5, <1>12, ScanByteIs DEF next
  <2>2. next.text = t /\ next.escape = <<Percent, c>>
    BY <1>9, <2>1
  <2>3. (p \o <<Percent>>) \o <<c>> = p \o (<<Percent>> \o <<c>>)
    BY <1>6, <1>8, ConcatAssociative
  <2>4. Append(raw, c) = p \o <<Percent, c>>
    BY <1>3, <1>7, <1>12, <2>3, JoinOfOnes
  <2> QED
    BY <1>3, <2>2, <2>4 DEF EscapeBegun
<1>13. ASSUME NEW h \in Symbol, st.escape = <<Percent, h>>
       PROVE  /\ EscapeBegun(next.escape)
              /\ \E q : Spells(q, next.text) /\ Append(raw, c) = q \o next.escape
  <2> DEFINE b == ByteOf(h, c)
             s == <<Percent, h, c>>
  <2>14. ScanByte(ReadUpTo(t, <<Percent, h>>), c) = TakeByte(ReadSoFar(t), b)
    BY LastOfAnEscape
  <2>1. next = TakeByte(ReadSoFar(t), b)
    BY <1>5, <1>13, <2>14 DEF next
  <2>2. b \in Int
    <3>1. h \in Nat /\ c \in Nat
      BY DEF Symbol
    <3>2. HexValue(h) \in Int /\ HexValue(c) \in Int
      BY <3>1 DEF HexValue, Digit
    <3> QED
      BY <3>2 DEF ByteOf
  <2>3. b \in Character /\ Len(t) < MaxTextLength /\ next = ReadSoFar(Append(t, b))
    BY <1>5, <2>1, <2>2, ByteIsTaken
  <2>4. /\ h \in 0 .. 255 /\ c \in 0 .. 255
        /\ HexDigit(b \div 16) = h /\ HexDigit(b % 16) = c
    BY <2>3, HexOfAByte DEF Character
  <2>5. s \in Seq(Symbol) /\ <<Percent, h>> \in Seq(Symbol) /\ s = <<Percent, h>> \o <<c>>
        /\ Len(s) = 3 /\ s[1] = Percent /\ s[2] = h /\ s[3] = c
    <3>1. Percent \in Symbol
      <4>1. Percent \in 0 .. 255
        BY DEF Percent
      <4> QED
        BY <4>1, CharactersAreSymbols
    <3>2. s \in Seq(Symbol) /\ <<Percent, h>> \in Seq(Symbol)
      BY <3>1
    <3>3. Len(s) = 3 /\ s[1] = Percent /\ s[2] = h /\ s[3] = c
      OBVIOUS
    <3> QED
      BY <3>2, <3>3, JoinOfThree
  <2>6. Width(s) = 3
    <3>1. Percent \in 0 .. 255
      BY DEF Percent
    <3>2. Percent \in Symbol
      BY <3>1, CharactersAreSymbols
    <3>3. WidthOf(Percent) = 1 /\ WidthOf(h) = 1 /\ WidthOf(c) = 1
      BY <2>4, <3>1 DEF WidthOf
    <3>4. Width(<<Percent, h, c>>) = WidthOf(Percent) + WidthOf(h) + WidthOf(c)
      BY <3>2, ShortWidths
    <3> QED
      BY <3>3, <3>4
  <2> HIDE DEF b, s
  <2>7. s = EscapedByte(b) \/ OverEscapes(s)
    <3>1. CASE IsUnreserved(b)
      <4>1. 1 \in 1 .. Len(s) - 2 /\ s[1] = Percent /\ ByteOf(s[1 + 1], s[1 + 2]) = b
        BY <2>5 DEF b
      <4> QED
        BY <3>1, <4>1 DEF OverEscapes
    <3>2. CASE ~IsUnreserved(b)
      <4>1. EscapedByte(b) = <<Percent, h, c>>
        BY <2>4, <3>2 DEF EscapedByte
      <4> QED
        BY <4>1 DEF s
    <3> QED
      BY <3>1, <3>2
  <2>8. Width(EscapedByte(b)) <= Width(s)
    <3>1. CASE IsUnreserved(b)
      <4>3. b \in Symbol /\ EscapedByte(b) = <<b>>
        BY <2>3, <3>1, CharactersAreSymbols DEF EscapedByte
      <4>4. ~(b > 255)
        BY <2>3 DEF Character
      <4>1. EscapedByte(b) = <<b>> /\ b \in Symbol /\ WidthOf(b) = 1
        BY <4>3, <4>4 DEF WidthOf
      <4>2. Width(<<b>>) = 1
        BY <4>1, WidthIsASum
      <4> QED
        BY <2>6, <4>1, <4>2
    <3>2. CASE ~IsUnreserved(b)
      <4>1. EscapedByte(b) = s
        BY <2>4, <3>2 DEF EscapedByte, s
      <4> QED
        BY <2>6, <4>1
    <3> QED
      BY <3>1, <3>2
  <2>9. Spells(p \o s, Append(t, b))
    BY <1>3, <2>3, <2>5, <2>7, <2>8, SpellsMore
  <2>10. p \o s \in Seq(Symbol)
    BY <1>6, <2>5, ConcatProperties
  <2>11. (p \o <<Percent, h>>) \o <<c>> = p \o (<<Percent, h>> \o <<c>>)
    BY <1>6, <1>8, <2>5, ConcatAssociative
  <2>12. Append(raw, c) = (p \o s) \o <<>>
    BY <1>3, <1>7, <1>13, <2>5, <2>10, <2>11, ConcatEmptySeq
  <2>13. next.text = Append(t, b) /\ next.escape = <<>>
    BY <1>9, <2>3
  <2> QED
    BY <2>9, <2>12, <2>13 DEF EscapeBegun
<1> QED
  BY <1>4, <1>10, <1>11, <1>12, <1>13 DEF EscapeBegun

LEMMA WhatReadsAsAText ==
  ASSUME NEW raw \in Seq(Symbol)
  PROVE  ScannedAs(raw, TextFrom(ReadSoFar(<<>>), raw))
<1> DEFINE T == {r \in Seq(Symbol) : ScannedAs(r, TextFrom(ReadSoFar(<<>>), r))}
<1>1. <<>> \in Seq(Character) /\ <<>> \in Seq(Symbol) /\ ReadSoFar(<<>>) \in TextScan
  <2>1. <<>> \in Seq(Character)
    OBVIOUS
  <2>2. <<>> \in Seq(Symbol)
    OBVIOUS
  <2> QED
    BY <2>1, <2>2, ReadSoFarIs
<1>2. <<>> \in T
  <2>1. TextFrom(ReadSoFar(<<>>), <<>>) = ReadSoFar(<<>>)
    BY <1>1, TextFromSteps
  <2>2. ReadSoFar(<<>>).text = <<>> /\ ReadSoFar(<<>>).escape = <<>>
    BY DEF ReadSoFar, ReadUpTo
  <2>3. PercentEncode(<<>>) = <<>> /\ Width(<<>>) = 0 /\ Len(<<>>) = 0 /\ MaxTextLength \in Nat
    BY PercentEncodeSteps, WidthIsASum, CodecAssumption
  <2>4. Spells(<<>>, <<>>)
    BY <1>1, <2>3 DEF Spells
  <2>5. <<>> \o <<>> = <<>>
    BY <1>1, ConcatEmptySeq
  <2>6. ScannedAs(<<>>, ReadSoFar(<<>>))
    BY <2>2, <2>4, <2>5 DEF ScannedAs, EscapeBegun
  <2> QED
    BY <1>1, <2>1, <2>6
<1>3. ASSUME NEW r \in T, NEW c \in Symbol PROVE Append(r, c) \in T
  <2>1. r \in Seq(Symbol) /\ ScannedAs(r, TextFrom(ReadSoFar(<<>>), r))
    OBVIOUS
  <2>2. /\ TextFrom(ReadSoFar(<<>>), r) \in TextScan
        /\ TextFrom(ReadSoFar(<<>>), Append(r, c)) = ScanByte(TextFrom(ReadSoFar(<<>>), r), c)
    BY <1>1, <2>1, TextFromSteps
  <2>3. Append(r, c) \in Seq(Symbol)
    BY <2>1, AppendProperties
  <2>4. ScannedAs(Append(r, c), ScanByte(TextFrom(ReadSoFar(<<>>), r), c))
    BY <2>1, <2>2, ScannedOneMore
  <2> QED
    BY <2>2, <2>3, <2>4
<1>4. T = Seq(Symbol)
  <2>1. T \in SUBSET Seq(Symbol)
    OBVIOUS
  <2> HIDE DEF T
  <2> QED
    BY <1>2, <1>3, <2>1, EverySequenceIsReached
<1> QED
  BY <1>4

-----------------------------------------------------------------------------
(* The fields.                                                             *)
IsAnEnumeration(values) ==
  /\ values \in Seq(ToSet(Names))
  /\ \A i, j \in DOMAIN values : values[i] = values[j] => i = j

LEMMA EnumerationsAre ==
  /\ IsAnEnumeration(EventValues) /\ IsAnEnumeration(StatusValues)
  /\ IsAnEnumeration(PageValues) /\ IsAnEnumeration(ErrorValues)
<1>1. ASSUME NEW values, values \in Seq(ToSet(values)), \A x \in ToSet(values) : x \in ToSet(Names)
      PROVE  values \in Seq(ToSet(Names))
  <2>1. ToSet(values) \subseteq ToSet(Names)
    BY <1>1
  <2> QED
    BY <1>1, <2>1, SeqMonotonic
<1>2. /\ EventValues \in Seq(ToSet(Names)) /\ StatusValues \in Seq(ToSet(Names))
      /\ PageValues \in Seq(ToSet(Names)) /\ ErrorValues \in Seq(ToSet(Names))
  <2>1. EventValues \in Seq(ToSet(Names))
    BY <1>1, PartsOfTheNames, NamesAreTogether
  <2>2. StatusValues \in Seq(ToSet(Names))
    BY <1>1, PartsOfTheNames, NamesAreTogether
  <2>3. PageValues \in Seq(ToSet(Names))
    BY <1>1, PartsOfTheNames, NamesAreTogether
  <2>4. ErrorValues \in Seq(ToSet(Names))
    BY <1>1, PartsOfTheNames, NamesAreTogether
  <2> QED
    BY <2>1, <2>2, <2>3, <2>4
<1>3. \A i, j \in DOMAIN EventValues : EventValues[i] = EventValues[j] => i = j
  BY DEF EventValues
<1>4. \A i, j \in DOMAIN StatusValues : StatusValues[i] = StatusValues[j] => i = j
  BY DEF StatusValues
<1>5. \A i, j \in DOMAIN PageValues : PageValues[i] = PageValues[j] => i = j
  BY DEF PageValues
<1>6. \A i, j \in DOMAIN ErrorValues : ErrorValues[i] = ErrorValues[j] => i = j
  BY SMTT(60) DEF ErrorValues
<1> QED
  BY <1>2, <1>3, <1>4, <1>5, <1>6 DEF IsAnEnumeration

IsAField(field) ==
  /\ field.name \in ToSet(Names)
  /\ \/ /\ field.type = "INTEGER"
        /\ field.minimum \in Nat /\ field.maximum \in 0 .. UintMax
     \/ field.type = "BOOLEAN"
     \/ field.type = "ENUMERATION" /\ IsAnEnumeration(field.values)
     \/ field.type = "TOKEN" /\ field.maximum \in Nat
     \/ field.type = "TEXT" /\ field.maximum = MaxTextLength

(* An integer or a text, whichever the field has, and the other unset.     *)
FieldValue == [integer : Int, text : Seq(Symbol)]

IsAValue(field, value) ==
  /\ value \in FieldValue
  /\ IF IsText(field) THEN value.integer = 0 ELSE value.text = <<>>

Glyph == {c \in Symbol : c # Space /\ IsPrintable(c)}

LEMMA GlyphsAre ==
  /\ \A c \in 33 .. 126 : c \in Glyph
  /\ DigitChars \subseteq Glyph /\ Seq(Glyph) \subseteq Seq(Symbol)
  /\ \A name \in ToSet(Names) : Word(name) \in Glyph /\ Word(name) # EqualsSign
<1>1. \A c \in 33 .. 126 : c \in 0 .. 255 /\ c # Space /\ IsPrintable(c)
  BY DEF Space, IsPrintable
<1>2. \A c \in 33 .. 126 : c \in Glyph
  BY <1>1, CharactersAreSymbols DEF Glyph
<1>3. DigitChars \subseteq Glyph
  <2>1. \A c \in DigitChars : c \in 33 .. 126
    BY DEF DigitChars
  <2> QED
    BY <1>2, <2>1
<1>4. Glyph \subseteq Symbol
  BY DEF Glyph
<1>5. ASSUME NEW name \in ToSet(Names) PROVE Word(name) \in Glyph /\ Word(name) # EqualsSign
  <2>1. Word(name) \in Symbol /\ Word(name) > 255
    BY WordsAreSymbols
  <2>2. Word(name) \in Nat
    BY <2>1 DEF Symbol
  <2>3. Word(name) # 32 /\ Word(name) # 61
    BY <2>1, <2>2
  <2> QED
    BY <2>1, <2>3 DEF Glyph, IsPrintable, Space, EqualsSign
<1> QED
  BY <1>2, <1>3, <1>4, <1>5, SeqMonotonic

LEMMA EscapesAreGlyphs == \A c \in Character : EscapedByte(c) \in Seq(Glyph)
<1> TAKE c \in Character
<1>1. c \in 32 .. 126 /\ HexDigit(c \div 16) \in 48 .. 70 /\ HexDigit(c % 16) \in 48 .. 70
  BY EscapesAreSymbols DEF Character
<1>2. CASE IsUnreserved(c)
  <2>1. c \in 33 .. 126
    BY <1>1, <1>2 DEF IsUnreserved, Digit, UpperCase, LowerCase
  <2>2. c \in Glyph
    BY <2>1, GlyphsAre
  <2>3. EscapedByte(c) = <<c>>
    BY <1>2, EscapesAreSymbols
  <2>4. <<c>> \in Seq(Glyph)
    BY <2>2
  <2> QED
    BY <2>3, <2>4
<1>3. CASE ~IsUnreserved(c)
  <2> DEFINE h == HexDigit(c \div 16)
             l == HexDigit(c % 16)
  <2>1. h \in 33 .. 126 /\ l \in 33 .. 126 /\ Percent \in 33 .. 126
    BY <1>1 DEF Percent
  <2>2. h \in Glyph /\ l \in Glyph /\ Percent \in Glyph
    BY <2>1, GlyphsAre
  <2>3. EscapedByte(c) = <<Percent, h, l>>
    BY <1>3, EscapesAreSymbols
  <2> HIDE DEF h, l
  <2>4. <<Percent, h, l>> \in Seq(Glyph)
    BY <2>2
  <2> QED
    BY <2>3, <2>4
<1> QED
  BY <1>2, <1>3

LEMMA SpellingsAreGlyphs == \A t \in Seq(Character) : PercentEncode(t) \in Seq(Glyph)
<1> DEFINE T == {t \in Seq(Character) : PercentEncode(t) \in Seq(Glyph)}
<1>1. <<>> \in T
  <2>1. <<>> \in Seq(Character)
    OBVIOUS
  <2>2. <<>> \in Seq(Glyph)
    OBVIOUS
  <2> QED
    BY <2>1, <2>2, PercentEncodeSteps
<1>2. ASSUME NEW t \in T, NEW c \in Character PROVE Append(t, c) \in T
  <2>1. t \in Seq(Character) /\ PercentEncode(t) \in Seq(Glyph) /\ EscapedByte(c) \in Seq(Glyph)
    BY EscapesAreGlyphs
  <2>2. PercentEncode(t) \o EscapedByte(c) \in Seq(Glyph)
    BY <2>1, ConcatProperties
  <2>3. PercentEncode(Append(t, c)) = PercentEncode(t) \o EscapedByte(c)
    BY <2>1, PercentEncodeSteps
  <2>4. Append(t, c) \in Seq(Character)
    BY <2>1, AppendProperties
  <2> QED
    BY <2>2, <2>3, <2>4
<1>3. T = Seq(Character)
  <2>1. T \in SUBSET Seq(Character)
    OBVIOUS
  <2> HIDE DEF T
  <2> QED
    BY <1>1, <1>2, <2>1, EverySequenceIsReached
<1> QED
  BY <1>3

LEMMA TypesDiffer ==
  ASSUME NEW field
  PROVE  /\ IsText(field) <=> field.type = "TOKEN" \/ field.type = "TEXT"
         /\ field.type = "INTEGER" => ~IsText(field)
         /\ field.type = "BOOLEAN" => ~IsText(field)
         /\ field.type = "ENUMERATION" => ~IsText(field)
BY DEF IsText

LEMMA MinOfOne == ASSUME NEW i \in Int PROVE Min({i}) = i
<1>1. \E x \in {i} : \A y \in {i} : x <= y
  OBVIOUS
<1> DEFINE m == CHOOSE x \in {i} : \A y \in {i} : x <= y
<1>2. m \in {i}
  BY <1>1
<1>3. Min({i}) = m
  BY DEF Min
<1> HIDE DEF m
<1> QED
  BY <1>2, <1>3

(* An enumeration's symbol is read as its index, and nothing else is.      *)
LEMMA DecodesItsSymbol ==
  ASSUME NEW field, IsAnEnumeration(field.values),
         NEW n \in 0 .. Len(field.values) - 1
  PROVE  /\ Word(field.values[n + 1]) \in Symbol
         /\ field.values[n + 1] \in ToSet(Names)
         /\ DecodeEnumeration(field, <<Word(field.values[n + 1])>>) = n
<1> DEFINE values == field.values
           i == n + 1
<1>1. /\ values \in Seq(ToSet(Names)) /\ \A k, j \in DOMAIN values : values[k] = values[j] => k = j
      /\ Len(values) \in Nat /\ DOMAIN values = 1 .. Len(values)
      /\ \A k \in 1 .. Len(values) : values[k] \in ToSet(Names)
  BY LenProperties, ElementOfSeq DEF IsAnEnumeration
<1>2. i \in DOMAIN values /\ i \in Int /\ i - 1 = n
  BY <1>1
<1> DEFINE matches == {k \in DOMAIN values : <<Word(values[i])>> = <<Word(values[k])>>}
<1>3. DecodeEnumeration(field, <<Word(values[i])>>) =
        IF matches = {} THEN -1 ELSE Min(matches) - 1
  BY DEF DecodeEnumeration
<1> HIDE DEF i, values
<1>4. ASSUME NEW k \in DOMAIN values, <<Word(values[i])>> = <<Word(values[k])>> PROVE k = i
  <2>1. Word(values[i]) = Word(values[k])
    <3>1. \A a, b : <<a>> = <<b>> => a = b
      OBVIOUS
    <3> QED
      BY <1>4, <3>1
  <2>2. values[i] = values[k]
    BY <1>1, <1>2, <2>1, WordsDiffer
  <2> QED
    BY <1>1, <1>2, <2>2
<1>5. matches = {i}
  BY <1>2, <1>4
<1>6. values[i] \in ToSet(Names)
  BY <1>1, <1>2
<1>7. Word(values[i]) \in Symbol
  BY <1>6, WordsAreSymbols
<1>8. DecodeEnumeration(field, <<Word(values[i])>>) = Min({i}) - 1
  BY <1>3, <1>5
<1>9. DecodeEnumeration(field, <<Word(values[i])>>) = n
  BY <1>2, <1>8, MinOfOne
<1> QED
  BY <1>6, <1>7, <1>9 DEF i, values

LEMMA DecodesOnlyItsSymbols ==
  ASSUME NEW field, IsAnEnumeration(field.values), NEW raw,
         DecodeEnumeration(field, raw) >= 0
  PROVE  /\ DecodeEnumeration(field, raw) \in 0 .. Len(field.values) - 1
         /\ raw = <<Word(field.values[DecodeEnumeration(field, raw) + 1])>>
<1> DEFINE matches == {i \in DOMAIN field.values : raw = <<Word(field.values[i])>>}
<1>1. Len(field.values) \in Nat /\ DOMAIN field.values = 1 .. Len(field.values)
  BY LenProperties DEF IsAnEnumeration
<1>2. DecodeEnumeration(field, raw) = IF matches = {} THEN -1 ELSE Min(matches) - 1
  BY DEF DecodeEnumeration
<1>3. matches # {}
  BY <1>2
<1>4. PICK i \in matches : TRUE
  BY <1>3
<1>5. \A j, k \in matches : j = k
  <2> SUFFICES ASSUME NEW j \in matches, NEW k \in matches PROVE j = k
    OBVIOUS
  <2>1. /\ j \in DOMAIN field.values /\ k \in DOMAIN field.values
        /\ <<Word(field.values[j])>> = <<Word(field.values[k])>>
    OBVIOUS
  <2>2. Word(field.values[j]) = Word(field.values[k])
    <3>1. \A a, b : <<a>> = <<b>> => a = b
      OBVIOUS
    <3> QED
      BY <2>1, <3>1
  <2>3. field.values[j] \in ToSet(Names) /\ field.values[k] \in ToSet(Names)
    BY <1>1, <2>1, ElementOfSeq DEF IsAnEnumeration
  <2>4. field.values[j] = field.values[k]
    BY <2>2, <2>3, WordsDiffer
  <2> QED
    BY <2>1, <2>4 DEF IsAnEnumeration
<1>6. matches = {i}
  BY <1>4, <1>5
<1>7. i \in 1 .. Len(field.values) /\ raw = <<Word(field.values[i])>>
  BY <1>1, <1>4
<1> HIDE DEF matches
<1>8. DecodeEnumeration(field, raw) = i - 1
  BY <1>2, <1>3, <1>6, <1>7, MinOfOne
<1>9. DecodeEnumeration(field, raw) + 1 = i /\ i - 1 \in 0 .. Len(field.values) - 1
  BY <1>1, <1>7, <1>8
<1> QED
  BY <1>7, <1>8, <1>9

(* What the encoder makes of a valid value, the decoder takes for it.      *)
LEMMA DecodesItsEncoding ==
  ASSUME NEW field, IsAField(field), NEW value, IsAValue(field, value), ValueIsValid(field, value)
  PROVE  /\ DecodeFieldValue(field, EncodeValue(field, value)) = Decoded(value)
         /\ EncodeValue(field, value) \in Seq(Glyph)
<1> DEFINE n == value.integer
           text == value.text
<1>1. n \in Int /\ text \in Seq(Symbol) /\ value = [integer |-> n, text |-> text]
  BY DEF IsAValue, FieldValue
<1>2. ~IsText(field) => text = <<>>
  BY DEF IsAValue
<1>3. IsText(field) => n = 0
  BY DEF IsAValue
<1> HIDE DEF n, text
<1>4. ~IsText(field) => IntegerIsValid(field, n)
  BY DEF ValueIsValid, n
<1>5. IsText(field) => TextIsValid(field, text)
  BY DEF ValueIsValid, text
<1>6. CASE field.type = "INTEGER" \/ field.type = "BOOLEAN"
  <2>1. ~IsText(field) /\ field.type \in {"INTEGER", "BOOLEAN"}
    BY <1>6, TypesDiffer
  <2>2. n \in 0 .. UintMax
    <3>1. CASE field.type = "INTEGER"
      BY <1>1, <1>4, <2>1, <3>1, CodecAssumption DEF IntegerIsValid, IsAField
    <3>2. CASE field.type = "BOOLEAN"
      <4>1. n \in 0 .. 1
        BY <1>4, <2>1, <3>2 DEF IntegerIsValid
      <4> QED
        BY <4>1, CodecAssumption
    <3> QED
      BY <1>6, <3>1, <3>2
  <2>3. EncodeValue(field, value) = Digits[n]
    BY <2>1 DEF EncodeValue, n
  <2>4. DecodeUnsigned(Digits[n]) = n
    BY <2>2, DecodesDigits
  <2>5. Digits[n] \in Seq(Glyph)
    <3>1. n \in Nat
      BY <2>2, CodecAssumption
    <3>2. Digits[n] \in Seq(DigitChars)
      BY <3>1, DigitsAre
    <3> QED
      BY <3>2, GlyphsAre, SeqMonotonic
  <2>6. DecodeInteger(field, n) = Decoded(value)
    BY <1>1, <1>2, <1>4, <2>1, <2>2 DEF DecodeInteger
  <2>7. DecodeFieldValue(field, Digits[n]) = DecodeInteger(field, DecodeUnsigned(Digits[n]))
    BY <2>1 DEF DecodeFieldValue
  <2> QED
    BY <2>3, <2>4, <2>5, <2>6, <2>7
<1>7. CASE field.type = "ENUMERATION"
  <2>1. ~IsText(field) /\ field.type \notin {"INTEGER", "BOOLEAN"} /\ IsAnEnumeration(field.values)
    BY <1>7, TypesDiffer DEF IsAField
  <2>2. n \in 0 .. Len(field.values) - 1
    BY <1>4, <1>7, <2>1 DEF IntegerIsValid
  <2> DEFINE symbol == Word(field.values[n + 1])
  <2>3. EncodeValue(field, value) = <<symbol>>
    BY <1>7, <2>1 DEF EncodeValue, n
  <2>4. field.values[n + 1] \in ToSet(Names) /\ DecodeEnumeration(field, <<symbol>>) = n
    BY <2>1, <2>2, DecodesItsSymbol
  <2>5. symbol \in Glyph
    BY <2>4, GlyphsAre
  <2> HIDE DEF symbol
  <2>6. DecodeInteger(field, n) = Decoded(value)
    BY <1>1, <1>2, <1>4, <2>1, <2>2 DEF DecodeInteger
  <2>7. DecodeFieldValue(field, <<symbol>>) = DecodeInteger(field, DecodeEnumeration(field, <<symbol>>))
    BY <1>7, <2>1 DEF DecodeFieldValue
  <2>8. <<symbol>> \in Seq(Glyph)
    BY <2>5
  <2> QED
    BY <2>3, <2>4, <2>6, <2>7, <2>8
<1>8. CASE field.type = "TOKEN"
  <2>1. IsText(field) /\ field.type \notin {"INTEGER", "BOOLEAN"} /\ field.type # "ENUMERATION"
    BY <1>8, TypesDiffer
  <2>2. EncodeValue(field, value) = text
    BY <1>8, <2>1 DEF EncodeValue, text
  <2>3. \A i \in DOMAIN text : text[i] \in Glyph
    <3> TAKE i \in DOMAIN text
    <3>1. IsTokenCharacter(text[i])
      BY <1>5, <1>8, <2>1 DEF TextIsValid
    <3>2. text[i] \in 33 .. 126
      BY <3>1 DEF IsTokenCharacter, LowerCase, Digit
    <3> QED
      BY <3>2, GlyphsAre
  <2>4. text \in Seq(Glyph)
    <3>1. Len(text) \in Nat /\ DOMAIN text = 1 .. Len(text) /\ text \in [1 .. Len(text) -> Symbol]
      BY <1>1, LenProperties
    <3>2. text \in [1 .. Len(text) -> Glyph]
      BY <2>3, <3>1
    <3> QED
      BY <3>1, <3>2, IsASeq
  <2>5. DecodeFieldValue(field, text) = DecodeToken(field, text)
    BY <1>8, <2>1 DEF DecodeFieldValue
  <2>6. DecodeToken(field, text) = Decoded(value)
    BY <1>1, <1>3, <1>5, <2>1 DEF DecodeToken
  <2> QED
    BY <2>2, <2>4, <2>5, <2>6
<1>9. CASE field.type = "TEXT"
  <2>1. IsText(field) /\ field.type \notin {"INTEGER", "BOOLEAN"} /\ field.type # "ENUMERATION"
        /\ field.type # "TOKEN"
    BY <1>9, TypesDiffer
  <2>2. EncodeValue(field, value) = PercentEncode(text)
    BY <1>9, <2>1 DEF EncodeValue, text
  <2>3. /\ \A i \in DOMAIN text : text[i] \in Character
        /\ Len(text) <= MaxTextLength
    BY <1>5, <1>9, <2>1 DEF TextIsValid, Character, IsAField
  <2>4. text \in Seq(Character)
    <3>1. Len(text) \in Nat /\ DOMAIN text = 1 .. Len(text) /\ text \in [1 .. Len(text) -> Symbol]
      BY <1>1, LenProperties
    <3>2. text \in [1 .. Len(text) -> Character]
      BY <2>3, <3>1
    <3> QED
      BY <3>1, <3>2, IsASeq
  <2>5. PercentEncode(text) \in Seq(Glyph)
    BY <2>4, SpellingsAreGlyphs
  <2>6. DecodeFieldValue(field, PercentEncode(text)) = DecodeText(field, PercentEncode(text))
    BY <1>9, <2>1 DEF DecodeFieldValue
  <2>7. ScanOf(ScanByte, [error |-> "NONE", text |-> <<>>, escape |-> <<>>], PercentEncode(text))
          = ReadSoFar(text)
    <3>1. TextFrom(ReadSoFar(<<>>), PercentEncode(text)) = ReadSoFar(text)
      BY <2>3, <2>4, EncodedTextIsRead
    <3> QED
      BY <3>1 DEF TextFrom, ReadSoFar, ReadUpTo
  <2>8. ReadSoFar(text).error = "NONE" /\ ReadSoFar(text).escape = <<>> /\ ReadSoFar(text).text = text
    BY DEF ReadSoFar, ReadUpTo
  <2>9. DecodeText(field, PercentEncode(text)) = Decoded([integer |-> 0, text |-> text])
    BY <1>5, <2>1, <2>7, <2>8 DEF DecodeText
  <2> QED
    BY <1>1, <1>3, <2>1, <2>2, <2>5, <2>6, <2>9
<1> QED
  BY <1>6, <1>7, <1>8, <1>9 DEF IsAField

(* And what the decoder takes is what the encoder makes of the value, but  *)
(* for escapes too many.                                                   *)
LEMMA DecodesOnlyEncodings ==
  ASSUME NEW field, IsAField(field), NEW raw \in Seq(Symbol),
         DecodeFieldValue(field, raw).error = "NONE"
  PROVE  LET value == DecodeFieldValue(field, raw).value
         IN  /\ IsAValue(field, value) /\ ValueIsValid(field, value)
             /\ DecodeFieldValue(field, raw) = Decoded(value)
             /\ EncodeValue(field, value) \in Seq(Symbol)
             /\ Width(EncodeValue(field, value)) <= Width(raw)
             /\ EncodeValue(field, value) = raw \/ OverEscapes(raw)
<1> DEFINE found == DecodeFieldValue(field, raw)
           value == found.value
<1>1. /\ \A v : Decoded(v).error = "NONE" /\ Decoded(v).value = v
      /\ \A e : Refused(e).error = e
  BY DEF Decoded, Refused
<1>2. Width(raw) \in Nat
  BY WidthIsASum
<1>3. ASSUME NEW n \in Int, ~IsText(field), found = DecodeInteger(field, n)
      PROVE  /\ n >= 0 /\ IntegerIsValid(field, n) /\ found = Decoded(value)
             /\ value = [integer |-> n, text |-> <<>>] /\ value.integer = n
             /\ IsAValue(field, value) /\ ValueIsValid(field, value)
  <2> DEFINE made == [integer |-> n, text |-> <<>>]
  <2>1. found.error = "NONE" /\ "BAD_VALUE" # "NONE"
    OBVIOUS
  <2>2. n >= 0 /\ IntegerIsValid(field, n) /\ found = Decoded(made)
    BY <1>1, <1>3, <2>1 DEF DecodeInteger
  <2>3. value = made
    BY <1>1, <2>2
  <2>4. made \in FieldValue /\ made.integer = n /\ made.text = <<>>
    <3> DEFINE e == <<>>
    <3>1. e \in Seq(Symbol)
      OBVIOUS
    <3> HIDE DEF e
    <3>2. [integer |-> n, text |-> e] \in FieldValue
      BY <3>1 DEF FieldValue
    <3> QED
      BY <3>2 DEF e
  <2> HIDE DEF made, found
  <2>5. IsAValue(field, value) /\ ValueIsValid(field, value)
    BY <1>3, <2>2, <2>3, <2>4 DEF IsAValue, ValueIsValid
  <2>6. value = [integer |-> n, text |-> <<>>]
    BY <2>3 DEF made
  <2> QED
    BY <2>2, <2>3, <2>4, <2>5, <2>6
<1>4. CASE field.type = "INTEGER" \/ field.type = "BOOLEAN"
  <2>1. ~IsText(field) /\ field.type \in {"INTEGER", "BOOLEAN"}
    BY <1>4, TypesDiffer
  <2> DEFINE n == DecodeUnsigned(raw)
  <2>2. found = DecodeInteger(field, n)
    BY <2>1 DEF DecodeFieldValue
  <2>3. n \in Int
    BY DecodedIsANumber
  <2>4. /\ n >= 0 /\ found = Decoded(value) /\ value.integer = n
        /\ IsAValue(field, value) /\ ValueIsValid(field, value)
    <3> HIDE DEF found, n
    <3> QED
      BY <1>3, <2>1, <2>2, <2>3
  <2>5. Digits[n] = raw
    BY <2>4, DecodesOnlyDigits
  <2> HIDE DEF found, n
  <2>6. EncodeValue(field, value) = raw
    BY <2>1, <2>4, <2>5 DEF EncodeValue
  <2> QED
    BY <1>2, <2>4, <2>6 DEF found
<1>5. CASE field.type = "ENUMERATION"
  <2>1. ~IsText(field) /\ field.type \notin {"INTEGER", "BOOLEAN"} /\ IsAnEnumeration(field.values)
    BY <1>5, TypesDiffer DEF IsAField
  <2> DEFINE n == DecodeEnumeration(field, raw)
  <2>2. found = DecodeInteger(field, n)
    BY <1>5, <2>1 DEF DecodeFieldValue
  <2>3. n >= 0 => n \in 0 .. Len(field.values) - 1 /\ raw = <<Word(field.values[n + 1])>>
    BY <2>1, DecodesOnlyItsSymbols
  <2>4. n \in Int
    <3>1. n >= 0 => n \in Int
      BY <2>3
    <3> DEFINE matches == {i \in DOMAIN field.values : raw = <<Word(field.values[i])>>}
    <3>2. n = IF matches = {} THEN -1 ELSE Min(matches) - 1
      BY DEF DecodeEnumeration
    <3>3. ASSUME matches # {} PROVE n \in Int
      <4>1. DOMAIN field.values = 1 .. Len(field.values) /\ Len(field.values) \in Nat
        BY <2>1, LenProperties DEF IsAnEnumeration
      <4>2. PICK i \in matches : TRUE
        BY <3>3
      <4>3. i \in 1 .. Len(field.values) /\ raw = <<Word(field.values[i])>>
        BY <4>1, <4>2
      <4>4. i - 1 \in 0 .. Len(field.values) - 1 /\ (i - 1) + 1 = i
        BY <4>1, <4>3
      <4> DEFINE k == i - 1
      <4>5. DecodeEnumeration(field, <<Word(field.values[k + 1])>>) = k
        BY <2>1, <4>4, DecodesItsSymbol
      <4>6. n = k
        BY <4>3, <4>4, <4>5
      <4> QED
        BY <4>4, <4>6
    <3> QED
      BY <3>2, <3>3
  <2>5. /\ n >= 0 /\ found = Decoded(value) /\ value.integer = n
        /\ IsAValue(field, value) /\ ValueIsValid(field, value)
    <3> HIDE DEF found, n
    <3> QED
      BY <1>3, <2>1, <2>2, <2>4
  <2> HIDE DEF found, n
  <2>6. EncodeValue(field, value) = raw
    BY <1>5, <2>1, <2>3, <2>5 DEF EncodeValue
  <2> QED
    BY <1>2, <2>5, <2>6 DEF found
<1>6. ASSUME NEW text, text \in Seq(Symbol), IsText(field), TextIsValid(field, text),
             found = Decoded([integer |-> 0, text |-> text])
      PROVE  /\ found = Decoded(value) /\ value.text = text
             /\ IsAValue(field, value) /\ ValueIsValid(field, value)
  <2> DEFINE made == [integer |-> 0, text |-> text]
  <2>1. made \in FieldValue /\ made.integer = 0 /\ made.text = text
    BY <1>6 DEF FieldValue
  <2>2. found = Decoded(made)
    BY <1>6
  <2> HIDE DEF made, found
  <2>3. value = made
    BY <1>1, <2>2
  <2> QED
    BY <1>6, <2>1, <2>2, <2>3 DEF IsAValue, ValueIsValid
<1>7. CASE field.type = "TOKEN"
  <2>1. IsText(field) /\ field.type \notin {"INTEGER", "BOOLEAN"} /\ field.type # "ENUMERATION"
    BY <1>7, TypesDiffer
  <2>2. found = DecodeToken(field, raw)
    BY <1>7, <2>1 DEF DecodeFieldValue
  <2>3. found.error = "NONE" /\ "BAD_VALUE" # "NONE"
    OBVIOUS
  <2>4. TextIsValid(field, raw) /\ found = Decoded([integer |-> 0, text |-> raw])
    BY <1>1, <2>2, <2>3 DEF DecodeToken
  <2>5. /\ found = Decoded(value) /\ value.text = raw
        /\ IsAValue(field, value) /\ ValueIsValid(field, value)
    <3> HIDE DEF found
    <3> QED
      BY <1>6, <2>1, <2>4
  <2> HIDE DEF found
  <2>6. EncodeValue(field, value) = raw
    BY <1>7, <2>1, <2>5 DEF EncodeValue
  <2> QED
    BY <1>2, <2>5, <2>6 DEF found
<1>8. CASE field.type = "TEXT"
  <2>1. IsText(field) /\ field.type \notin {"INTEGER", "BOOLEAN"} /\ field.type # "ENUMERATION"
        /\ field.type # "TOKEN"
    BY <1>8, TypesDiffer
  <2>2. found = DecodeText(field, raw)
    BY <1>8, <2>1 DEF DecodeFieldValue
  <2> DEFINE st == TextFrom(ReadSoFar(<<>>), raw)
  <2>3. found = IF st.error # "NONE" THEN Refused(st.error)
                ELSE IF st.escape # <<>> THEN Refused("MALFORMED")
                ELSE IF ~TextIsValid(field, st.text) THEN Refused("BAD_VALUE")
                ELSE Decoded([integer |-> 0, text |-> st.text])
    BY <2>2 DEF DecodeText, TextFrom, ReadSoFar, ReadUpTo
  <2>4. ScannedAs(raw, st)
    BY WhatReadsAsAText
  <2>5. found.error = "NONE" /\ "BAD_VALUE" # "NONE" /\ "MALFORMED" # "NONE"
    OBVIOUS
  <2> HIDE DEF found, st
  <2>6. /\ st.error = "NONE" /\ st.escape = <<>> /\ TextIsValid(field, st.text)
        /\ found = Decoded([integer |-> 0, text |-> st.text])
    BY <1>1, <2>3, <2>5
  <2>7. PICK p : Spells(p, st.text) /\ raw = p \o <<>>
    BY <2>4, <2>6 DEF ScannedAs
  <2>8. raw = p
    BY <2>7, ConcatEmptySeq DEF Spells
  <2>9. /\ st.text \in Seq(Character) /\ (raw = PercentEncode(st.text) \/ OverEscapes(raw))
        /\ Width(PercentEncode(st.text)) <= Width(raw)
    BY <2>7, <2>8 DEF Spells
  <2>10. st.text \in Seq(Symbol) /\ PercentEncode(st.text) \in Seq(Symbol)
    BY <2>9, CharactersAreSymbols, SeqMonotonic, PercentEncodeSteps
  <2>11. /\ found = Decoded(value) /\ value.text = st.text
         /\ IsAValue(field, value) /\ ValueIsValid(field, value)
    BY <1>6, <2>1, <2>6, <2>10
  <2>12. EncodeValue(field, value) = PercentEncode(st.text)
    BY <1>8, <2>1, <2>11 DEF EncodeValue
  <2> QED
    BY <2>9, <2>10, <2>11, <2>12 DEF found
<1> QED
  BY <1>4, <1>5, <1>7, <1>8 DEF IsAField

-----------------------------------------------------------------------------
(* Tokens: a line is its tokens with a space between them, and back.       *)
Tokenlist == Seq(Seq(Symbol))

Unspaced == Symbol \ {Space}

LEMMA SpaceIsASymbol == Space \in Symbol /\ Unspaced \subseteq Symbol /\ Seq(Unspaced) \subseteq Seq(Symbol)
<1>1. Space \in 0 .. 255 /\ Unspaced \subseteq Symbol
  BY DEF Space, Unspaced
<1> QED
  BY <1>1, CharactersAreSymbols, SeqMonotonic

LEMMA SeparateIs ==
  ASSUME NEW front \in Tokenlist, NEW last \in Seq(Symbol), NEW c \in Symbol
  PROVE  /\ Append(front, last) \in Tokenlist
         /\ Separate(Append(front, last), Space) = Append(Append(front, last), <<>>)
         /\ c # Space => Separate(Append(front, last), c) = Append(front, Append(last, c))
<1> DEFINE ts == Append(front, last)
           new == Append(last, c)
           n == Len(ts)
<1>1. /\ ts \in Tokenlist /\ Len(ts) = Len(front) + 1 /\ ts[Len(front) + 1] = last
      /\ \A i \in 1 .. Len(front) : ts[i] = front[i]
  BY AppendProperties DEF Tokenlist
<1>2. Len(front) \in Nat /\ new \in Seq(Symbol)
  BY LenProperties, AppendProperties DEF Tokenlist
<1>3. Separate(ts, Space) = Append(ts, <<>>)
  BY DEF Separate
<1> HIDE DEF new
<1>4. /\ Append(front, new) \in Tokenlist /\ Len(Append(front, new)) = Len(front) + 1
      /\ Append(front, new)[Len(front) + 1] = new
      /\ \A i \in 1 .. Len(front) : Append(front, new)[i] = front[i]
  BY <1>2, AppendProperties DEF Tokenlist
<1> HIDE DEF ts
<1>5. /\ [ts EXCEPT ![n] = new] \in Tokenlist /\ Len([ts EXCEPT ![n] = new]) = Len(ts)
      /\ \A j \in 1 .. Len(ts) : [ts EXCEPT ![n] = new][j] = IF j = n THEN new ELSE ts[j]
  <2>1. n \in 1 .. Len(ts)
    BY <1>1, <1>2
  <2> QED
    BY <1>1, <1>2, <2>1, ExceptSeq DEF Tokenlist
<1>6. \A j \in 1 .. Len(front) + 1 : [ts EXCEPT ![n] = new][j] = Append(front, new)[j]
  BY <1>1, <1>2, <1>4, <1>5
<1>7. [ts EXCEPT ![n] = new] = Append(front, new)
  BY <1>1, <1>4, <1>5, <1>6, SeqEqual DEF Tokenlist
<1>8. ts[n] = last
  BY <1>1
<1>9. c # Space => Separate(ts, c) = [ts EXCEPT ![n] = new]
  BY <1>8 DEF Separate, new
<1> QED
  BY <1>1, <1>3, <1>7, <1>9 DEF ts, new

LEMMA SeparateKeeps == \A ts \in Tokenlist, c \in Symbol : Separate(ts, c) \in Tokenlist
<1> SUFFICES ASSUME NEW ts \in Tokenlist, NEW c \in Symbol PROVE Separate(ts, c) \in Tokenlist
  OBVIOUS
<1>1. CASE c = Space
  <2> DEFINE e == <<>>
  <2>1. e \in Seq(Symbol)
    OBVIOUS
  <2> HIDE DEF e
  <2>2. Append(ts, e) \in Tokenlist
    BY <2>1, AppendProperties DEF Tokenlist
  <2> QED
    BY <1>1, <2>2 DEF Separate, e
<1>2. CASE c # Space
  <2> DEFINE new == Append(ts[Len(ts)], c)
  <2>1. Separate(ts, c) = [ts EXCEPT ![Len(ts)] = new]
    BY <1>2 DEF Separate
  <2>2. Len(ts) \in Nat /\ DOMAIN ts = 1 .. Len(ts)
    BY LenProperties DEF Tokenlist
  <2>3. CASE Len(ts) = 0
    <3> HIDE DEF new
    <3>1. Len(ts) \notin DOMAIN ts
      BY <2>2, <2>3
    <3>2. [ts EXCEPT ![Len(ts)] = new] = ts
      <4>1. ts = <<>>
        BY <2>3, EmptySeq DEF Tokenlist
      <4>2. \A x : [<<>> EXCEPT ![0] = x] = <<>>
        OBVIOUS
      <4> QED
        BY <2>3, <4>1, <4>2
    <3> QED
      BY <2>1, <3>2
  <2>4. CASE Len(ts) # 0
    <3>1. Len(ts) \in 1 .. Len(ts)
      BY <2>2, <2>4
    <3>2. ts[Len(ts)] \in Seq(Symbol)
      BY <3>1, ElementOfSeq DEF Tokenlist
    <3>3. new \in Seq(Symbol)
      BY <3>2, AppendProperties
    <3> HIDE DEF new
    <3> QED
      BY <2>1, <3>1, <3>3, ExceptSeq DEF Tokenlist
  <2> QED
    BY <2>3, <2>4
<1> QED
  BY <1>1, <1>2

(* The scan of a line's tokens.                                             *)
TokensFrom(start, raw) == ScanOf(Separate, start, raw)

LEMMA TokensFromIsAScan ==
  ASSUME NEW start \in Tokenlist, NEW raw \in Seq(Symbol)
  PROVE  TokensFrom(start, raw) = Scan([x \in Tokenlist \X Symbol |-> Separate(x[1], x[2])], start, raw)
<1> DEFINE take == [x \in Tokenlist \X Symbol |-> Separate(x[1], x[2])]
           f == Run(take, start, raw)
           eq(after) == [i \in 0 .. Len(raw) |-> IF i = 0 THEN start ELSE Separate(after[i - 1], raw[i])]
           h == CHOOSE after : after = eq(after)
<1>1. Len(raw) \in Nat /\ \A n \in 1 .. Len(raw) : raw[n] \in Symbol
  BY LenProperties, ElementOfSeq
<1>2. take \in [Tokenlist \X Symbol -> Tokenlist]
  BY SeparateKeeps
<1>3. \A s \in Tokenlist, c \in Symbol : take[<<s, c>>] = Separate(s, c)
  OBVIOUS
<1>4. Scan(take, start, raw) = f[Len(raw)]
  BY ScanIsRun
<1>5. TokensFrom(start, raw) = h[Len(raw)]
  BY DEF TokensFrom, ScanOf
<1>6. IsARun(Tokenlist, take, start, raw, f)
  <2> HIDE DEF take
  <2> QED
    BY <1>2, RunIs
<1> HIDE DEF take, f
<1>7. f \in [0 .. Len(raw) -> Tokenlist] /\ f[0] = start
  BY <1>6 DEF IsARun
<1>8. \A n \in 1 .. Len(raw) : f[n] = Separate(f[n - 1], raw[n])
  <2> TAKE n \in 1 .. Len(raw)
  <2>1. n - 1 \in 0 .. Len(raw)
    BY <1>1
  <2>2. f[n - 1] \in Tokenlist /\ raw[n] \in Symbol
    BY <1>1, <1>7, <2>1
  <2>3. f[n] = take[<<f[n - 1], raw[n]>>]
    BY <1>6 DEF IsARun
  <2> QED
    BY <1>3, <2>2, <2>3
<1>9. f = eq(f)
  <2>1. \A i \in 0 .. Len(raw) : f[i] = IF i = 0 THEN start ELSE Separate(f[i - 1], raw[i])
    BY <1>1, <1>7, <1>8
  <2>2. f = [i \in 0 .. Len(raw) |-> f[i]]
    BY <1>7
  <2> QED
    BY <2>1, <2>2
<1>10. h = eq(h)
  <2> HIDE DEF eq
  <2> QED
    BY <1>9
<1> HIDE DEF h
<1>11. h[0] = start /\ \A n \in 1 .. Len(raw) : h[n] = Separate(h[n - 1], raw[n])
  BY <1>1, <1>10
<1>12. f[Len(raw)] = h[Len(raw)]
  <2> HIDE DEF eq
  <2>1. \A n \in 1 .. Len(raw) : f[n - 1] = h[n - 1] => f[n] = h[n]
    BY <1>8, <1>11
  <2>2. f[0] = h[0]
    BY <1>7, <1>11
  <2> QED
    BY <1>1, <2>1, <2>2, RecursionIsUnique
<1> QED
  BY <1>4, <1>5, <1>12 DEF take

LEMMA TokensFromSteps ==
  ASSUME NEW start \in Tokenlist
  PROVE  /\ TokensFrom(start, <<>>) = start
         /\ \A s \in Seq(Symbol) : TokensFrom(start, s) \in Tokenlist
         /\ \A s \in Seq(Symbol) : \A c \in Symbol :
              TokensFrom(start, Append(s, c)) = Separate(TokensFrom(start, s), c)
         /\ \A s \in Seq(Symbol) : \A t \in Seq(Symbol) :
              TokensFrom(start, s \o t) = TokensFrom(TokensFrom(start, s), t)
<1> DEFINE take == [x \in Tokenlist \X Symbol |-> Separate(x[1], x[2])]
<1>1. take \in Takes(Tokenlist, Symbol)
  BY SeparateKeeps DEF Takes
<1>2. \A s \in Tokenlist, c \in Symbol : take[<<s, c>>] = Separate(s, c)
  OBVIOUS
<1>3. \A begin \in Tokenlist : \A s \in Seq(Symbol) : TokensFrom(begin, s) = Scan(take, begin, s)
  BY TokensFromIsAScan
<1> HIDE DEF take
<1>4. Stepwise(Tokenlist, Symbol, take, start)
  BY <1>1, ScanIsStepwise
<1>5. \A s \in Seq(Symbol) : TokensFrom(start, s) \in Tokenlist
  BY <1>3, <1>4 DEF Stepwise
<1>6. TokensFrom(start, <<>>) = start
  <2>1. <<>> \in Seq(Symbol)
    OBVIOUS
  <2> QED
    BY <1>3, <1>4, <2>1 DEF Stepwise
<1>7. ASSUME NEW s \in Seq(Symbol), NEW c \in Symbol
      PROVE  TokensFrom(start, Append(s, c)) = Separate(TokensFrom(start, s), c)
  <2>1. Append(s, c) \in Seq(Symbol)
    BY AppendProperties
  <2>2. Scan(take, start, Append(s, c)) = take[<<Scan(take, start, s), c>>]
    BY <1>4 DEF Stepwise
  <2> QED
    BY <1>2, <1>3, <1>5, <2>1, <2>2
<1>8. ASSUME NEW s \in Seq(Symbol), NEW t \in Seq(Symbol)
      PROVE  TokensFrom(start, s \o t) = TokensFrom(TokensFrom(start, s), t)
  <2>1. s \o t \in Seq(Symbol)
    BY ConcatProperties
  <2>2. Scan(take, start, s \o t) = Scan(take, Scan(take, start, s), t)
    BY <1>1, ScanOfAJoin
  <2> QED
    BY <1>3, <1>5, <2>1, <2>2
<1> QED
  BY <1>5, <1>6, <1>7, <1>8

(* The tokens with a space before each.                                    *)
Spaced(ts) == [k \in DOMAIN ts |-> <<Space>> \o ts[k]]

Joined(ts) == FlattenSeq(Spaced(ts))

LEMMA JoinedSteps ==
  /\ Joined(<<>>) = <<>>
  /\ \A ts \in Tokenlist : Joined(ts) \in Seq(Symbol)
  /\ \A ts \in Tokenlist : \A t \in Seq(Symbol) :
       Joined(Append(ts, t)) = Joined(ts) \o (<<Space>> \o t)
<1> DEFINE f == [t \in Seq(Symbol) |-> <<Space>> \o t]
<1>1. <<Space>> \in Seq(Symbol)
  BY SpaceIsASymbol
<1>2. \A t \in Seq(Symbol) : f[t] = <<Space>> \o t /\ <<Space>> \o t \in Seq(Symbol)
  BY <1>1, ConcatProperties
<1>3. IsAMap(f, Seq(Symbol), Seq(Symbol))
  BY <1>2 DEF IsAMap
<1>4. ASSUME NEW ts \in Tokenlist PROVE Spaced(ts) = Mapped(f, ts)
  <2>1. \A k \in DOMAIN ts : ts[k] \in Seq(Symbol)
    BY LenProperties, ElementOfSeq DEF Tokenlist
  <2> QED
    BY <2>1 DEF Spaced, Mapped
<1> HIDE DEF f
<1>5. ASSUME NEW ts \in Tokenlist, NEW t \in Seq(Symbol)
      PROVE  /\ Spaced(ts) \in Tokenlist
             /\ Spaced(Append(ts, t)) = Append(Spaced(ts), <<Space>> \o t)
  <2>1. Append(ts, t) \in Tokenlist
    BY AppendProperties DEF Tokenlist
  <2> DEFINE S == Seq(Symbol)
  <2>2. ts \in Seq(S) /\ t \in S /\ IsAMap(f, S, S)
    BY <1>3 DEF Tokenlist
  <2> HIDE DEF S
  <2>3. Mapped(f, ts) \in Seq(S) /\ Mapped(f, Append(ts, t)) = Append(Mapped(f, ts), f[t])
    BY <2>2, MappedAppend
  <2> QED
    BY <1>2, <1>4, <2>1, <2>3 DEF S, Tokenlist
<1>6. \A ts \in Tokenlist : Spaced(ts) \in Tokenlist
  BY <1>1, <1>5
<1>7. Spaced(<<>>) = <<>>
  BY DEF Spaced
<1>8. \A ts \in Tokenlist : Joined(ts) \in Seq(Symbol)
  BY <1>6, FlattenSteps DEF Joined, Tokenlist
<1>9. ASSUME NEW ts \in Tokenlist, NEW t \in Seq(Symbol)
      PROVE  Joined(Append(ts, t)) = Joined(ts) \o (<<Space>> \o t)
  <2> DEFINE s == <<Space>> \o t
             ss == Spaced(ts)
  <2>1. s \in Seq(Symbol) /\ ss \in Tokenlist
    BY <1>2, <1>6
  <2>2. Spaced(Append(ts, t)) = Append(ss, s)
    BY <1>5
  <2> HIDE DEF s, ss
  <2>3. FlattenSeq(Append(ss, s)) = FlattenSeq(ss) \o s
    BY <2>1, FlattenSteps DEF Tokenlist
  <2> QED
    BY <2>2, <2>3 DEF Joined, s, ss
<1> QED
  BY <1>7, <1>8, <1>9, FlattenSteps DEF Joined

LEMMA NoTokens == <<>> \in Tokenlist /\ <<>> \in Seq(Symbol) /\ <<>> \in Seq(Unspaced)
<1>1. <<>> \in Tokenlist
  BY DEF Tokenlist
<1>2. <<>> \in Seq(Symbol)
  OBVIOUS
<1>3. <<>> \in Seq(Unspaced)
  OBVIOUS
<1> QED
  BY <1>1, <1>2, <1>3

(* A token without a space is taken into the last one whole.               *)
LEMMA TakesAToken ==
  ASSUME NEW ts \in Tokenlist, NEW t \in Seq(Unspaced)
  PROVE  TokensFrom(ts, <<Space>> \o t) = Append(ts, t)
<1> DEFINE begun == Append(ts, <<>>)
           T == {s \in Seq(Unspaced) : TokensFrom(begun, s) = Append(ts, s)}
<1>1. begun \in Tokenlist
  BY NoTokens, AppendProperties DEF Tokenlist
<1> HIDE DEF begun
<1>2. <<>> \in T
  BY <1>1, NoTokens, TokensFromSteps DEF begun
<1>3. ASSUME NEW s \in T, NEW c \in Unspaced PROVE Append(s, c) \in T
  <2>1. s \in Seq(Unspaced) /\ s \in Seq(Symbol) /\ c \in Symbol /\ c # Space
    BY SpaceIsASymbol DEF Unspaced
  <2>2. TokensFrom(begun, s) = Append(ts, s)
    OBVIOUS
  <2>3. TokensFrom(begun, Append(s, c)) = Separate(TokensFrom(begun, s), c)
    BY <1>1, <2>1, TokensFromSteps
  <2>4. Separate(Append(ts, s), c) = Append(ts, Append(s, c))
    BY <2>1, SeparateIs
  <2>5. Append(s, c) \in Seq(Unspaced)
    BY <2>1, AppendProperties
  <2> QED
    BY <2>2, <2>3, <2>4, <2>5
<1>4. T = Seq(Unspaced)
  <2>1. T \in SUBSET Seq(Unspaced)
    OBVIOUS
  <2> HIDE DEF T
  <2> QED
    BY <1>2, <1>3, <2>1, EverySequenceIsReached
<1>5. TokensFrom(begun, t) = Append(ts, t)
  BY <1>4
<1>6. TokensFrom(ts, <<Space>>) = begun
  <2>1. <<>> \in Seq(Symbol) /\ Append(<<>>, Space) = <<Space>>
    OBVIOUS
  <2>2. TokensFrom(ts, Append(<<>>, Space)) = Separate(TokensFrom(ts, <<>>), Space)
    BY <2>1, SpaceIsASymbol, TokensFromSteps
  <2>3. TokensFrom(ts, <<>>) = ts
    BY TokensFromSteps
  <2> QED
    BY <2>1, <2>2, <2>3 DEF Separate, begun
<1>7. <<Space>> \in Seq(Symbol) /\ t \in Seq(Symbol)
  BY SpaceIsASymbol
<1>8. TokensFrom(ts, <<Space>> \o t) = TokensFrom(TokensFrom(ts, <<Space>>), t)
  BY <1>7, TokensFromSteps
<1> QED
  BY <1>5, <1>6, <1>8

LEMMA TokensOfALine ==
  \A sent \in Seq(Symbol) : Tokens(sent) = TokensFrom(<<>>, <<Space>> \o sent)
<1> TAKE sent \in Seq(Symbol)
<1>1. <<Space>> \in Seq(Symbol)
  BY SpaceIsASymbol
<1>2. TokensFrom(<<>>, <<Space>> \o sent) = TokensFrom(TokensFrom(<<>>, <<Space>>), sent)
  <2> DEFINE none == <<>>
             space == <<Space>>
  <2>1. none \in Tokenlist /\ space \in Seq(Symbol)
    BY <1>1, NoTokens
  <2> HIDE DEF none, space
  <2>2. \A s \in Seq(Symbol) : \A t \in Seq(Symbol) :
          TokensFrom(none, s \o t) = TokensFrom(TokensFrom(none, s), t)
    BY <2>1, TokensFromSteps
  <2>3. TokensFrom(none, space \o sent) = TokensFrom(TokensFrom(none, space), sent)
    BY <2>1, <2>2
  <2> QED
    BY <2>3 DEF none, space
<1>3. TokensFrom(<<>>, <<Space>> \o <<>>) = Append(<<>>, <<>>)
  BY NoTokens, TakesAToken
<1>4. <<Space>> \o <<>> = <<Space>> /\ Append(<<>>, <<>>) = <<<<>>>>
  BY <1>1, ConcatEmptySeq
<1>5. Tokens(sent) = TokensFrom(<<<<>>>>, sent)
  BY DEF Tokens, TokensFrom
<1> QED
  BY <1>2, <1>3, <1>4, <1>5

(* The tokens of a join of tokens are those.                               *)
LEMMA TokensOfAJoin ==
  \A ts \in Seq(Seq(Unspaced)) : ts \in Tokenlist /\ TokensFrom(<<>>, Joined(ts)) = ts
<1> DEFINE T == {ts \in Seq(Seq(Unspaced)) : ts \in Tokenlist /\ TokensFrom(<<>>, Joined(ts)) = ts}
<1>1. <<>> \in T
  <2>1. <<>> \in Seq(Seq(Unspaced))
    OBVIOUS
  <2> QED
    BY <2>1, NoTokens, JoinedSteps, TokensFromSteps
<1>2. ASSUME NEW ts \in T, NEW t \in Seq(Unspaced) PROVE Append(ts, t) \in T
  <2>1. ts \in Seq(Seq(Unspaced)) /\ ts \in Tokenlist /\ TokensFrom(<<>>, Joined(ts)) = ts
    OBVIOUS
  <2>2. t \in Seq(Symbol) /\ <<Space>> \in Seq(Symbol)
    BY SpaceIsASymbol
  <2>3. Append(ts, t) \in Seq(Seq(Unspaced)) /\ Append(ts, t) \in Tokenlist
    BY <2>1, <2>2, AppendProperties DEF Tokenlist
  <2>4. <<Space>> \o t \in Seq(Symbol) /\ Joined(ts) \in Seq(Symbol)
    BY <2>1, <2>2, ConcatProperties, JoinedSteps
  <2>5. Joined(Append(ts, t)) = Joined(ts) \o (<<Space>> \o t)
    BY <2>1, <2>2, JoinedSteps
  <2>6. TokensFrom(<<>>, Joined(ts) \o (<<Space>> \o t))
          = TokensFrom(TokensFrom(<<>>, Joined(ts)), <<Space>> \o t)
    <3> DEFINE none == <<>>
               word == <<Space>> \o t
               s == Joined(ts)
    <3>1. none \in Tokenlist /\ word \in Seq(Symbol) /\ s \in Seq(Symbol)
      BY <2>4, NoTokens
    <3> HIDE DEF none, word, s
    <3>2. TokensFrom(none, s \o word) = TokensFrom(TokensFrom(none, s), word)
      BY <3>1, TokensFromSteps
    <3> QED
      BY <3>2 DEF none, word, s
  <2>7. TokensFrom(ts, <<Space>> \o t) = Append(ts, t)
    BY <2>1, TakesAToken
  <2> QED
    BY <2>1, <2>3, <2>5, <2>6, <2>7
<1>3. T = Seq(Seq(Unspaced))
  <2>1. T \in SUBSET Seq(Seq(Unspaced))
    OBVIOUS
  <2> HIDE DEF T
  <2> QED
    BY <1>1, <1>2, <2>1, EverySequenceIsReached
<1> QED
  BY <1>3

(* And a line is the join of its tokens, which are without a space.        *)
LEMMA JoinOfTheTokens ==
  \A sent \in Seq(Symbol) :
    /\ Tokens(sent) \in Seq(Seq(Unspaced)) /\ Tokens(sent) # <<>>
    /\ Joined(Tokens(sent)) = <<Space>> \o sent
<1> DEFINE ended(sent) ==
             \E front \in Seq(Seq(Unspaced)) : \E last \in Seq(Unspaced) :
               /\ TokensFrom(<<>>, <<Space>> \o sent) = Append(front, last)
               /\ Joined(Append(front, last)) = <<Space>> \o sent
           T == {sent \in Seq(Symbol) : ended(sent)}
<1>1. ASSUME NEW front \in Seq(Seq(Unspaced)), NEW last \in Seq(Unspaced)
      PROVE  /\ front \in Tokenlist /\ last \in Seq(Symbol) /\ Append(front, last) \in Seq(Seq(Unspaced))
             /\ Joined(Append(front, last)) = Joined(front) \o (<<Space>> \o last)
             /\ Joined(front) \in Seq(Symbol)
  BY SpaceIsASymbol, TokensOfAJoin, AppendProperties, JoinedSteps
<1>2. <<Space>> \in Seq(Symbol)
  BY SpaceIsASymbol
<1>3. <<>> \in T
  <2>1. <<>> \in Seq(Seq(Unspaced)) /\ Joined(<<>>) = <<>>
    BY JoinedSteps
  <2>2. TokensFrom(<<>>, <<Space>> \o <<>>) = Append(<<>>, <<>>)
    BY NoTokens, TakesAToken
  <2>3. <<Space>> \o <<>> = <<Space>> /\ <<>> \o <<Space>> = <<Space>>
    BY <1>2, ConcatEmptySeq
  <2>4. Joined(Append(<<>>, <<>>)) = <<Space>> \o <<>>
    BY <2>1, <2>3, <1>1, NoTokens
  <2> QED
    BY <2>1, <2>2, <2>4, NoTokens
<1>4. ASSUME NEW sent \in T, NEW c \in Symbol PROVE Append(sent, c) \in T
  <2>1. sent \in Seq(Symbol) /\ ended(sent)
    OBVIOUS
  <2>2. PICK front \in Seq(Seq(Unspaced)) : \E last \in Seq(Unspaced) :
               /\ TokensFrom(<<>>, <<Space>> \o sent) = Append(front, last)
               /\ Joined(Append(front, last)) = <<Space>> \o sent
    BY <2>1
  <2>3. PICK last \in Seq(Unspaced) :
               /\ TokensFrom(<<>>, <<Space>> \o sent) = Append(front, last)
               /\ Joined(Append(front, last)) = <<Space>> \o sent
    BY <2>2
  <2> HIDE DEF T
  <2>4. /\ front \in Tokenlist /\ last \in Seq(Symbol) /\ <<Space>> \o sent \in Seq(Symbol)
        /\ Append(sent, c) \in Seq(Symbol) /\ <<c>> \in Seq(Symbol) /\ Joined(front) \in Seq(Symbol)
    BY <1>1, <1>2, <2>1, ConcatProperties, AppendProperties
  <2>5. <<Space>> \o Append(sent, c) = Append(<<Space>> \o sent, c)
        /\ <<Space>> \o Append(sent, c) = (<<Space>> \o sent) \o <<c>>
    <3>1. Append(sent, c) = sent \o <<c>>
      BY <2>1, AppendIsConcat
    <3>2. <<Space>> \o (sent \o <<c>>) = (<<Space>> \o sent) \o <<c>>
      BY SMTT(30), <1>2, <2>1, <2>4, ConcatAssociative
    <3>3. Append(<<Space>> \o sent, c) = (<<Space>> \o sent) \o <<c>>
      BY <2>4, AppendIsConcat
    <3> QED
      BY <3>1, <3>2, <3>3
  <2>6. TokensFrom(<<>>, <<Space>> \o Append(sent, c)) = Separate(Append(front, last), c)
    <3>1. TokensFrom(<<>>, Append(<<Space>> \o sent, c))
            = Separate(TokensFrom(<<>>, <<Space>> \o sent), c)
      <4> DEFINE none == <<>>
                 s == <<Space>> \o sent
      <4>1. none \in Tokenlist /\ s \in Seq(Symbol)
        BY <2>4, NoTokens
      <4> HIDE DEF none, s
      <4>2. TokensFrom(none, Append(s, c)) = Separate(TokensFrom(none, s), c)
        BY <4>1, TokensFromSteps
      <4> QED
        BY <4>2 DEF none, s
    <3> QED
      BY <2>3, <2>5, <3>1
  <2>7. CASE c = Space
    <3> DEFINE longer == Append(front, last)
    <3>1. longer \in Seq(Seq(Unspaced))
      BY <1>1
    <3>2. Separate(longer, c) = Append(longer, <<>>)
      BY <2>4, <2>7, SeparateIs
    <3>3. Joined(longer) = <<Space>> \o sent
      BY <2>3
    <3> HIDE DEF longer
    <3>4. Joined(Append(longer, <<>>)) = Joined(longer) \o (<<Space>> \o <<>>)
      BY <1>1, <3>1, NoTokens
    <3>5. <<Space>> \o <<>> = <<c>>
      BY <1>2, <2>7, ConcatEmptySeq
    <3>6. Joined(Append(longer, <<>>)) = <<Space>> \o Append(sent, c)
      BY <2>5, <3>3, <3>4, <3>5
    <3>7. TokensFrom(<<>>, <<Space>> \o Append(sent, c)) = Append(longer, <<>>)
      BY <2>6, <3>2 DEF longer
    <3>8. ended(Append(sent, c))
      BY <3>1, <3>6, <3>7, NoTokens
    <3> QED
      BY <2>4, <3>8 DEF T
  <2>8. CASE c # Space
    <3> DEFINE word == Append(last, c)
    <3>1. c \in Unspaced
      BY <2>8 DEF Unspaced
    <3>2. word \in Seq(Unspaced)
      BY <3>1, AppendProperties
    <3>3. Separate(Append(front, last), c) = Append(front, word)
      BY <2>4, <2>8, SeparateIs
    <3>4. word = last \o <<c>>
      BY <2>4, AppendIsConcat
    <3> HIDE DEF word
    <3>5. Joined(Append(front, word)) = Joined(front) \o (<<Space>> \o word)
      BY <1>1, <3>2
    <3>6. <<Space>> \o word = (<<Space>> \o last) \o <<c>>
      BY <1>2, <2>4, <3>4, ConcatAssociative
    <3>7. <<Space>> \o last \in Seq(Symbol)
      BY <1>2, <2>4, ConcatProperties
    <3>8. Joined(front) \o ((<<Space>> \o last) \o <<c>>) = (Joined(front) \o (<<Space>> \o last)) \o <<c>>
      BY <2>4, <3>7, ConcatAssociative
    <3>9. Joined(front) \o (<<Space>> \o last) = <<Space>> \o sent
      BY <1>1, <2>3
    <3>10. Joined(Append(front, word)) = <<Space>> \o Append(sent, c)
      BY <2>5, <3>5, <3>6, <3>8, <3>9
    <3>11. TokensFrom(<<>>, <<Space>> \o Append(sent, c)) = Append(front, word)
      BY <2>6, <3>3
    <3>12. ended(Append(sent, c))
      BY <3>2, <3>10, <3>11
    <3> QED
      BY <2>4, <3>12 DEF T
  <2> QED
    BY <2>7, <2>8
<1>5. T = Seq(Symbol)
  <2>1. T \in SUBSET Seq(Symbol)
    OBVIOUS
  <2> HIDE DEF T
  <2> QED
    BY <1>3, <1>4, <2>1, EverySequenceIsReached
<1>6. ASSUME NEW sent \in Seq(Symbol)
      PROVE  /\ Tokens(sent) \in Seq(Seq(Unspaced)) /\ Tokens(sent) # <<>>
             /\ Joined(Tokens(sent)) = <<Space>> \o sent
  <2>1. ended(sent)
    BY <1>5
  <2>2. PICK front \in Seq(Seq(Unspaced)) : \E last \in Seq(Unspaced) :
               /\ TokensFrom(<<>>, <<Space>> \o sent) = Append(front, last)
               /\ Joined(Append(front, last)) = <<Space>> \o sent
    BY <2>1
  <2>3. PICK last \in Seq(Unspaced) :
               /\ TokensFrom(<<>>, <<Space>> \o sent) = Append(front, last)
               /\ Joined(Append(front, last)) = <<Space>> \o sent
    BY <2>2
  <2>4. Tokens(sent) = Append(front, last)
    BY <2>3, TokensOfALine
  <2>5. Append(front, last) \in Seq(Seq(Unspaced)) /\ Append(front, last) # <<>>
    BY SMTT(30), AppendProperties
  <2> QED
    BY <2>3, <2>4, <2>5
<1> QED
  BY <1>6

LEMMA JoinedOfAJoin ==
  ASSUME NEW ts \in Tokenlist
  PROVE  \A us \in Tokenlist : Joined(ts \o us) = Joined(ts) \o Joined(us)
<1> DEFINE S == Seq(Symbol)
           T == {us \in Seq(S) : Joined(ts \o us) = Joined(ts) \o Joined(us)}
<1>1. <<>> \in T
  <2>1. ts \o <<>> = ts
    BY ConcatEmptySeq DEF Tokenlist
  <2>2. Joined(ts) \o <<>> = Joined(ts)
    BY JoinedSteps, ConcatEmptySeq
  <2>3. <<>> \in Seq(S)
    OBVIOUS
  <2> QED
    BY <2>1, <2>2, <2>3, JoinedSteps
<1>2. ASSUME NEW us \in T, NEW t \in S PROVE Append(us, t) \in T
  <2> DEFINE word == <<Space>> \o t
  <2>1. us \in Tokenlist /\ Joined(ts \o us) = Joined(ts) \o Joined(us)
    BY DEF Tokenlist
  <2>2. ts \o us \in Tokenlist /\ Append(us, t) \in Seq(S) /\ <<t>> \in Tokenlist
    BY <2>1, ConcatProperties, AppendProperties DEF Tokenlist
  <2>3. ts \o Append(us, t) = Append(ts \o us, t)
    <3>1. Append(us, t) = us \o <<t>> /\ Append(ts \o us, t) = (ts \o us) \o <<t>>
      BY <2>1, <2>2, AppendIsConcat DEF Tokenlist
    <3>2. ts \o (us \o <<t>>) = (ts \o us) \o <<t>>
      BY <2>1, <2>2, ConcatAssociative DEF Tokenlist
    <3> QED
      BY <3>1, <3>2
  <2>4. word \in Seq(Symbol) /\ Joined(ts) \in Seq(Symbol) /\ Joined(us) \in Seq(Symbol)
    BY <2>1, SpaceIsASymbol, ConcatProperties, JoinedSteps
  <2>5. /\ Joined(Append(ts \o us, t)) = Joined(ts \o us) \o word
        /\ Joined(Append(us, t)) = Joined(us) \o word
    BY <2>1, <2>2, JoinedSteps
  <2> HIDE DEF word
  <2>6. (Joined(ts) \o Joined(us)) \o word = Joined(ts) \o (Joined(us) \o word)
    <3> DEFINE a == Joined(ts)
               b == Joined(us)
    <3>1. a \in Seq(Symbol) /\ b \in Seq(Symbol)
      BY <2>4
    <3> HIDE DEF a, b, T, S
    <3>2. (a \o b) \o word = a \o (b \o word)
      BY SMTT(30), <2>4, <3>1, ConcatAssociative
    <3> QED
      BY <3>2 DEF a, b
  <2> QED
    BY <2>1, <2>2, <2>3, <2>5, <2>6
<1>3. T = Seq(S)
  <2>1. T \in SUBSET Seq(S)
    OBVIOUS
  <2> HIDE DEF T, S
  <2> QED
    BY <1>1, <1>2, <2>1, EverySequenceIsReached
<1> QED
  BY <1>3 DEF Tokenlist

LEMMA JoinedWidth ==
  /\ Width(Joined(<<>>)) = 0
  /\ \A ts \in Tokenlist : Width(Joined(ts)) \in Nat
  /\ \A ts \in Tokenlist : \A t \in Seq(Symbol) :
       Width(Joined(Append(ts, t))) = Width(Joined(ts)) + 1 + Width(t)
<1>1. Width(Joined(<<>>)) = 0
  BY JoinedSteps, WidthIsASum
<1>2. \A ts \in Tokenlist : Width(Joined(ts)) \in Nat
  BY JoinedSteps, WidthIsASum
<1>3. ASSUME NEW ts \in Tokenlist, NEW t \in Seq(Symbol)
      PROVE  Width(Joined(Append(ts, t))) = Width(Joined(ts)) + 1 + Width(t)
  <2> DEFINE word == <<Space>> \o t
  <2>1. <<Space>> \in Seq(Symbol) /\ WidthOf(Space) = 1 /\ Joined(ts) \in Seq(Symbol)
    BY SpaceIsASymbol, JoinedSteps DEF WidthOf, Space
  <2>2. word \in Seq(Symbol) /\ Width(word) = 1 + Width(t) /\ Width(t) \in Nat
    <3> DEFINE space == <<Space>>
    <3>1. space \in Seq(Symbol) /\ word = space \o t
      BY <2>1
    <3>2. Width(space) = 1
      BY <2>1, SpaceIsASymbol, WidthIsASum
    <3> HIDE DEF space, word
    <3>3. word \in Seq(Symbol)
      BY <3>1, ConcatProperties
    <3>4. Width(word) = Width(space) + Width(t) /\ Width(t) \in Nat
      BY <3>1, WidthIsASum
    <3> QED
      BY <3>2, <3>3, <3>4
  <2>3. Joined(Append(ts, t)) = Joined(ts) \o word
    BY JoinedSteps
  <2> HIDE DEF word
  <2>4. Width(Joined(ts) \o word) = Width(Joined(ts)) + Width(word)
    BY <2>1, <2>2, WidthIsASum
  <2> QED
    BY <1>2, <2>2, <2>3, <2>4
<1> QED
  BY <1>1, <1>2, <1>3

(* A join of tokens begins with a space; its rest has those tokens.        *)
LEMMA TailOfAPrepended ==
  ASSUME NEW S, NEW x \in S, NEW s \in Seq(S)
  PROVE  Tail(<<x>> \o s) = s
<1> DEFINE u == <<x>> \o s
           t == Tail(u)
<1>1. <<x>> \in Seq(S) /\ Len(<<x>>) = 1
  OBVIOUS
<1>2. /\ u \in Seq(S) /\ Len(u) = 1 + Len(s) /\ Len(s) \in Nat
      /\ \A i \in 1 .. 1 + Len(s) : u[i] = IF i <= 1 THEN <<x>>[i] ELSE s[i - 1]
  <2>1. \A i \in 1 .. Len(<<x>>) + Len(s) :
          u[i] = IF i <= Len(<<x>>) THEN <<x>>[i] ELSE s[i - Len(<<x>>)]
    BY <1>1, ConcatProperties
  <2> QED
    BY <1>1, <2>1, ConcatProperties, LenProperties
<1> HIDE DEF u
<1>3. u # <<>>
  BY <1>2
<1>4. t \in Seq(S) /\ Len(t) = Len(u) - 1 /\ \A i \in 1 .. Len(t) : t[i] = u[i + 1]
  BY <1>2, <1>3, HeadTailProperties
<1> HIDE DEF t
<1>5. Len(t) = Len(s) /\ \A i \in 1 .. Len(t) : t[i] = s[i]
  <2>1. Len(t) = Len(s)
    BY <1>2, <1>4
  <2>2. ASSUME NEW i \in 1 .. Len(t) PROVE t[i] = s[i]
    <3>1. i + 1 \in 1 .. 1 + Len(s) /\ ~(i + 1 <= 1) /\ (i + 1) - 1 = i
      BY <1>2, <2>1
    <3> QED
      BY <1>2, <1>4, <3>1
  <2> QED
    BY <2>1, <2>2
<1> QED
  BY <1>4, <1>5, SeqEqual DEF t, u

LEMMA JoinedBeginsWithASpace ==
  \A ts \in Tokenlist : ts # <<>> => \E s \in Seq(Symbol) : Joined(ts) = <<Space>> \o s
<1> DEFINE S == Seq(Symbol)
           T == {ts \in Seq(S) : ts # <<>> => \E s \in S : Joined(ts) = <<Space>> \o s}
<1>1. <<>> \in T
  OBVIOUS
<1>2. ASSUME NEW ts \in T, NEW t \in S PROVE Append(ts, t) \in T
  <2> DEFINE word == <<Space>> \o t
  <2>1. ts \in Tokenlist /\ (ts # <<>> => \E s \in S : Joined(ts) = <<Space>> \o s)
    BY DEF Tokenlist
  <2>2. Append(ts, t) \in Seq(S)
    BY AppendProperties
  <2>3. Joined(Append(ts, t)) = Joined(ts) \o word
    BY <2>1, JoinedSteps
  <2>4. <<Space>> \in S /\ word \in S
    BY SpaceIsASymbol, ConcatProperties
  <2>5. CASE ts = <<>>
    <3>1. Joined(ts) = <<>>
      BY <2>5, JoinedSteps
    <3>2. <<>> \o word = word
      BY <2>4, ConcatEmptySeq
    <3> QED
      BY <2>2, <2>3, <3>1, <3>2
  <2>6. CASE ts # <<>>
    <3>1. PICK s \in S : Joined(ts) = <<Space>> \o s
      BY <2>1, <2>6
    <3> HIDE DEF word
    <3>2. (<<Space>> \o s) \o word = <<Space>> \o (s \o word) /\ s \o word \in S
      BY <2>4, ConcatAssociative, ConcatProperties
    <3> QED
      BY <2>2, <2>3, <3>1, <3>2
  <2> QED
    BY <2>5, <2>6
<1>3. T = Seq(S)
  <2>1. T \in SUBSET Seq(S)
    OBVIOUS
  <2> HIDE DEF T, S
  <2> QED
    BY <1>1, <1>2, <2>1, EverySequenceIsReached
<1> QED
  BY <1>3 DEF Tokenlist

LEMMA LineOfTokens ==
  ASSUME NEW ts \in Seq(Seq(Unspaced)), ts # <<>>
  PROVE  /\ Tail(Joined(ts)) \in Seq(Symbol)
         /\ <<Space>> \o Tail(Joined(ts)) = Joined(ts)
         /\ Tokens(Tail(Joined(ts))) = ts
         /\ Width(Joined(ts)) = 1 + Width(Tail(Joined(ts)))
<1>1. ts \in Tokenlist /\ TokensFrom(<<>>, Joined(ts)) = ts
  BY TokensOfAJoin
<1>2. PICK s \in Seq(Symbol) : Joined(ts) = <<Space>> \o s
  BY <1>1, JoinedBeginsWithASpace
<1>3. Tail(Joined(ts)) = s
  BY <1>2, SpaceIsASymbol, TailOfAPrepended
<1>4. Tokens(s) = ts
  BY <1>1, <1>2, TokensOfALine
<1>5. WidthOf(Space) = 1 /\ <<Space>> \in Seq(Symbol)
  BY SpaceIsASymbol DEF WidthOf, Space
<1>6. Width(<<Space>> \o s) = 1 + Width(s)
  BY <1>5, SpaceIsASymbol, WidthIsASum
<1> QED
  BY <1>2, <1>3, <1>4, <1>6

LEMMA LineIsItsTokens ==
  ASSUME NEW sent \in Seq(Symbol)
  PROVE  /\ Tokens(sent) \in Seq(Seq(Unspaced)) /\ Tokens(sent) \in Tokenlist
         /\ Tokens(sent) # <<>>
         /\ Width(Joined(Tokens(sent))) = 1 + Width(sent)
         /\ \A t \in Seq(Symbol) : Joined(Tokens(sent)) = <<Space>> \o t => t = sent
<1>1. /\ Tokens(sent) \in Seq(Seq(Unspaced)) /\ Tokens(sent) # <<>>
      /\ Joined(Tokens(sent)) = <<Space>> \o sent
  BY JoinOfTheTokens
<1>2. Tail(<<Space>> \o sent) = sent /\ \A t \in Seq(Symbol) : Tail(<<Space>> \o t) = t
  BY SpaceIsASymbol, TailOfAPrepended
<1>3. WidthOf(Space) = 1 /\ <<Space>> \in Seq(Symbol)
  BY SpaceIsASymbol DEF WidthOf, Space
<1>4. Width(<<Space>> \o sent) = 1 + Width(sent)
  BY <1>3, SpaceIsASymbol, WidthIsASum
<1>5. Tokens(sent) \in Tokenlist
  BY <1>1, TokensOfAJoin
<1> QED
  BY <1>1, <1>2, <1>4, <1>5

-----------------------------------------------------------------------------
(* The least and the greatest of a set, when one is known to be it.        *)
LEMMA LeastIs ==
  ASSUME NEW S \in SUBSET Int, NEW n \in S, \A m \in S : n <= m
  PROVE  Min(S) = n
<1>1. Min(S) \in S /\ \A m \in S : Min(S) <= m
  <2>1. \E x \in S : \A y \in S : x <= y
    OBVIOUS
  <2> QED
    BY <2>1, Zenon DEF Min
<1>2. Min(S) \in Int /\ n \in Int /\ Min(S) <= n /\ n <= Min(S)
  BY <1>1
<1> QED
  BY <1>2

LEMMA GreatestIs ==
  ASSUME NEW S \in SUBSET Int, NEW n \in S, \A m \in S : n >= m
  PROVE  Max(S) = n
<1>1. Max(S) \in S /\ \A m \in S : Max(S) >= m
  <2>1. \E x \in S : \A y \in S : x >= y
    OBVIOUS
  <2> QED
    BY <2>1, Zenon DEF Max
<1>2. Max(S) \in Int /\ n \in Int /\ Max(S) >= n /\ n >= Max(S)
  BY <1>1
<1> QED
  BY <1>2

LEMMA LeastIsReached ==
  ASSUME NEW S \in SUBSET Nat, S # {}
  PROVE  Min(S) \in S /\ \A y \in S : Min(S) <= y
<1>1. \E x \in S : \A y \in S : x <= y
  <2> SUFFICES ASSUME \A x \in S : \E y \in S : ~(x <= y)
               PROVE  FALSE
    OBVIOUS
  <2> DEFINE T == Nat \ S
  <2>1. ASSUME NEW u \in Nat, \A w \in Nat : w < u => w \in T PROVE u \in T
    <3> SUFFICES ASSUME u \in S PROVE FALSE
      OBVIOUS
    <3>1. PICK y \in S : ~(u <= y)
      OBVIOUS
    <3>2. y \in Nat /\ y < u
      BY <3>1
    <3> QED
      BY <2>1, <3>2
  <2>2. T \in SUBSET Nat
    OBVIOUS
  <2> HIDE DEF T
  <2>3. T = Nat
    BY <2>1, <2>2, EveryNaturalByThoseBelow
  <2> QED
    BY <2>3 DEF T
<1> QED
  BY <1>1 DEF Min

FieldToken(name, v) == <<Word(name), EqualsSign>> \o v

(* The tokens of a message.                                                *)
LEMMA WidthOfTwo ==
  ASSUME NEW a \in Symbol, NEW b \in Symbol
  PROVE  Width(<<a, b>>) = WidthOf(a) + WidthOf(b)
<1> DEFINE one == <<a>>
<1>1. Append(one, b) = <<a, b>>
  <2>1. Append(<<a>>, b) = <<a, b>> /\ Append(<<a, b>>, b) = <<a, b, b>>
    BY ShortAppends
  <2> QED
    BY <2>1
<1>2. one \in Seq(Symbol)
  BY SingletonIsASeq
<1>3. Width(one) = WidthOf(a)
  BY WidthIsASum
<1> HIDE DEF one
<1> QED
  BY <1>1, <1>2, <1>3, WidthIsASum

LEMMA TokenParts ==
  ASSUME NEW name \in ToSet(Names), NEW v \in Seq(Symbol)
  PROVE  LET t == FieldToken(name, v)
         IN  /\ t \in Seq(Symbol) /\ Len(t) = 2 + Len(v)
             /\ NameEnd(t) = 2 /\ NameOf(t) = <<Word(name)>> /\ ValueOf(t) = v
             /\ <<Space, Word(name), EqualsSign>> \o v = <<Space>> \o t
             /\ Width(t) = Len(name) + 1 + Width(v)
<1> DEFINE w == Word(name)
           p == <<w, EqualsSign>>
           t == p \o v
<1>1. /\ w \in Symbol /\ w # EqualsSign /\ w > 255 /\ Names[w - 255] = name
      /\ EqualsSign \in Symbol
  <2>1. EqualsSign \in 0 .. 255
    BY DEF EqualsSign
  <2> QED
    <3>1. Word(name) \in Symbol /\ Word(name) > 255 /\ Names[Word(name) - 255] = name
      BY WordsAreSymbols
    <3>2. Word(name) # EqualsSign
      BY GlyphsAre
    <3>3. EqualsSign \in Symbol
      BY <2>1, CharactersAreSymbols
    <3> QED
      BY <3>1, <3>2, <3>3
<1>2. WidthOf(w) = Len(name) /\ WidthOf(EqualsSign) = 1
  BY <1>1 DEF WidthOf, EqualsSign
<1> HIDE DEF w
<1>3. p \in Seq(Symbol) /\ Len(p) = 2 /\ p[1] = w /\ p[2] = EqualsSign
  BY <1>1
<1>4. Width(p) = Len(name) + 1
  <2>1. Width(p) = WidthOf(w) + WidthOf(EqualsSign)
    BY <1>1, WidthOfTwo
  <2> QED
    BY <1>2, <2>1
<1>5. <<Space>> \o p = <<Space, w, EqualsSign>>
  <2>1. <<w>> \o <<EqualsSign>> = p /\ <<Space>> \o <<w>> = <<Space, w>>
        /\ <<Space, w>> \o <<EqualsSign>> = <<Space, w, EqualsSign>>
    BY JoinOfOnes, JoinOfThree
  <2> DEFINE a == <<Space>>
             b == <<w>>
             c == <<EqualsSign>>
  <2>2. a \in Seq(Symbol) /\ b \in Seq(Symbol) /\ c \in Seq(Symbol)
    BY <1>1, SpaceIsASymbol
  <2> HIDE DEF a, b, c
  <2>3. (a \o b) \o c = a \o (b \o c)
    BY <2>2, ConcatAssociative
  <2> QED
    BY <2>1, <2>3 DEF a, b, c
<1> HIDE DEF p
<1>6. /\ t \in Seq(Symbol) /\ Len(t) = 2 + Len(v) /\ Len(v) \in Nat
      /\ \A i \in 1 .. 2 + Len(v) : t[i] = IF i <= 2 THEN p[i] ELSE v[i - 2]
  <2>1. \A i \in 1 .. Len(p) + Len(v) : t[i] = IF i <= Len(p) THEN p[i] ELSE v[i - Len(p)]
    BY <1>3, ConcatProperties
  <2>2. Len(v) \in Nat /\ t \in Seq(Symbol) /\ Len(t) = Len(p) + Len(v)
    BY <1>3, ConcatProperties, LenProperties
  <2> HIDE DEF t
  <2> QED
    BY <1>3, <2>1, <2>2
<1>7. <<Space>> \o t = <<Space, w, EqualsSign>> \o v
  <2> DEFINE a == <<Space>>
  <2>1. a \in Seq(Symbol)
    BY SpaceIsASymbol
  <2> HIDE DEF a
  <2>2. \A x \in Seq(Symbol) : (a \o p) \o x = a \o (p \o x)
    BY <1>3, <2>1, ConcatAssociative
  <2> QED
    BY <1>5, <2>2 DEF a
<1>8. Width(t) = Len(name) + 1 + Width(v)
  BY <1>3, <1>4, WidthIsASum
<1> HIDE DEF t
<1>9. t[1] = w /\ t[2] = EqualsSign
  BY <1>3, <1>6
<1> DEFINE I == {i \in 1 .. Len(t) : t[i] = EqualsSign}
<1>10. NameEnd(t) = IF I # {} THEN Min(I) ELSE 0
  BY DEF NameEnd, SelectInSeq
<1>11. 2 \in I /\ 1 \notin I /\ I \in SUBSET Nat
  BY <1>1, <1>6, <1>9
<1> HIDE DEF I
<1>12. Min(I) \in I /\ \A y \in I : Min(I) <= y
  BY <1>11, LeastIsReached
<1>13. \A y \in I : y \in Nat /\ y >= 1
  BY <1>6 DEF I
<1>14. NameEnd(t) = 2
  <2>1. Min(I) \in Nat /\ Min(I) >= 1 /\ Min(I) <= 2 /\ Min(I) # 1
    BY <1>11, <1>12, <1>13
  <2> QED
    BY <1>10, <1>11, <2>1
<1>15. NameOf(t) = <<w>>
  <2> DEFINE s == SubSeq(t, 1, 1)
             one == <<w>>
  <2>2. Len(s) = 1 /\ s[1] = t[1] /\ s \in Seq(Symbol)
    BY <1>6
  <2>3. Len(one) = 1 /\ one[1] = w /\ one \in Seq(Symbol)
    BY <1>1
  <2> HIDE DEF s, one
  <2>4. \A i \in 1 .. Len(s) : s[i] = one[i]
    BY <1>9, <2>2, <2>3
  <2>5. s = one
    BY <2>2, <2>3, <2>4, SeqEqual
  <2>1. SubSeq(t, 1, 1) = <<t[1]>>
    BY <1>9, <2>5 DEF s, one
  <2> QED
    BY <1>9, <1>14, <2>1 DEF NameOf
<1>16. ValueOf(t) = v
  <2>1. ValueOf(t) = SubSeq(t, 3, Len(t))
    BY <1>14 DEF ValueOf
  <2> DEFINE s == SubSeq(t, 3, Len(t))
  <2>2. /\ s \in Seq(Symbol) /\ Len(s) = Len(v)
        /\ \A i \in 1 .. Len(v) : s[i] = t[i + 2]
    BY <1>6
  <2> HIDE DEF s
  <2>3. \A i \in 1 .. Len(v) : s[i] = v[i]
    <3> TAKE i \in 1 .. Len(v)
    <3>1. i + 2 \in 1 .. 2 + Len(v) /\ ~(i + 2 <= 2) /\ (i + 2) - 2 = i
      BY <1>6
    <3> QED
      BY <1>6, <2>2, <3>1
  <2>4. s = v
    BY <2>2, <2>3, SeqEqual
  <2> QED
    BY <2>1, <2>4 DEF s
<1> QED
  BY <1>6, <1>7, <1>8, <1>14, <1>15, <1>16 DEF t, p, w, FieldToken

(* The other way round: a token with a name that the tables know is one.   *)
LEMMA TokenIsItsParts ==
  ASSUME NEW name \in ToSet(Names), NEW t \in Seq(Symbol),
         NameEnd(t) > 1, NameOf(t) = <<Word(name)>>
  PROVE  ValueOf(t) \in Seq(Symbol) /\ t = FieldToken(name, ValueOf(t))
<1> DEFINE w == Word(name)
           p == <<w, EqualsSign>>
           v == ValueOf(t)
           I == {i \in 1 .. Len(t) : t[i] = EqualsSign}
<1>1. w \in Symbol /\ EqualsSign \in Symbol
  <2>1. EqualsSign \in 0 .. 255
    BY DEF EqualsSign
  <2> QED
    BY <2>1, CharactersAreSymbols, WordsAreSymbols
<1> HIDE DEF w
<1>2. p \in Seq(Symbol) /\ Len(p) = 2 /\ p[1] = w /\ p[2] = EqualsSign
  BY <1>1
<1>3. NameEnd(t) = IF I # {} THEN Min(I) ELSE 0
  BY DEF NameEnd, SelectInSeq
<1>4. I \in SUBSET Nat /\ \A i \in I : i \in 1 .. Len(t) /\ t[i] = EqualsSign
  OBVIOUS
<1> HIDE DEF I
<1>5. NameEnd(t) \in I
  <2>1. I # {}
    BY <1>3
  <2> QED
    BY <1>3, <1>4, <2>1, LeastIsReached
<1>6. NameEnd(t) \in 1 .. Len(t) /\ t[NameEnd(t)] = EqualsSign /\ Len(t) \in Nat
  <2>1. Len(t) \in Nat
    BY LenProperties
  <2> DEFINE n == NameEnd(t)
  <2>2. n \in I
    BY <1>5
  <2> HIDE DEF n
  <2>3. n \in 1 .. Len(t) /\ t[n] = EqualsSign
    BY <1>4, <2>2
  <2> QED
    BY <2>1, <2>3 DEF n
<1>7. NameEnd(t) = 2 /\ t[1] = w
  <2> DEFINE n == NameEnd(t)
             s == SubSeq(t, 1, n - 1)
             one == <<w>>
  <2>1. n \in 1 .. Len(t) /\ Len(t) \in Nat /\ n \in Nat
    BY <1>6
  <2> HIDE DEF n
  <2>2. Len(s) = n - 1 /\ \A i \in 1 .. n - 1 : s[i] = t[i]
    BY <2>1
  <2>3. s = one
    BY DEF NameOf, n, w
  <2>4. Len(one) = 1 /\ one[1] = w
    OBVIOUS
  <2> HIDE DEF s, one
  <2>5. n = 2
    <3>1. n - 1 = 1
      BY <2>2, <2>3, <2>4
    <3> QED
      BY <2>1, <3>1
  <2> QED
    BY <2>2, <2>3, <2>4, <2>5 DEF n
<1>8. v \in Seq(Symbol) /\ Len(v) = Len(t) - 2 /\ \A i \in 1 .. Len(t) - 2 : v[i] = t[i + 2]
  <2>1. v = SubSeq(t, 3, Len(t))
    BY <1>7 DEF ValueOf
  <2> DEFINE s == SubSeq(t, 3, Len(t))
  <2>2. s \in Seq(Symbol) /\ Len(s) = Len(t) - 2 /\ \A i \in 1 .. Len(t) - 2 : s[i] = t[i + 2]
    <3>1. Len(t) \in Nat /\ Len(t) >= 2
      BY <1>6, <1>7
    <3>2. s \in Seq(Symbol)
      BY <3>1
    <3>3. Len(s) = Len(t) - 2
      <4> DEFINE n == Len(t)
      <4>1. n \in Nat /\ n >= 2 /\ \A i \in 3 .. n : t[i] \in Symbol
        BY <3>1
      <4> HIDE DEF n
      <4>2. Len(SubSeq(t, 3, n)) = IF 3 <= n THEN n - 3 + 1 ELSE 0
        BY <4>1, SubSeqProperties
      <4>3. Len(SubSeq(t, 3, n)) = n - 2
        BY <4>1, <4>2
      <4> QED
        BY <4>3 DEF n
    <3>4. \A i \in 1 .. Len(t) - 2 : s[i] = t[i + 2]
      BY <3>1
    <3> QED
      BY <3>2, <3>3, <3>4
  <2> HIDE DEF s
  <2> QED
    BY <2>1, <2>2 DEF s
<1> HIDE DEF v, p
<1> DEFINE u == p \o v
<1>9. u \in Seq(Symbol) /\ Len(u) = Len(p) + Len(v)
      /\ \A i \in 1 .. Len(p) + Len(v) : u[i] = IF i <= Len(p) THEN p[i] ELSE v[i - Len(p)]
  <2> DEFINE S == Symbol
  <2>1. p \in Seq(S) /\ v \in Seq(S)
    BY <1>2, <1>8
  <2> HIDE DEF S
  <2>2. /\ p \o v \in Seq(S) /\ Len(p \o v) = Len(p) + Len(v)
        /\ \A i \in 1 .. Len(p) + Len(v) : (p \o v)[i] = IF i <= Len(p) THEN p[i] ELSE v[i - Len(p)]
    BY ONLY <2>1, ConcatProperties
  <2> QED
    BY <2>2 DEF S
<1> HIDE DEF u
<1>10. Len(u) = Len(t)
  BY <1>2, <1>6, <1>8, <1>9
<1>11. ASSUME NEW i \in 1 .. Len(t) PROVE u[i] = t[i]
  <2>1. u[i] = IF i <= 2 THEN p[i] ELSE v[i - 2]
    BY <1>2, <1>6, <1>8, <1>9
  <2>2. CASE i <= 2
    <3>1. i = 1 \/ i = 2
      BY <2>2
    <3> QED
      BY <1>2, <1>6, <1>7, <2>1, <3>1
  <2>3. CASE ~(i <= 2)
    <3>1. i - 2 \in 1 .. Len(t) - 2 /\ (i - 2) + 2 = i
      BY <1>6, <2>3
    <3> QED
      BY <1>8, <2>1, <2>3, <3>1
  <2> QED
    BY <2>2, <2>3
<1>12. u = t
  BY <1>9, <1>10, <1>11, SeqEqual
<1> QED
  BY <1>8, <1>12 DEF u, p, v, w, FieldToken

-----------------------------------------------------------------------------
(* The descriptors.                                                        *)
FieldsOf(verb) == Descriptors[verb]

LEMMA DescriptorsAre ==
  /\ FieldsOf("HELLO") =
       <<IntegerField("version", 1, MaxProtocolVersion),
         TokenField("peripheral", MaxTokenLength), BooleanField("locked")>>
  /\ FieldsOf("BUTTON") =
       <<EnumerationField("event", EventValues),
         BooleanField("foregrounded"), BooleanField("unlocked")>>
  /\ FieldsOf("STATE") = <<BooleanField("locked")>>
  /\ FieldsOf("DISPLAY") =
       <<EnumerationField("status", StatusValues), EnumerationField("page", PageValues),
         TextField("payload", MaxTextLength),
         IntegerField("delivered", 0, MaxDeliveredCount),
         EnumerationField("error", ErrorValues)>>
<1>1. ASSUME NEW verb \in Verbs PROVE FieldsOf(verb) = VerbDescriptor(verb)
  BY DEF FieldsOf, Descriptors
<1>2. "HELLO" \in Verbs /\ "BUTTON" \in Verbs /\ "STATE" \in Verbs /\ "DISPLAY" \in Verbs
  BY DEF Verbs
<1> QED
  BY <1>1, <1>2 DEF VerbDescriptor

(* Every field of the tables is one, and its name is its own.              *)
LEMMA FieldsAre ==
  ASSUME NEW verb \in Verbs
  PROVE  /\ Len(FieldsOf(verb)) \in {1, 3, 5} /\ DOMAIN FieldsOf(verb) = 1 .. Len(FieldsOf(verb))
         /\ verb \in ToSet(Names)
         /\ \A i \in DOMAIN FieldsOf(verb) : IsAField(FieldsOf(verb)[i])
         /\ \A i, j \in DOMAIN FieldsOf(verb) :
              FieldsOf(verb)[i].name = FieldsOf(verb)[j].name => i = j
<1>1. \A name \in ToSet(FirstNames) : name \in ToSet(Names)
  BY NamesAreTogether
<1>2. ASSUME NEW name \in
               {"HELLO", "BUTTON", "STATE", "DISPLAY", "version", "peripheral", "locked", "event",
                "foregrounded", "unlocked", "status", "page", "payload", "delivered", "error"}
      PROVE  name \in ToSet(Names)
  <2>1. name \in ToSet(FirstNames)
    BY DEF ToSet, FirstNames
  <2> QED
    BY <1>1, <2>1
<1>3. MaxProtocolVersion \in 0 .. UintMax /\ MaxDeliveredCount \in 0 .. UintMax
      /\ MaxTokenLength \in Nat /\ MaxTextLength \in Nat
  BY CodecAssumption
<1>4. ASSUME NEW name \in ToSet(Names) PROVE IsAField(BooleanField(name))
  BY DEF IsAField, BooleanField
<1>5. ASSUME NEW name \in ToSet(Names), NEW low \in Nat, NEW high \in 0 .. UintMax
      PROVE  IsAField(IntegerField(name, low, high))
  BY DEF IsAField, IntegerField
<1>6. ASSUME NEW name \in ToSet(Names), NEW values, IsAnEnumeration(values)
      PROVE  IsAField(EnumerationField(name, values))
  BY <1>6 DEF IsAField, EnumerationField
<1>7. ASSUME NEW name \in ToSet(Names)
      PROVE  IsAField(TokenField(name, MaxTokenLength)) /\ IsAField(TextField(name, MaxTextLength))
  BY <1>3 DEF IsAField, TokenField, TextField
<1>8. verb \in ToSet(Names)
  BY <1>2 DEF Verbs
<1>9. CASE verb = "HELLO"
  <2> DEFINE a == IntegerField("version", 1, MaxProtocolVersion)
             b == TokenField("peripheral", MaxTokenLength)
             c == BooleanField("locked")
  <2>1. FieldsOf(verb) = <<a, b, c>>
    BY <1>9, DescriptorsAre
  <2>2. IsAField(a) /\ IsAField(b) /\ IsAField(c)
    BY <1>2, <1>3, <1>4, <1>5, <1>7
  <2>3. a.name = "version" /\ b.name = "peripheral" /\ c.name = "locked"
    BY DEF IntegerField, TokenField, BooleanField
  <2> HIDE DEF a, b, c
  <2> QED
    BY <1>8, <2>1, <2>2, <2>3
<1>10. CASE verb = "BUTTON"
  <2> DEFINE a == EnumerationField("event", EventValues)
             b == BooleanField("foregrounded")
             c == BooleanField("unlocked")
  <2>1. FieldsOf(verb) = <<a, b, c>>
    BY <1>10, DescriptorsAre
  <2>2. IsAField(a) /\ IsAField(b) /\ IsAField(c)
    BY <1>2, <1>4, <1>6, EnumerationsAre
  <2>3. a.name = "event" /\ b.name = "foregrounded" /\ c.name = "unlocked"
    BY DEF EnumerationField, BooleanField
  <2> HIDE DEF a, b, c
  <2> QED
    BY <1>8, <2>1, <2>2, <2>3
<1>11. CASE verb = "STATE"
  <2> DEFINE a == BooleanField("locked")
  <2>1. FieldsOf(verb) = <<a>>
    BY <1>11, DescriptorsAre
  <2>2. IsAField(a)
    BY <1>2, <1>4
  <2> HIDE DEF a
  <2> QED
    BY <1>8, <2>1, <2>2
<1>12. CASE verb = "DISPLAY"
  <2> DEFINE a == EnumerationField("status", StatusValues)
             b == EnumerationField("page", PageValues)
             c == TextField("payload", MaxTextLength)
             d == IntegerField("delivered", 0, MaxDeliveredCount)
             e == EnumerationField("error", ErrorValues)
  <2>1. FieldsOf(verb) = <<a, b, c, d, e>>
    BY <1>12, DescriptorsAre
  <2>2. IsAField(a) /\ IsAField(b) /\ IsAField(c) /\ IsAField(d) /\ IsAField(e)
    BY <1>2, <1>3, <1>5, <1>6, <1>7, EnumerationsAre
  <2>3. a.name = "status" /\ b.name = "page" /\ c.name = "payload" /\ d.name = "delivered"
        /\ e.name = "error"
    BY DEF EnumerationField, TextField, IntegerField
  <2> HIDE DEF a, b, c, d, e
  <2> QED
    BY <1>8, <2>1, <2>2, <2>3
<1> QED
  BY <1>9, <1>10, <1>11, <1>12 DEF Verbs

(* A name of a field leads to that field, and to no other.                 *)
LEMMA FieldIndexIs ==
  ASSUME NEW verb \in Verbs, NEW t
  PROVE  /\ \A i \in DOMAIN FieldsOf(verb) :
              NameOf(t) = <<Word(FieldsOf(verb)[i].name)>> => FieldIndex(verb, t) = i
         /\ FieldIndex(verb, t) = 0 \/
              /\ FieldIndex(verb, t) \in DOMAIN FieldsOf(verb)
              /\ NameOf(t) = <<Word(FieldsOf(verb)[FieldIndex(verb, t)].name)>>
<1> DEFINE fields == FieldsOf(verb)
           I == {i \in 1 .. Len(fields) : NameOf(t) = <<Word(fields[i].name)>>}
<1>1. /\ Len(fields) \in {1, 3, 5} /\ DOMAIN fields = 1 .. Len(fields)
      /\ \A i \in DOMAIN fields : fields[i].name \in ToSet(Names)
      /\ \A i, j \in DOMAIN fields : fields[i].name = fields[j].name => i = j
  BY FieldsAre DEF IsAField
<1>2. FieldIndex(verb, t) = IF I # {} THEN Min(I) ELSE 0
  BY DEF FieldIndex, SelectInSeq, FieldsOf
<1>3. I \in SUBSET Nat /\ Len(fields) \in Nat
  BY <1>1
<1> HIDE DEF fields
<1>4. ASSUME NEW i \in DOMAIN fields, NameOf(t) = <<Word(fields[i].name)>>
      PROVE  FieldIndex(verb, t) = i
  <2>1. i \in I /\ i \in Int
    BY <1>1, <1>3, <1>4
  <2>2. ASSUME NEW j \in I PROVE j = i
    <3>1. j \in DOMAIN fields /\ <<Word(fields[i].name)>> = <<Word(fields[j].name)>>
      BY <1>1, <1>4
    <3>2. Word(fields[i].name) = Word(fields[j].name)
      BY <3>1
    <3>3. fields[i].name = fields[j].name
      BY <1>1, <3>1, <3>2, WordsDiffer
    <3> QED
      BY <1>1, <3>1, <3>3
  <2>3. I = {i}
    BY <2>1, <2>2
  <2> QED
    BY <1>2, <2>1, <2>3, MinOfOne
<1>5. FieldIndex(verb, t) # 0 =>
        FieldIndex(verb, t) \in DOMAIN fields
        /\ NameOf(t) = <<Word(fields[FieldIndex(verb, t)].name)>>
  <2> SUFFICES ASSUME FieldIndex(verb, t) # 0
               PROVE  FieldIndex(verb, t) \in I
    BY <1>1
  <2>1. I # {}
    BY <1>2
  <2> QED
    BY <1>2, <1>3, <2>1, LeastIsReached
<1> QED
  BY <1>4, <1>5 DEF fields

-----------------------------------------------------------------------------
(* A message and its tokens.                                               *)
IsAMessage(m) ==
  /\ m = [verb |-> m.verb, fields |-> m.fields] /\ m.verb \in Verbs
  /\ DOMAIN m.fields = DOMAIN FieldsOf(m.verb) /\ m.fields = [i \in DOMAIN m.fields |-> m.fields[i]]
  /\ \A i \in DOMAIN FieldsOf(m.verb) : IsAValue(FieldsOf(m.verb)[i], m.fields[i])

TokenOfField(m, i) ==
  FieldToken(FieldsOf(m.verb)[i].name, EncodeValue(FieldsOf(m.verb)[i], m.fields[i]))

VerbToken(verb) == <<Word(verb)>>

(* A token of a valid message has the field's name, and its value is read. *)
LEMMA TokenOfFieldIs ==
  ASSUME NEW m, IsAMessage(m), MessageIsValid(m), NEW i \in DOMAIN FieldsOf(m.verb)
  PROVE  LET t == TokenOfField(m, i)
         IN  /\ t \in Seq(Glyph) /\ t \in Seq(Symbol) /\ t # <<>>
             /\ NameEnd(t) = 2 /\ FieldIndex(m.verb, t) = i
             /\ DecodeFieldValue(FieldsOf(m.verb)[i], ValueOf(t)) = Decoded(m.fields[i])
<1> DEFINE f == FieldsOf(m.verb)[i]
           name == f.name
           v == EncodeValue(f, m.fields[i])
           t == FieldToken(name, v)
<1>1. m.verb \in Verbs /\ IsAValue(f, m.fields[i]) /\ ValueIsValid(f, m.fields[i])
  BY DEF IsAMessage, MessageIsValid, FieldsOf
<1>2. IsAField(f)
  BY <1>1, FieldsAre
<1>3. name \in ToSet(Names)
  BY <1>2 DEF IsAField
<1>4. DecodeFieldValue(f, v) = Decoded(m.fields[i]) /\ v \in Seq(Glyph)
  BY <1>1, <1>2, DecodesItsEncoding
<1>5. v \in Seq(Symbol)
  BY <1>4, GlyphsAre
<1>6. t = TokenOfField(m, i)
  BY DEF TokenOfField
<1> HIDE DEF v
<1>7. /\ t \in Seq(Symbol) /\ Len(t) = 2 + Len(v)
      /\ NameEnd(t) = 2 /\ NameOf(t) = <<Word(name)>> /\ ValueOf(t) = v
  BY <1>3, <1>5, TokenParts
<1>8. FieldIndex(m.verb, t) = i
  <2> HIDE DEF t
  <2> QED
    BY <1>1, <1>7, FieldIndexIs
<1>9. t # <<>>
  <2>1. Len(v) \in Nat
    BY <1>5, LenProperties
  <2> HIDE DEF t
  <2> QED
    BY <1>7, <2>1, EmptySeq
<1>10. t \in Seq(Glyph)
  <2> DEFINE a == Word(name)
             p == <<a, EqualsSign>>
  <2>1. a \in Glyph /\ EqualsSign \in Glyph
    <3>1. EqualsSign \in 33 .. 126
      BY DEF EqualsSign
    <3> QED
      BY <1>3, <3>1, GlyphsAre
  <2> HIDE DEF a
  <2>2. p \in Seq(Glyph)
    BY <2>1
  <2> HIDE DEF p
  <2>3. p \o v \in Seq(Glyph)
    BY <1>4, <2>2, ConcatProperties DEF v
  <2> QED
    BY <2>3 DEF p, a, FieldToken
<1> HIDE DEF t
<1> QED
  BY <1>4, <1>6, <1>7, <1>8, <1>9, <1>10

-----------------------------------------------------------------------------
(* The tokens of a message, in any order of its fields, parse to it.       *)
Arranged(m, ts, g) ==
  /\ ts \in Seq(Seq(Symbol)) /\ ts # <<>> /\ ts[1] = VerbToken(m.verb)
  /\ \A k \in 2 .. Len(ts) : g[k] \in DOMAIN FieldsOf(m.verb) /\ ts[k] = TokenOfField(m, g[k])
  /\ \A k, j \in 2 .. Len(ts) : g[k] = g[j] => k = j
  /\ \A i \in DOMAIN FieldsOf(m.verb) : \E k \in 2 .. Len(ts) : g[k] = i

LEMMA ArrangedFieldsParse ==
  ASSUME NEW m, IsAMessage(m), MessageIsValid(m), NEW ts, NEW g, Arranged(m, ts, g)
  PROVE  ParseFields(m.verb, ts) = [kind |-> "MESSAGE", message |-> m]
<1> DEFINE K == 2 .. Len(ts)
           verb == m.verb
           results == [k \in K |-> DecodeTokenAt(verb, ts, k)]
           fields == DOMAIN FieldsOf(verb)
           faults == {k \in DOMAIN results : results[k].error # "NONE"}
           TokenAt(i) == CHOOSE k \in DOMAIN results : FieldIndex(verb, ts[k]) = i
           seen == {FieldIndex(verb, ts[k]) : k \in DOMAIN results}
           made == [verb |-> verb, fields |-> [i \in fields |-> results[TokenAt(i)].value]]
<1>1. ParseFields(verb, ts) =
        IF faults # {} THEN ParseError(results[Min(faults)].error)
        ELSE IF ~(fields \subseteq seen) THEN ParseError("NO_FIELD")
        ELSE [kind |-> "MESSAGE", message |-> made]
  BY DEF ParseFields, FieldsOf
<1>2. verb \in Verbs /\ Len(FieldsOf(verb)) \in Nat /\ fields = 1 .. Len(FieldsOf(verb))
  BY FieldsAre DEF IsAMessage
<1>3. ASSUME NEW k \in K
      PROVE  /\ g[k] \in fields /\ FieldIndex(verb, ts[k]) = g[k]
             /\ NameEnd(ts[k]) = 2
             /\ DecodeFieldValue(FieldsOf(verb)[g[k]], ValueOf(ts[k])) = Decoded(m.fields[g[k]])
  <2>1. g[k] \in fields /\ ts[k] = TokenOfField(m, g[k])
    BY DEF Arranged
  <2> QED
    BY <2>1, TokenOfFieldIs
<1>4. ASSUME NEW k \in K PROVE results[k] = Decoded(m.fields[g[k]])
  <2> DEFINE t == ts[k]
             i == FieldIndex(verb, t)
  <2>1. results[k] =
          IF NameEnd(t) <= 1 THEN Refused("MALFORMED")
          ELSE IF i = 0 \/ \E j \in 2 .. k - 1 : FieldIndex(verb, ts[j]) = i THEN Refused("BAD_FIELD")
          ELSE DecodeFieldValue(Descriptors[verb][i], ValueOf(t))
    BY DEF DecodeTokenAt
  <2>2. NameEnd(t) = 2 /\ i = g[k] /\ i # 0
    BY <1>2, <1>3
  <2>3. ASSUME NEW j \in 2 .. k - 1 PROVE FieldIndex(verb, ts[j]) # i
    <3>1. j \in K /\ j # k
      <4>1. Len(ts) \in Nat
        BY LenProperties DEF Arranged
      <4> QED
        BY <4>1
    <3>2. FieldIndex(verb, ts[j]) = g[j]
      BY <1>3, <3>1
    <3>3. g[j] # g[k]
      BY <3>1 DEF Arranged
    <3> QED
      BY <2>2, <3>2, <3>3
  <2>4. results[k] = DecodeFieldValue(FieldsOf(verb)[g[k]], ValueOf(t))
    BY <2>1, <2>2, <2>3 DEF FieldsOf
  <2> QED
    BY <1>3, <2>4
<1>5. DOMAIN results = K
  OBVIOUS
<1> HIDE DEF results
<1>6. faults = {}
  BY <1>4, <1>5 DEF Decoded
<1>7. ASSUME NEW i \in fields PROVE \E k \in K : g[k] = i
  BY DEF Arranged
<1>8. fields \subseteq seen
  <2> SUFFICES ASSUME NEW i \in fields PROVE i \in seen
    OBVIOUS
  <2>1. PICK k \in K : g[k] = i
    BY <1>7
  <2> QED
    BY <1>3, <1>5, <2>1
<1>9. ASSUME NEW i \in fields PROVE results[TokenAt(i)].value = m.fields[i]
  <2>1. \E k \in DOMAIN results : FieldIndex(verb, ts[k]) = i
    BY <1>3, <1>5, <1>7
  <2>2. TokenAt(i) \in K /\ FieldIndex(verb, ts[TokenAt(i)]) = i
    BY <1>5, <2>1
  <2> HIDE DEF TokenAt
  <2> DEFINE a == TokenAt(i)
  <2>3. a \in K /\ FieldIndex(verb, ts[a]) = i
    BY <2>2
  <2> HIDE DEF a
  <2>4. g[a] = i
    BY <1>3, <2>3
  <2>5. results[a] = Decoded(m.fields[g[a]])
    BY <1>4, <2>3
  <2>6. results[a].value = m.fields[i]
    BY <2>4, <2>5 DEF Decoded
  <2> QED
    BY <2>6 DEF a
<1>10. m = [verb |-> verb, fields |-> [i \in fields |-> m.fields[i]]]
  BY DEF IsAMessage
<1>11. made = m
  <2> HIDE DEF TokenAt, fields
  <2> QED
    BY <1>9, <1>10
<1> HIDE DEF faults, seen, made, fields
<1> QED
  BY <1>1, <1>6, <1>8, <1>11

(* A line of such tokens can be printed.                                   *)
Printed == {c \in Symbol : IsPrintable(c)}

LEMMA JoinedIsPrinted ==
  \A ts \in Seq(Seq(Glyph)) : ts \in Tokenlist /\ Joined(ts) \in Seq(Printed)
<1> DEFINE T == {ts \in Seq(Seq(Glyph)) : ts \in Tokenlist /\ Joined(ts) \in Seq(Printed)}
           e == <<>>
<1>1. Space \in Printed /\ Glyph \subseteq Printed
  BY SpaceIsASymbol DEF Printed, Glyph, IsPrintable, Space
<1>2. e \in T
  <2>1. e \in Seq(Seq(Glyph)) /\ e \in Tokenlist /\ e \in Seq(Printed)
    BY DEF Tokenlist
  <2>2. Joined(e) = e
    BY JoinedSteps
  <2> QED
    BY <2>1, <2>2
<1>3. ASSUME NEW ts \in T, NEW t \in Seq(Glyph) PROVE Append(ts, t) \in T
  <2>1. ts \in Seq(Seq(Glyph)) /\ ts \in Tokenlist /\ Joined(ts) \in Seq(Printed)
    OBVIOUS
  <2>2. t \in Seq(Symbol) /\ t \in Seq(Printed)
    <3>1. t \in Seq(Symbol)
      BY GlyphsAre
    <3>2. Seq(Glyph) \subseteq Seq(Printed)
      BY <1>1
    <3> QED
      BY <3>1, <3>2
  <2>3. Append(ts, t) \in Seq(Seq(Glyph)) /\ Append(ts, t) \in Tokenlist
    BY <2>1, <2>2, AppendProperties DEF Tokenlist
  <2>4. Joined(Append(ts, t)) = Joined(ts) \o (<<Space>> \o t)
    BY <2>1, <2>2, JoinedSteps
  <2> DEFINE s == <<Space>>
  <2>5. s \in Seq(Printed)
    BY <1>1
  <2> HIDE DEF s
  <2>6. s \o t \in Seq(Printed)
    BY <2>2, <2>5, ConcatProperties
  <2>7. Joined(ts) \o (s \o t) \in Seq(Printed)
    BY <2>1, <2>6, ConcatProperties
  <2> QED
    BY <2>3, <2>4, <2>7 DEF s
<1>4. T \in SUBSET Seq(Seq(Glyph))
  OBVIOUS
<1> HIDE DEF T
<1>5. T = Seq(Seq(Glyph))
  BY <1>2, <1>3, <1>4, EverySequenceIsReached DEF e
<1> QED
  BY <1>5 DEF T

LEMMA ArrangedLinesParse ==
  ASSUME NEW m, IsAMessage(m), MessageIsValid(m), NEW ts, NEW g, Arranged(m, ts, g)
  PROVE  /\ ParseLine(Tail(Joined(ts))) = [kind |-> "MESSAGE", message |-> m]
         /\ ts \in Seq(Seq(Unspaced)) /\ ts # <<>>
<1> DEFINE verb == m.verb
           raw == Tail(Joined(ts))
           named == {x \in Verbs : ts[1] = <<Word(x)>>}
<1>1. verb \in Verbs /\ Len(FieldsOf(verb)) \in Nat /\ verb \in ToSet(Names)
  BY FieldsAre DEF IsAMessage
<1>2. ts \in Seq(Seq(Symbol)) /\ Len(ts) \in Nat /\ Len(ts) >= 1 /\ ts # <<>>
  <2>1. ts \in Seq(Seq(Symbol)) /\ ts # <<>>
    BY DEF Arranged
  <2> QED
    BY <2>1, EmptySeq, LenProperties
<1>3. ASSUME NEW k \in 1 .. Len(ts) PROVE ts[k] \in Seq(Glyph) /\ ts[k] # <<>>
  <2>1. CASE k = 1
    <3> DEFINE w == Word(verb)
               one == <<w>>
    <3>1. ts[k] = one
      BY <2>1 DEF Arranged, VerbToken
    <3>2. w \in Glyph
      BY <1>1, GlyphsAre
    <3> HIDE DEF w
    <3>3. one \in Seq(Glyph) /\ one # <<>>
      BY <3>2
    <3> QED
      BY <3>1, <3>3
  <2>2. CASE k # 1
    <3>1. k \in 2 .. Len(ts)
      BY <1>2, <2>2
    <3>2. g[k] \in DOMAIN FieldsOf(verb) /\ ts[k] = TokenOfField(m, g[k])
      BY <3>1 DEF Arranged
    <3> QED
      BY <3>2, TokenOfFieldIs
  <2> QED
    BY <2>1, <2>2
<1>4. ts \in Seq(Seq(Glyph))
  BY <1>2, <1>3, IsASeq
<1>5. ts \in Seq(Seq(Unspaced))
  <2>1. Glyph \subseteq Unspaced
    BY DEF Glyph, Unspaced
  <2>2. Seq(Glyph) \subseteq Seq(Unspaced)
    BY <2>1
  <2> DEFINE A == Seq(Glyph)
             B == Seq(Unspaced)
  <2> HIDE DEF A, B
  <2>3. A \subseteq B => Seq(A) \subseteq Seq(B)
    OBVIOUS
  <2> QED
    BY <1>4, <2>2, <2>3 DEF A, B
<1>6. /\ raw \in Seq(Symbol) /\ <<Space>> \o raw = Joined(ts) /\ Tokens(raw) = ts
  BY <1>2, <1>5, LineOfTokens
<1>7. \A i \in DOMAIN raw : IsPrintable(raw[i])
  <2> DEFINE s == <<Space>>
             j == Joined(ts)
  <2>1. s \in Seq(Symbol) /\ Len(s) = 1
    BY SpaceIsASymbol
  <2>2. j \in Seq(Printed)
    BY <1>4, JoinedIsPrinted
  <2> HIDE DEF s, j, raw
  <2>6. raw \in Seq(Symbol)
    BY <1>6
  <2>3. \A k \in DOMAIN raw : Len(s) + k \in DOMAIN (s \o raw) /\ (s \o raw)[Len(s) + k] = raw[k]
    <3> DEFINE S == Symbol
    <3>1. s \in Seq(S) /\ raw \in Seq(S)
      BY <2>1, <2>6
    <3> HIDE DEF S
    <3> QED
      BY <3>1, ElementsOfAJoin
  <2>4. s \o raw = j
    BY <1>6 DEF s, j
  <2>5. \A k \in DOMAIN j : IsPrintable(j[k])
    BY <2>2 DEF Printed
  <2> QED
    BY <2>3, <2>4, <2>5
<1>8. named = {verb}
  <2>1. ts[1] = <<Word(verb)>>
    BY DEF Arranged, VerbToken
  <2>2. ASSUME NEW x \in Verbs, ts[1] = <<Word(x)>> PROVE x = verb
    <3>1. x \in ToSet(Names) /\ Word(x) = Word(verb)
      BY <2>1, <2>2, FieldsAre
    <3> QED
      BY <1>1, <3>1, WordsDiffer
  <2> QED
    BY <1>1, <2>1, <2>2
<1>9. (CHOOSE x \in named : TRUE) = verb /\ named # {}
  BY <1>8
<1>10. \A k \in DOMAIN ts : ts[k] # <<>>
  BY <1>2, <1>3
<1>11. ParseLine(raw) = ParseFields(CHOOSE x \in named : TRUE, ts)
  <2> HIDE DEF raw
  <2> QED
    BY <1>6, <1>7, <1>9, <1>10 DEF ParseLine
<1>12. ParseFields(verb, ts) = [kind |-> "MESSAGE", message |-> m]
  BY ArrangedFieldsParse
<1> HIDE DEF named, raw
<1> QED
  BY <1>2, <1>5, <1>9, <1>11, <1>12 DEF raw

-----------------------------------------------------------------------------
(* What parses to a message is the tokens of it, in some order, but for    *)
(* escapes that are longer than they need be.                              *)
Matched(m, ts, g) ==
  /\ ts \in Seq(Seq(Symbol)) /\ ts # <<>> /\ ts[1] = VerbToken(m.verb)
  /\ \A k \in 2 .. Len(ts) :
       /\ g[k] \in DOMAIN FieldsOf(m.verb)
       /\ Width(TokenOfField(m, g[k])) <= Width(ts[k])
       /\ TokenOfField(m, g[k]) = ts[k] \/ OverEscapes(ts[k])
  /\ \A k, j \in 2 .. Len(ts) : g[k] = g[j] => k = j
  /\ \A i \in DOMAIN FieldsOf(m.verb) : \E k \in 2 .. Len(ts) : g[k] = i

LEMMA NameEndIs == ASSUME NEW t PROVE NameEnd(t) \in Nat
<1> DEFINE I == {i \in 1 .. Len(t) : t[i] = EqualsSign}
<1>1. NameEnd(t) = IF I # {} THEN Min(I) ELSE 0
  BY DEF NameEnd, SelectInSeq
<1>2. ASSUME NEW i \in I PROVE i \in Nat
  OBVIOUS
<1>3. I \in SUBSET Nat
  BY <1>2
<1> HIDE DEF I
<1>4. I # {} => Min(I) \in I
  BY <1>3, LeastIsReached
<1>5. I # {} => Min(I) \in Nat
  BY <1>3, <1>4
<1> QED
  BY <1>1, <1>5

(* One token that was accepted, and what it makes of its field.            *)
LEMMA AcceptedToken ==
  ASSUME NEW verb \in Verbs, NEW ts \in Seq(Seq(Symbol)), NEW k \in 2 .. Len(ts),
         DecodeTokenAt(verb, ts, k).error = "NONE"
  PROVE  LET i     == FieldIndex(verb, ts[k])
             field == FieldsOf(verb)[i]
             value == DecodeTokenAt(verb, ts, k).value
             token == FieldToken(field.name, EncodeValue(field, value))
         IN  /\ i \in DOMAIN FieldsOf(verb)
             /\ \A j \in 2 .. k - 1 : FieldIndex(verb, ts[j]) # i
             /\ IsAValue(field, value) /\ ValueIsValid(field, value)
             /\ Width(token) <= Width(ts[k])
             /\ token = ts[k] \/ OverEscapes(ts[k])
<1> DEFINE t == ts[k]
           i == FieldIndex(verb, t)
           field == FieldsOf(verb)[i]
           r == DecodeTokenAt(verb, ts, k)
           name == field.name
           raw == ValueOf(t)
           again == EncodeValue(field, r.value)
<1>1. r = IF NameEnd(t) <= 1 THEN Refused("MALFORMED")
          ELSE IF i = 0 \/ \E j \in 2 .. k - 1 : FieldIndex(verb, ts[j]) = i THEN Refused("BAD_FIELD")
          ELSE DecodeFieldValue(field, raw)
  BY DEF DecodeTokenAt, FieldsOf
<1>2. r.error = "NONE"
  OBVIOUS
<1>3. t \in Seq(Symbol)
  <2>1. Len(ts) \in Nat
    BY LenProperties
  <2> QED
    BY <2>1, ElementOfSeq
<1> HIDE DEF t, i, r
<1>4. /\ ~(NameEnd(t) <= 1) /\ i # 0 /\ \A j \in 2 .. k - 1 : FieldIndex(verb, ts[j]) # i
      /\ r = DecodeFieldValue(field, raw)
  <2>1. Refused("MALFORMED").error # "NONE" /\ Refused("BAD_FIELD").error # "NONE"
    BY DEF Refused
  <2> QED
    BY <1>1, <1>2, <2>1
<1>5. NameEnd(t) > 1
  BY <1>4, NameEndIs
<1>6. i \in DOMAIN FieldsOf(verb) /\ NameOf(t) = <<Word(name)>>
  BY <1>4, FieldIndexIs DEF i
<1>7. IsAField(field)
  BY <1>6, FieldsAre
<1>8. name \in ToSet(Names)
  BY <1>7 DEF IsAField
<1>9. raw \in Seq(Symbol) /\ t = FieldToken(name, raw)
  BY <1>3, <1>5, <1>6, <1>8, TokenIsItsParts
<1> HIDE DEF raw
<1>10. DecodeFieldValue(field, raw).error = "NONE"
  BY <1>2, <1>4
<1>11. /\ IsAValue(field, r.value) /\ ValueIsValid(field, r.value)
       /\ again \in Seq(Symbol) /\ Width(again) <= Width(raw)
       /\ again = raw \/ OverEscapes(raw)
  <2> HIDE DEF field
  <2> QED
    BY <1>4, <1>7, <1>9, <1>10, DecodesOnlyEncodings
<1> HIDE DEF again, name
<1>12. Width(FieldToken(name, again)) <= Width(t)
  <2>1. Width(FieldToken(name, again)) = Len(name) + 1 + Width(again)
    BY <1>8, <1>11, TokenParts
  <2>2. Width(FieldToken(name, raw)) = Len(name) + 1 + Width(raw)
    BY <1>8, <1>9, TokenParts
  <2>3. Width(again) \in Nat /\ Width(raw) \in Nat
    BY <1>9, <1>11, WidthIsASum
  <2>4. Len(name) \in Nat
    <3>1. Word(name) - 255 \in DOMAIN Names /\ Names[Word(name) - 255] = name
      BY <1>8, WordsAreSymbols
    <3>2. \A j \in DOMAIN Names : Len(Names[j]) \in 1 .. 17
      BY NamesAssumption
    <3> QED
      BY <3>1, <3>2
  <2> QED
    BY <1>9, <1>11, <2>1, <2>2, <2>3, <2>4
<1>13. FieldToken(name, again) = t \/ OverEscapes(t)
  <2>1. CASE again = raw
    BY <1>9, <2>1
  <2>2. CASE OverEscapes(raw)
    <3> DEFINE w == Word(name)
               p == <<w, EqualsSign>>
    <3>1. w \in Symbol /\ EqualsSign \in Symbol
      <4>1. EqualsSign \in 0 .. 255
        BY DEF EqualsSign
      <4> QED
        BY <1>8, <4>1, CharactersAreSymbols, WordsAreSymbols
    <3> HIDE DEF w
    <3>2. p \in Seq(Symbol)
      BY <3>1
    <3> HIDE DEF p
    <3>3. OverEscapes(p \o raw)
      BY <1>9, <2>2, <3>2, OverEscapesOfAJoin
    <3> QED
      BY <1>9, <3>3 DEF FieldToken, p, w
  <2> QED
    BY <1>11, <2>1, <2>2
<1> QED
  BY <1>4, <1>6, <1>11, <1>12, <1>13 DEF t, i, r, name, again

LEMMA ParsedFieldsMatch ==
  ASSUME NEW verb \in Verbs, NEW ts \in Seq(Seq(Symbol)), ts # <<>>, ts[1] = VerbToken(verb),
         ParseFields(verb, ts).kind = "MESSAGE"
  PROVE  LET m == ParseFields(verb, ts).message
         IN  /\ ParseFields(verb, ts) = [kind |-> "MESSAGE", message |-> m]
             /\ IsAMessage(m) /\ MessageIsValid(m) /\ m.verb = verb
             /\ Matched(m, ts, [k \in 2 .. Len(ts) |-> FieldIndex(verb, ts[k])])
<1> DEFINE K == 2 .. Len(ts)
           results == [k \in K |-> DecodeTokenAt(verb, ts, k)]
           g == [k \in K |-> FieldIndex(verb, ts[k])]
           fields == DOMAIN FieldsOf(verb)
           faults == {k \in DOMAIN results : results[k].error # "NONE"}
           TokenAt(i) == CHOOSE k \in DOMAIN results : FieldIndex(verb, ts[k]) = i
           seen == {FieldIndex(verb, ts[k]) : k \in DOMAIN results}
           made == [verb |-> verb, fields |-> [i \in fields |-> results[TokenAt(i)].value]]
<1>1. ParseFields(verb, ts) =
        IF faults # {} THEN ParseError(results[Min(faults)].error)
        ELSE IF ~(fields \subseteq seen) THEN ParseError("NO_FIELD")
        ELSE [kind |-> "MESSAGE", message |-> made]
  BY DEF ParseFields, FieldsOf
<1>2. faults = {} /\ fields \subseteq seen
      /\ ParseFields(verb, ts) = [kind |-> "MESSAGE", message |-> made]
  <2> HIDE DEF faults, fields, seen, made, results
  <2>1. \A error : ParseError(error).kind # "MESSAGE"
    BY DEF ParseError
  <2> QED
    BY <1>1, <2>1
<1>3. DOMAIN results = K /\ \A k \in K : results[k] = DecodeTokenAt(verb, ts, k)
  OBVIOUS
<1>4. ASSUME NEW k \in K
      PROVE  LET field == FieldsOf(verb)[g[k]]
                 value == results[k].value
                 token == FieldToken(field.name, EncodeValue(field, value))
             IN  /\ g[k] \in fields
                 /\ \A j \in 2 .. k - 1 : FieldIndex(verb, ts[j]) # g[k]
                 /\ IsAValue(field, value) /\ ValueIsValid(field, value)
                 /\ Width(token) <= Width(ts[k])
                 /\ token = ts[k] \/ OverEscapes(ts[k])
  <2>1. DecodeTokenAt(verb, ts, k).error = "NONE"
    BY <1>2
  <2>2. g[k] = FieldIndex(verb, ts[k]) /\ results[k] = DecodeTokenAt(verb, ts, k)
    OBVIOUS
  <2> HIDE DEF g, results, faults, seen, made
  <2> QED
    BY <2>1, <2>2, AcceptedToken
<1>5. \A k \in K : g[k] = FieldIndex(verb, ts[k])
  OBVIOUS
<1> HIDE DEF results, g
<1>6. \A k, j \in K : g[k] = g[j] => k = j
  <2> SUFFICES ASSUME NEW k \in K, NEW j \in K, g[k] = g[j], j < k
               PROVE  FALSE
    OBVIOUS
  <2>1. j \in 2 .. k - 1
    BY LenProperties
  <2> QED
    BY <1>4, <1>5, <2>1
<1>7. ASSUME NEW i \in fields PROVE TokenAt(i) \in K /\ g[TokenAt(i)] = i
  <2>1. \E k \in DOMAIN results : FieldIndex(verb, ts[k]) = i
    BY <1>2
  <2>2. TokenAt(i) \in K /\ FieldIndex(verb, ts[TokenAt(i)]) = i
    BY <1>3, <2>1
  <2> QED
    BY <1>5, <2>2
<1> HIDE DEF TokenAt
<1>8. ASSUME NEW i \in fields PROVE made.fields[i] = results[TokenAt(i)].value
  OBVIOUS
<1>9. made.verb = verb /\ DOMAIN made.fields = fields
      /\ made = [verb |-> made.verb, fields |-> made.fields]
      /\ made.fields = [i \in fields |-> made.fields[i]]
  OBVIOUS
<1> HIDE DEF made
<1>10. ASSUME NEW i \in fields
       PROVE  IsAValue(FieldsOf(verb)[i], made.fields[i])
              /\ ValueIsValid(FieldsOf(verb)[i], made.fields[i])
  BY <1>4, <1>7, <1>8
<1>11. IsAMessage(made) /\ MessageIsValid(made)
  BY <1>9, <1>10 DEF IsAMessage, MessageIsValid, FieldsOf
<1>12. ASSUME NEW k \in K
       PROVE  /\ g[k] \in fields
              /\ Width(TokenOfField(made, g[k])) <= Width(ts[k])
              /\ TokenOfField(made, g[k]) = ts[k] \/ OverEscapes(ts[k])
  <2>1. g[k] \in fields
    BY <1>4
  <2>2. TokenAt(g[k]) = k
    BY <1>6, <1>7, <2>1
  <2>3. made.fields[g[k]] = results[k].value
    BY <1>8, <2>1, <2>2
  <2> QED
    BY <1>4, <1>9, <2>1, <2>3 DEF TokenOfField
<1>13. Matched(made, ts, g)
  <2>1. \A i \in fields : \E k \in K : g[k] = i
    BY <1>7
  <2> QED
    BY <1>6, <1>9, <1>12, <2>1 DEF Matched
<1> QED
  BY <1>2, <1>9, <1>11, <1>13 DEF g

LEMMA ParsedLineMatches ==
  ASSUME NEW raw \in Seq(Symbol), ParseLine(raw).kind = "MESSAGE"
  PROVE  LET m == ParseLine(raw).message
         IN  /\ ParseLine(raw) = [kind |-> "MESSAGE", message |-> m]
             /\ IsAMessage(m) /\ MessageIsValid(m)
             /\ \E g : Matched(m, Tokens(raw), g)
<1> DEFINE ts == Tokens(raw)
           named == {x \in Verbs : ts[1] = <<Word(x)>>}
           verb == CHOOSE x \in named : TRUE
           bad == (\E i \in DOMAIN raw : ~IsPrintable(raw[i])) \/ (\E k \in DOMAIN ts : ts[k] = <<>>)
<1>1. ParseLine(raw) = IF bad THEN ParseError("MALFORMED")
                       ELSE IF named = {} THEN ParseError("BAD_VERB") ELSE ParseFields(verb, ts)
  BY DEF ParseLine
<1>2. ts \in Seq(Seq(Symbol)) /\ ts # <<>>
  BY LineIsItsTokens DEF Tokenlist
<1> HIDE DEF ts
<1>3. named # {} /\ ParseLine(raw) = ParseFields(verb, ts)
  <2> HIDE DEF bad, named, verb
  <2>1. \A error : ParseError(error).kind # "MESSAGE"
    BY DEF ParseError
  <2> QED
    BY <1>1, <2>1
<1>4. verb \in Verbs /\ ts[1] = VerbToken(verb)
  BY <1>3 DEF VerbToken
<1> HIDE DEF verb, named, bad
<1>5. ParseFields(verb, ts).kind = "MESSAGE"
  BY <1>3
<1> QED
  BY <1>2, <1>3, <1>4, <1>5, ParsedFieldsMatch DEF ts

-----------------------------------------------------------------------------
(* The line that the encoder writes is the tokens in the table's order.    *)
FieldTokens(m) == [i \in DOMAIN FieldsOf(m.verb) |-> TokenOfField(m, i)]

MessageTokens(m) == <<VerbToken(m.verb)>> \o FieldTokens(m)

LEMMA FrontOfAnEnded ==
  ASSUME NEW S, NEW s \in Seq(S), NEW x \in S
  PROVE  Front(s \o <<x>>) = s /\ s \o <<x>> # <<>> /\ s \o <<x>> \in Seq(S)
<1> DEFINE e == <<x>>
           u == s \o e
           f == SubSeq(u, 1, Len(u) - 1)
<1>1. e \in Seq(S) /\ Len(e) = 1 /\ Len(s) \in Nat
  BY LenProperties
<1> HIDE DEF e
<1>2. u \in Seq(S) /\ Len(u) = Len(s) + 1
      /\ \A i \in 1 .. Len(s) + 1 : u[i] = IF i <= Len(s) THEN s[i] ELSE e[i - Len(s)]
  BY <1>1, ConcatProperties
<1> HIDE DEF u
<1>3. u # <<>>
  BY <1>1, <1>2, EmptySeq
<1>4. Front(u) = f
  BY DEF Front
<1>5. f \in Seq(S) /\ Len(f) = Len(s) /\ \A i \in 1 .. Len(s) : f[i] = u[i]
  BY <1>1, <1>2
<1> HIDE DEF f
<1>6. \A i \in 1 .. Len(s) : f[i] = s[i]
  BY <1>1, <1>2, <1>5
<1>7. f = s
  BY <1>5, <1>6, SeqEqual
<1> QED
  BY <1>2, <1>3, <1>4, <1>7 DEF u, e

LEMMA TokensOfAMessage ==
  ASSUME NEW m, IsAMessage(m), MessageIsValid(m)
  PROVE  LET n == Len(FieldsOf(m.verb))
         IN  /\ MessageTokens(m) \in Seq(Seq(Symbol)) /\ Len(MessageTokens(m)) = 1 + n
             /\ FieldTokens(m) \in Seq(Seq(Symbol)) /\ VerbToken(m.verb) \in Seq(Symbol)
             /\ n \in {1, 3, 5} /\ DOMAIN FieldsOf(m.verb) = 1 .. n
             /\ MessageTokens(m)[1] = VerbToken(m.verb)
             /\ \A k \in 2 .. 1 + n : MessageTokens(m)[k] = TokenOfField(m, k - 1)
<1> DEFINE n == Len(FieldsOf(m.verb))
           S == Seq(Symbol)
           v == VerbToken(m.verb)
           one == <<v>>
           fs == FieldTokens(m)
<1>1. m.verb \in Verbs /\ n \in {1, 3, 5} /\ DOMAIN FieldsOf(m.verb) = 1 .. n
      /\ m.verb \in ToSet(Names)
  BY FieldsAre DEF IsAMessage
<1>2. \A i \in 1 .. n : TokenOfField(m, i) \in S
  BY <1>1, TokenOfFieldIs
<1>3. fs = [i \in 1 .. n |-> TokenOfField(m, i)]
  BY <1>1 DEF FieldTokens
<1>4. v \in S
  <2> DEFINE w == Word(m.verb)
  <2>1. w \in Symbol
    BY <1>1, WordsAreSymbols
  <2> HIDE DEF w
  <2>2. <<w>> \in Seq(Symbol)
    BY <2>1
  <2> QED
    BY <2>2 DEF w, VerbToken
<1> HIDE DEF S, v, fs
<1>5. fs \in Seq(S) /\ Len(fs) = n /\ \A i \in 1 .. n : fs[i] = TokenOfField(m, i)
  <2>1. n \in Nat
    BY <1>1
  <2> HIDE DEF n
  <2> QED
    BY <1>2, <1>3, <2>1, IsASeq
<1>6. one \in Seq(S) /\ Len(one) = 1 /\ one[1] = v
  BY <1>4
<1> HIDE DEF one
<1> DEFINE u == one \o fs
<1>7. u \in Seq(S) /\ Len(u) = 1 + n
      /\ \A k \in 1 .. 1 + n : u[k] = IF k <= 1 THEN one[k] ELSE fs[k - 1]
  <2>1. u \in Seq(S) /\ Len(u) = Len(one) + Len(fs)
    BY <1>5, <1>6, ConcatProperties
  <2>2. \A k \in 1 .. Len(one) + Len(fs) :
          u[k] = IF k <= Len(one) THEN one[k] ELSE fs[k - Len(one)]
    BY <1>5, <1>6, ConcatProperties
  <2> HIDE DEF u
  <2> QED
    BY <1>5, <1>6, <2>1, <2>2
<1>8. MessageTokens(m) = u
  BY DEF MessageTokens, one, v, fs
<1> HIDE DEF u
<1>9. u[1] = v /\ \A k \in 2 .. 1 + n : u[k] = TokenOfField(m, k - 1)
  <2>1. n \in Nat
    BY <1>1
  <2>2. u[1] = v
    BY <1>6, <1>7, <2>1
  <2>3. ASSUME NEW k \in 2 .. 1 + n PROVE u[k] = TokenOfField(m, k - 1)
    <3>1. u[k] = fs[k - 1] /\ k - 1 \in 1 .. n
      BY <1>7, <2>1
    <3> QED
      BY <1>5, <3>1
  <2> QED
    BY <2>2, <2>3
<1> QED
  BY <1>1, <1>4, <1>5, <1>7, <1>8, <1>9 DEF S, v, fs

LEMMA LineIsJoined ==
  ASSUME NEW m, IsAMessage(m), MessageIsValid(m)
  PROVE  /\ LineOf(m) \in Seq(Symbol) /\ LineOf(m) # <<>> /\ Front(LineOf(m)) \in Seq(Symbol)
         /\ <<Space>> \o Front(LineOf(m)) = Joined(MessageTokens(m))
         /\ Width(LineOf(m)) = Width(Front(LineOf(m))) + 1
<1> DEFINE verb == m.verb
           w == Word(verb)
           v == <<w>>
           space == <<Space>>
           feed == <<LineFeed>>
           fs == FieldTokens(m)
           J == Joined(fs)
           ss == [i \in DOMAIN FieldsOf(verb) |->
                    <<Space, Word(FieldsOf(verb)[i].name), EqualsSign>>
                    \o EncodeValue(FieldsOf(verb)[i], m.fields[i])]
<1>1. /\ verb \in Verbs /\ verb \in ToSet(Names)
      /\ \A i \in DOMAIN FieldsOf(verb) : IsAField(FieldsOf(verb)[i])
  BY FieldsAre DEF IsAMessage
<1>2. LineOf(m) = v \o FlattenSeq(ss) \o feed
  BY DEF LineOf, FieldsOf
<1>3. ASSUME NEW i \in DOMAIN FieldsOf(verb)
      PROVE  <<Space, Word(FieldsOf(verb)[i].name), EqualsSign>>
               \o EncodeValue(FieldsOf(verb)[i], m.fields[i])
             = <<Space>> \o TokenOfField(m, i)
  <2> DEFINE f == FieldsOf(verb)[i]
             x == EncodeValue(f, m.fields[i])
             name == f.name
  <2>1. IsAField(f) /\ name \in ToSet(Names)
    BY <1>1 DEF IsAField
  <2>2. IsAValue(f, m.fields[i]) /\ ValueIsValid(f, m.fields[i])
    BY DEF IsAMessage, MessageIsValid, FieldsOf
  <2>3. x \in Seq(Glyph)
    BY <2>1, <2>2, DecodesItsEncoding
  <2>4. x \in Seq(Symbol)
    BY <2>3, GlyphsAre
  <2>5. TokenOfField(m, i) = FieldToken(name, x)
    BY DEF TokenOfField
  <2> HIDE DEF x, name
  <2>6. <<Space, Word(name), EqualsSign>> \o x = <<Space>> \o FieldToken(name, x)
    BY <2>1, <2>4, TokenParts
  <2> QED
    BY <2>5, <2>6 DEF x, name
<1>4. DOMAIN fs = DOMAIN FieldsOf(verb) /\ \A i \in DOMAIN fs : fs[i] = TokenOfField(m, i)
  BY DEF FieldTokens
<1>5. ss = Spaced(fs)
  BY <1>3, <1>4 DEF Spaced
<1> HIDE DEF ss
<1>6. FlattenSeq(ss) = J
  BY <1>5 DEF Joined
<1>7. fs \in Tokenlist /\ VerbToken(verb) = v /\ v \in Seq(Symbol)
  BY TokensOfAMessage DEF Tokenlist, VerbToken
<1> HIDE DEF fs
<1>8. J \in Seq(Symbol)
  BY <1>7, JoinedSteps
<1>9. LineFeed \in Symbol /\ Space \in Symbol
  <2>1. LineFeed \in 0 .. 255
    BY DEF LineFeed
  <2> QED
    BY <2>1, CharactersAreSymbols, SpaceIsASymbol
<1>10. WidthOf(LineFeed) = 1
  BY DEF WidthOf, LineFeed
<1>11. space \in Seq(Symbol) /\ feed \in Seq(Symbol) /\ Width(feed) = 1
  <2>1. Width(feed) = 1
    BY <1>9, <1>10, WidthIsASum
  <2>2. space \in Seq(Symbol) /\ feed \in Seq(Symbol)
    BY <1>9
  <2> QED
    BY <2>1, <2>2
<1> HIDE DEF space, J, v
<1>12. v \o J \in Seq(Symbol)
  BY <1>7, <1>8, ConcatProperties
<1>13. LineOf(m) = (v \o J) \o feed
  BY <1>2, <1>6
<1> DEFINE L == v \o J
<1> HIDE DEF L
<1>14. Front(L \o <<LineFeed>>) = L /\ L \o <<LineFeed>> # <<>> /\ L \o <<LineFeed>> \in Seq(Symbol)
  BY <1>9, <1>12, FrontOfAnEnded DEF L
<1>15. Width(L \o feed) = Width(L) + 1
  <2> HIDE DEF feed
  <2> QED
    BY <1>11, <1>12, WidthIsASum DEF L
<1>16. space \o L = Joined(MessageTokens(m))
  <2> DEFINE one == <<v>>
             none == <<>>
  <2>1. one \in Tokenlist /\ none \in Tokenlist /\ Append(none, v) = one /\ none \in Seq(Symbol)
    BY <1>7 DEF Tokenlist
  <2>2. Joined(none) = none
    BY JoinedSteps
  <2>3. Joined(one) = space \o v
    <3>1. Joined(Append(none, v)) = Joined(none) \o (space \o v)
      BY <1>7, <2>1, JoinedSteps DEF space
    <3>2. space \o v \in Seq(Symbol)
      BY <1>7, <1>11, ConcatProperties
    <3>3. none \o (space \o v) = space \o v
      BY <3>2, ConcatEmptySeq
    <3> QED
      BY <2>1, <2>2, <3>1, <3>3
  <2>4. MessageTokens(m) = one \o fs
    BY <1>7 DEF MessageTokens, fs
  <2> HIDE DEF one, none
  <2>5. Joined(one \o fs) = Joined(one) \o J
    BY <1>7, <2>1, JoinedOfAJoin DEF J
  <2>6. \A x \in Seq(Symbol) : \A y \in Seq(Symbol) : \A z \in Seq(Symbol) :
          (x \o y) \o z = x \o (y \o z)
    BY ConcatAssociative
  <2>7. (space \o v) \o J = space \o (v \o J)
    BY <1>7, <1>8, <1>11, <2>6
  <2> QED
    BY <2>3, <2>4, <2>5, <2>7 DEF L
<1> QED
  BY <1>12, <1>13, <1>14, <1>15, <1>16 DEF L, space

-----------------------------------------------------------------------------
(* The width of a line does not depend on the order of its fields.         *)
OneOf(S, v, i)   == IF i \in S THEN v[i] ELSE 0
SumOver(S, v)    == OneOf(S, v, 1) + OneOf(S, v, 2) + OneOf(S, v, 3) + OneOf(S, v, 4) + OneOf(S, v, 5)
IsWeight(v, n)   == n \in 0 .. 5 /\ \A i \in 1 .. n : v[i] \in Nat
SeenBy(g, c)     == {g[k] : k \in 2 .. c}

Grows(v, n, L, a, g) ==
  /\ IsWeight(v, n) /\ L \in Nat /\ \A c \in 1 .. L : a[c] \in Nat
  /\ \A c \in 2 .. L : g[c] \in 1 .. n /\ a[c] >= a[c - 1] + v[g[c]]
  /\ \A k, j \in 2 .. L : g[k] = g[j] => k = j

GrowsExactly(v, L, a, g) == \A k \in 2 .. L : a[k] = a[k - 1] + v[g[k]]

PrefixWidths(ts) == [c \in 1 .. Len(ts) |-> Width(Joined(SubSeq(ts, 1, c)))]

LEMMA SumWithOneMore ==
  ASSUME NEW v, NEW n, IsWeight(v, n), NEW S \in SUBSET (1 .. n), NEW j \in (1 .. n) \ S
  PROVE  /\ SumOver(S \cup {j}, v) = SumOver(S, v) + v[j]
         /\ SumOver(S, v) \in Nat
<1>1. j \in 1 .. 5 /\ n \in 0 .. 5
  BY DEF IsWeight
<1>2. \A i \in 1 .. 5 : OneOf(S, v, i) \in Nat
  BY DEF OneOf, IsWeight
<1>3. v[j] \in Nat /\ OneOf(S, v, j) = 0 /\ OneOf(S \cup {j}, v, j) = v[j]
  BY DEF OneOf, IsWeight
<1>4. \A i \in 1 .. 5 : i # j => OneOf(S \cup {j}, v, i) = OneOf(S, v, i)
  BY DEF OneOf
<1>5. j = 1 \/ j = 2 \/ j = 3 \/ j = 4 \/ j = 5
  BY <1>1
<1> QED
  BY <1>2, <1>3, <1>4, <1>5 DEF SumOver

(***************************************************************************)
(* What grows at step c by the weight of g[c] at least has, in the end,    *)
(* grown by the weights of all that g has been to, if to none twice.       *)
(***************************************************************************)
LEMMA GrowsByTheSum ==
  ASSUME NEW v, NEW n, NEW L, NEW a, NEW g, Grows(v, n, L, a, g)
  PROVE  \A c \in 1 .. L :
           /\ a[c] >= a[1] + SumOver(SeenBy(g, c), v)
           /\ GrowsExactly(v, L, a, g) => a[c] = a[1] + SumOver(SeenBy(g, c), v)
<1> DEFINE exact == GrowsExactly(v, L, a, g)
           Q(c) == /\ a[c] >= a[1] + SumOver(SeenBy(g, c), v)
                   /\ exact => a[c] = a[1] + SumOver(SeenBy(g, c), v)
           T == {d \in Nat : d + 1 \in 1 .. L => Q(d + 1)}
<1>0. /\ IsWeight(v, n) /\ L \in Nat /\ \A c \in 1 .. L : a[c] \in Nat
      /\ \A c \in 2 .. L : g[c] \in 1 .. n /\ a[c] >= a[c - 1] + v[g[c]]
      /\ \A k, j \in 2 .. L : g[k] = g[j] => k = j
  BY DEF Grows
<1>1. 0 \in T
  <2>1. SeenBy(g, 1) = {}
    BY DEF SeenBy
  <2>2. SumOver({}, v) = 0
    BY DEF SumOver, OneOf
  <2>3. 1 \in 1 .. L => Q(1)
    BY <1>0, <2>1, <2>2
  <2> HIDE DEF Q
  <2> QED
    BY <2>3
<1>2. ASSUME NEW d \in T PROVE d + 1 \in T
  <2>1. d \in Nat /\ (d + 1 \in 1 .. L => Q(d + 1))
    OBVIOUS
  <2> SUFFICES ASSUME d + 2 \in 1 .. L PROVE Q(d + 2)
    BY <2>1
  <2> DEFINE c == d + 2
             S == SeenBy(g, d + 1)
             j == g[c]
  <2>2. c \in 2 .. L /\ c - 1 = d + 1 /\ d + 1 \in 1 .. L
    BY <1>0, <2>1
  <2>3. Q(d + 1)
    BY <2>1, <2>2
  <2>4. j \in 1 .. n /\ a[c] >= a[d + 1] + v[j] /\ a[c] \in Nat /\ a[d + 1] \in Nat /\ a[1] \in Nat
    BY <1>0, <2>2
  <2>5. v[j] \in Nat
    BY <1>0, <2>4 DEF IsWeight
  <2>6. S \in SUBSET (1 .. n) /\ j \notin S
    BY <1>0, <2>1, <2>2 DEF SeenBy
  <2>7. SeenBy(g, c) = S \cup {j}
    BY <2>1 DEF SeenBy
  <2>8. exact => a[c] = a[d + 1] + v[j]
    BY <2>2 DEF GrowsExactly
  <2> HIDE DEF S, j, c
  <2>9. SumOver(S \cup {j}, v) = SumOver(S, v) + v[j] /\ SumOver(S, v) \in Nat
    BY <1>0, <2>4, <2>6, SumWithOneMore
  <2>10. a[d + 1] >= a[1] + SumOver(S, v) /\ (exact => a[d + 1] = a[1] + SumOver(S, v))
    BY <2>3 DEF S
  <2>11. a[c] >= a[1] + SumOver(SeenBy(g, c), v)
    BY <2>4, <2>5, <2>7, <2>9, <2>10
  <2>12. exact => a[c] = a[1] + SumOver(SeenBy(g, c), v)
    <3> HIDE DEF exact
    <3> QED
      BY <2>4, <2>5, <2>7, <2>8, <2>9, <2>10
  <2> QED
    BY <2>11, <2>12 DEF c
<1>3. T \in SUBSET Nat
  OBVIOUS
<1> HIDE DEF T
<1>4. T = Nat
  BY <1>1, <1>2, <1>3, EveryNaturalIsReached
<1>5. ASSUME NEW c \in 1 .. L PROVE Q(c)
  <2>1. c - 1 \in Nat /\ (c - 1) + 1 = c
    OBVIOUS
  <2>2. c - 1 \in T
    BY <1>4, <2>1
  <2> HIDE DEF Q
  <2>3. (c - 1) + 1 \in 1 .. L => Q((c - 1) + 1)
    BY <2>2 DEF T
  <2> QED
    BY <2>1, <2>3
<1> QED
  BY <1>5

(* The prefixes of a list of tokens, and what each takes on the wire.      *)
LEMMA WidthsOfPrefixes ==
  ASSUME NEW ts \in Seq(Seq(Symbol)), ts # <<>>
  PROVE  LET a == PrefixWidths(ts)
         IN  /\ Len(ts) \in Nat /\ Len(ts) >= 1
             /\ \A c \in 1 .. Len(ts) : a[c] \in Nat
             /\ \A c \in 2 .. Len(ts) : a[c] = a[c - 1] + (1 + Width(ts[c])) /\ Width(ts[c]) \in Nat
             /\ a[1] = 1 + Width(ts[1])
             /\ a[Len(ts)] = Width(Joined(ts))
<1> DEFINE S == Seq(Symbol)
           L == Len(ts)
           P(c) == SubSeq(ts, 1, c)
           a == [c \in 1 .. L |-> Width(Joined(P(c)))]
<1>1. ts \in Seq(S) /\ L \in Nat /\ L >= 1 /\ \A c \in 1 .. L : ts[c] \in S
  <2> HIDE DEF S
  <2>1. ts \in Seq(S)
    BY DEF S
  <2> QED
    BY <2>1, EmptySeq, LenProperties, ElementOfSeq
<1>2. ASSUME NEW c \in 1 .. L PROVE P(c) \in Seq(S)
  <2> HIDE DEF S
  <2> QED
    BY <1>1
<1>3. ASSUME NEW c \in 1 .. L PROVE P(c) \in Tokenlist
  BY <1>2 DEF Tokenlist
<1>4. ASSUME NEW c \in 2 .. L PROVE P(c) = Append(P(c - 1), ts[c])
  <2> DEFINE s == P(c - 1)
             e == ts[c]
             one == <<e>>
  <2> HIDE DEF S
  <2>1. SubSeq(ts, 1, c) = SubSeq(ts, 1, c - 1) \o <<ts[c]>>
    BY <1>1, SubSeqRecursiveSecond
  <2>2. c - 1 \in 1 .. L
    BY <1>1
  <2>3. s \in Seq(S) /\ e \in S
    BY <1>1, <1>2, <2>2
  <2> HIDE DEF s, e
  <2>4. Append(s, e) = s \o <<e>>
    BY <2>3, AppendIsConcat
  <2> QED
    BY <2>1, <2>4 DEF s, e
<1>5. P(1) = Append(<<>>, ts[1])
  <2> HIDE DEF S
  <2> DEFINE none == <<>>
             f == SubSeq(ts, 1, 1)
             e == ts[1]
  <2>1. f \in Seq(S) /\ Len(f) = 1 /\ f[1] = e
    BY <1>1
  <2>2. none \in Seq(S) /\ Len(none) = 0 /\ e \in S
    BY <1>1
  <2> HIDE DEF none, f, e
  <2>3. Append(none, e) \in Seq(S) /\ Len(Append(none, e)) = 1 /\ Append(none, e)[1] = e
    BY <2>2, AppendProperties
  <2>4. \A i \in 1 .. Len(f) : f[i] = Append(none, e)[i]
    BY <2>1, <2>3
  <2>5. f = Append(none, e)
    BY <2>1, <2>3, <2>4, SeqEqual
  <2> QED
    BY <2>5 DEF none, f, e
<1>6. P(L) = ts
  <2> HIDE DEF S
  <2> QED
    BY <1>1, SubSeqFull
<1> HIDE DEF P
<1>7. ASSUME NEW c \in 1 .. L PROVE a[c] = Width(Joined(P(c))) /\ a[c] \in Nat
  BY <1>3, JoinedWidth
<1>8. ASSUME NEW c \in 1 .. L PROVE Width(ts[c]) \in Nat
  BY <1>1, WidthIsASum
<1>9. ASSUME NEW c \in 2 .. L PROVE a[c] = a[c - 1] + (1 + Width(ts[c]))
  <2>1. c \in 1 .. L /\ c - 1 \in 1 .. L
    BY <1>1
  <2> DEFINE s == P(c - 1)
             e == ts[c]
  <2>2. s \in Tokenlist /\ e \in Seq(Symbol)
    BY <1>1, <1>3, <2>1
  <2> HIDE DEF s, e
  <2>3. Width(Joined(Append(s, e))) = Width(Joined(s)) + 1 + Width(e)
    BY <2>2, JoinedWidth
  <2>4. Width(Joined(s)) \in Nat /\ Width(e) \in Nat
    BY <2>2, JoinedWidth, WidthIsASum
  <2>5. a[c] = Width(Joined(Append(s, e))) /\ a[c - 1] = Width(Joined(s))
    BY <1>4, <1>7, <2>1 DEF s, e
  <2> HIDE DEF a
  <2>6. a[c] = a[c - 1] + (1 + Width(e))
    BY <2>3, <2>4, <2>5
  <2> QED
    BY <2>6 DEF e
<1>10. a[1] = 1 + Width(ts[1])
  <2> DEFINE e == ts[1]
             none == <<>>
  <2>1. e \in Seq(Symbol) /\ none \in Tokenlist /\ Width(e) \in Nat /\ 1 \in 1 .. L
    BY <1>1, NoTokens, WidthIsASum
  <2>2. Width(Joined(none)) = 0
    BY JoinedWidth
  <2> HIDE DEF e, none
  <2>3. Width(Joined(Append(none, e))) = Width(Joined(none)) + 1 + Width(e)
    BY <2>1, JoinedWidth
  <2>4. a[1] = Width(Joined(Append(none, e)))
    BY <1>5, <1>7, <2>1 DEF e, none
  <2> HIDE DEF a
  <2>5. a[1] = 1 + Width(e)
    BY <2>1, <2>2, <2>3, <2>4
  <2> QED
    BY <2>5 DEF e
<1>11. a[L] = Width(Joined(ts))
  BY <1>1, <1>6, <1>7
<1>12. a = PrefixWidths(ts)
  BY DEF P, PrefixWidths
<1> HIDE DEF a
<1> QED
  BY <1>1, <1>7, <1>8, <1>9, <1>10, <1>11, <1>12

(***************************************************************************)
(* A message as the encoder orders it takes no more than any line that     *)
(* matches it, and just as much as any arrangement of it.                  *)
(***************************************************************************)
LEMMA WidthsAreOrdered ==
  ASSUME NEW m, IsAMessage(m), MessageIsValid(m), NEW ts, NEW g, Matched(m, ts, g)
  PROVE  /\ Width(Joined(MessageTokens(m))) <= Width(Joined(ts))
         /\ (\A k \in 2 .. Len(ts) : Width(ts[k]) = Width(TokenOfField(m, g[k]))) =>
              Width(Joined(MessageTokens(m))) = Width(Joined(ts))
         /\ Width(Joined(MessageTokens(m))) \in Nat /\ Width(Joined(ts)) \in Nat
<1> DEFINE n == Len(FieldsOf(m.verb))
           ms == MessageTokens(m)
           h == [k \in 2 .. 1 + n |-> k - 1]
           v == [i \in 1 .. n |-> 1 + Width(TokenOfField(m, i))]
           a == PrefixWidths(ts)
           b == PrefixWidths(ms)
           L == Len(ts)
<1>1. /\ ms \in Seq(Seq(Symbol)) /\ Len(ms) = 1 + n /\ n \in {1, 3, 5}
      /\ DOMAIN FieldsOf(m.verb) = 1 .. n /\ ms[1] = VerbToken(m.verb)
      /\ \A k \in 2 .. 1 + n : ms[k] = TokenOfField(m, k - 1)
      /\ VerbToken(m.verb) \in Seq(Symbol)
  BY TokensOfAMessage
<1>2. n \in Nat /\ n \in 0 .. 5 /\ ms # <<>>
  BY <1>1, EmptySeq
<1>3. ASSUME NEW i \in 1 .. n PROVE TokenOfField(m, i) \in Seq(Symbol)
  BY <1>1, TokenOfFieldIs
<1>4. ASSUME NEW i \in 1 .. n PROVE v[i] = 1 + Width(TokenOfField(m, i)) /\ v[i] \in Nat
  BY <1>3, WidthIsASum
<1>5. IsWeight(v, n)
  BY <1>2, <1>4 DEF IsWeight
<1>6. /\ ts \in Seq(Seq(Symbol)) /\ ts # <<>> /\ ts[1] = VerbToken(m.verb)
      /\ \A k \in 2 .. L : g[k] \in 1 .. n /\ Width(TokenOfField(m, g[k])) <= Width(ts[k])
      /\ \A k, j \in 2 .. L : g[k] = g[j] => k = j
      /\ \A i \in 1 .. n : \E k \in 2 .. L : g[k] = i
  BY <1>1 DEF Matched
<1>7. /\ L \in Nat /\ L >= 1 /\ \A c \in 1 .. L : a[c] \in Nat
      /\ \A c \in 2 .. L : a[c] = a[c - 1] + (1 + Width(ts[c])) /\ Width(ts[c]) \in Nat
      /\ a[1] = 1 + Width(ts[1]) /\ a[L] = Width(Joined(ts))
  BY <1>6, WidthsOfPrefixes
<1>8. /\ \A c \in 1 .. Len(ms) : b[c] \in Nat
      /\ \A c \in 2 .. Len(ms) : b[c] = b[c - 1] + (1 + Width(ms[c])) /\ Width(ms[c]) \in Nat
      /\ b[1] = 1 + Width(ms[1]) /\ b[Len(ms)] = Width(Joined(ms))
  <2> HIDE DEF ms
  <2> QED
    BY <1>1, <1>2, WidthsOfPrefixes
<1> HIDE DEF a, b, v, ms, n
<1>9. ASSUME NEW c \in 2 .. L PROVE a[c] >= a[c - 1] + v[g[c]]
  <2> DEFINE x == a[c - 1]
             y == Width(ts[c])
             z == Width(TokenOfField(m, g[c]))
  <2>1. x \in Nat /\ y \in Nat /\ z \in Nat /\ z <= y
    <3>1. c - 1 \in 1 .. L /\ g[c] \in 1 .. n
      BY <1>6, <1>7
    <3>2. TokenOfField(m, g[c]) \in Seq(Symbol)
      BY <1>3, <3>1
    <3> QED
      BY <1>6, <1>7, <3>1, <3>2, WidthIsASum
  <2>2. a[c] = x + (1 + y) /\ v[g[c]] = 1 + z
    BY <1>4, <1>6, <1>7
  <2> HIDE DEF x, y, z
  <2>3. a[c] >= x + v[g[c]]
    BY <2>1, <2>2
  <2> QED
    BY <2>3 DEF x
<1>10. \A c \in 1 .. L :
         /\ a[c] >= a[1] + SumOver(SeenBy(g, c), v)
         /\ GrowsExactly(v, L, a, g) => a[c] = a[1] + SumOver(SeenBy(g, c), v)
  <2>1. Grows(v, n, L, a, g)
    BY <1>5, <1>6, <1>7, <1>9 DEF Grows
  <2> QED
    BY <2>1, GrowsByTheSum
<1>11. ASSUME NEW c \in 2 .. 1 + n
       PROVE  h[c] \in 1 .. n /\ b[c] = b[c - 1] + v[h[c]] /\ b[c - 1] \in Nat /\ v[h[c]] \in Nat
  <2>1. c - 1 \in 1 .. n /\ h[c] = c - 1 /\ c - 1 \in 1 .. Len(ms)
    BY <1>1, <1>2
  <2>2. ms[c] = TokenOfField(m, c - 1)
    BY <1>1
  <2> QED
    BY <1>1, <1>4, <1>8, <2>1, <2>2
<1>12. \A c \in 1 .. 1 + n :
         /\ b[c] >= b[1] + SumOver(SeenBy(h, c), v)
         /\ GrowsExactly(v, 1 + n, b, h) => b[c] = b[1] + SumOver(SeenBy(h, c), v)
  <2> DEFINE M == 1 + n
  <2>1. M \in Nat /\ \A c \in 1 .. M : b[c] \in Nat
    BY <1>1, <1>2, <1>8
  <2>2. \A k, j \in 2 .. M : h[k] = h[j] => k = j
    OBVIOUS
  <2>3. \A c \in 2 .. M : h[c] \in 1 .. n /\ b[c] >= b[c - 1] + v[h[c]]
    BY <1>11
  <2> HIDE DEF M, h
  <2>4. \A c \in 1 .. M :
          /\ b[c] >= b[1] + SumOver(SeenBy(h, c), v)
          /\ GrowsExactly(v, M, b, h) => b[c] = b[1] + SumOver(SeenBy(h, c), v)
    <3>1. Grows(v, n, M, b, h)
      BY <1>5, <2>1, <2>2, <2>3 DEF Grows
    <3> QED
      BY <3>1, GrowsByTheSum
  <2> QED
    BY <2>4 DEF M
<1>13. SeenBy(g, L) = 1 .. n
  <2>1. \A i \in 1 .. n : i \in SeenBy(g, L)
    BY <1>6 DEF SeenBy
  <2>2. \A i \in SeenBy(g, L) : i \in 1 .. n
    BY <1>6 DEF SeenBy
  <2> QED
    BY <2>1, <2>2
<1>14. SeenBy(h, 1 + n) = 1 .. n
  <2>1. ASSUME NEW i \in 1 .. n PROVE i \in SeenBy(h, 1 + n)
    <3>1. i + 1 \in 2 .. 1 + n /\ h[i + 1] = i
      BY <1>2
    <3> HIDE DEF h
    <3> QED
      BY <3>1 DEF SeenBy
  <2>2. \A i \in SeenBy(h, 1 + n) : i \in 1 .. n
    BY <1>11 DEF SeenBy
  <2> QED
    BY <2>1, <2>2
<1> DEFINE total == SumOver(1 .. n, v)
<1>15. b[1] = a[1] /\ b[1 + n] = b[1] + total /\ a[L] >= a[1] + total
       /\ a[1] \in Nat /\ a[L] \in Nat /\ b[1 + n] \in Nat
       /\ (GrowsExactly(v, L, a, g) => a[L] = a[1] + total)
  <2>1. b[1] = a[1]
    BY <1>1, <1>6, <1>7, <1>8
  <2>2. 1 + n \in 1 .. 1 + n /\ L \in 1 .. L /\ 1 \in 1 .. L /\ 1 + n \in 1 .. Len(ms)
    BY <1>1, <1>2, <1>7
  <2>3. a[1] \in Nat /\ a[L] \in Nat /\ b[1 + n] \in Nat
    BY <1>7, <1>8, <2>2
  <2>4. b[1 + n] = b[1] + total
    <3> HIDE DEF h
    <3>1. GrowsExactly(v, 1 + n, b, h)
      BY <1>11 DEF GrowsExactly
    <3> QED
      BY <1>12, <1>14, <2>2, <3>1
  <2>5. /\ a[L] >= a[1] + total
        /\ GrowsExactly(v, L, a, g) => a[L] = a[1] + total
    BY <1>10, <1>13, <2>2
  <2> QED
    BY <2>1, <2>3, <2>4, <2>5
<1> HIDE DEF total
<1>16. b[1 + n] = Width(Joined(ms)) /\ a[L] = Width(Joined(ts))
  BY <1>1, <1>7, <1>8
<1>17. (\A k \in 2 .. L : Width(ts[k]) = Width(TokenOfField(m, g[k]))) =>
          GrowsExactly(v, L, a, g)
  BY <1>4, <1>6, <1>7 DEF GrowsExactly
<1> QED
  BY <1>15, <1>16, <1>17 DEF ms

-----------------------------------------------------------------------------
(* Encoding and parsing undo each other.                                   *)
LEMMA EncoderIsArranged ==
  ASSUME NEW m, IsAMessage(m), MessageIsValid(m)
  PROVE  Arranged(m, MessageTokens(m), [k \in 2 .. Len(MessageTokens(m)) |-> k - 1])
<1> DEFINE n == Len(FieldsOf(m.verb))
           ms == MessageTokens(m)
           K == 2 .. Len(ms)
           h == [k \in K |-> k - 1]
<1>1. /\ ms \in Seq(Seq(Symbol)) /\ Len(ms) = 1 + n /\ n \in {1, 3, 5}
      /\ DOMAIN FieldsOf(m.verb) = 1 .. n /\ ms[1] = VerbToken(m.verb)
      /\ \A k \in 2 .. 1 + n : ms[k] = TokenOfField(m, k - 1)
  BY TokensOfAMessage
<1> HIDE DEF n, ms
<1>2. n \in Nat /\ ms # <<>>
  BY <1>1, EmptySeq
<1>3. \A k \in K : h[k] = k - 1 /\ h[k] \in 1 .. n
  BY <1>1, <1>2
<1>4. ASSUME NEW i \in 1 .. n PROVE i + 1 \in K /\ h[i + 1] = i
  BY <1>1, <1>2
<1> HIDE DEF h
<1>5. \A k, j \in K : h[k] = h[j] => k = j
  BY <1>3
<1>6. \A i \in 1 .. n : \E k \in K : h[k] = i
  BY <1>4
<1>7. Arranged(m, ms, h)
  BY <1>1, <1>2, <1>3, <1>5, <1>6 DEF Arranged
<1> QED
  BY <1>7 DEF h, ms

LEMMA ArrangedIsMatched ==
  ASSUME NEW m, IsAMessage(m), MessageIsValid(m), NEW ts, NEW g, Arranged(m, ts, g)
  PROVE  Matched(m, ts, g) /\ \A k \in 2 .. Len(ts) : Width(ts[k]) = Width(TokenOfField(m, g[k]))
<1>1. ASSUME NEW k \in 2 .. Len(ts)
      PROVE  /\ g[k] \in DOMAIN FieldsOf(m.verb) /\ ts[k] = TokenOfField(m, g[k])
             /\ Width(ts[k]) \in Nat
  <2>1. g[k] \in DOMAIN FieldsOf(m.verb) /\ ts[k] = TokenOfField(m, g[k])
    BY DEF Arranged
  <2>2. ts[k] \in Seq(Symbol)
    BY <2>1, TokenOfFieldIs
  <2> QED
    BY <2>1, <2>2, WidthIsASum
<1>2. \A k \in 2 .. Len(ts) : Width(TokenOfField(m, g[k])) <= Width(ts[k])
  BY <1>1
<1> QED
  BY <1>1, <1>2 DEF Arranged, Matched

(* remote_protocol_encode gives the line, if it is not too long.           *)
LEMMA EncodedIsTheLine ==
  ASSUME NEW m, IsAMessage(m)
  PROVE  /\ Encode(m, MaxMessageLength) # <<>> <=>
              MessageIsValid(m) /\ Width(LineOf(m)) <= MaxMessageLength
         /\ Encode(m, MaxMessageLength) # <<>> => Encode(m, MaxMessageLength) = LineOf(m)
<1>1. Min({MaxMessageLength, MaxMessageLength}) = MaxMessageLength
  <2> DEFINE x == MaxMessageLength
  <2>1. x \in Int
    BY CodecAssumption
  <2> HIDE DEF x
  <2>2. {x, x} = {x}
    OBVIOUS
  <2>3. Min({x, x}) = x
    BY <2>1, <2>2, MinOfOne
  <2> QED
    BY <2>3 DEF x
<1>2. Encode(m, MaxMessageLength) =
        IF MessageIsValid(m) /\ Width(LineOf(m)) <= MaxMessageLength THEN LineOf(m) ELSE <<>>
  BY <1>1 DEF Encode
<1>3. MessageIsValid(m) => LineOf(m) # <<>>
  BY LineIsJoined
<1> QED
  BY <1>2, <1>3

(* The line of a message, without its line feed, is its tokens.            *)
LEMMA LineOfAMessage ==
  ASSUME NEW m, IsAMessage(m), MessageIsValid(m)
  PROVE  /\ Front(LineOf(m)) = Tail(Joined(MessageTokens(m)))
         /\ Front(LineOf(m)) \in Seq(Symbol)
         /\ Tokens(Front(LineOf(m))) = MessageTokens(m)
         /\ Width(LineOf(m)) = Width(Joined(MessageTokens(m)))
         /\ Width(LineOf(m)) = Width(Front(LineOf(m))) + 1
         /\ Width(Front(LineOf(m))) \in Nat
<1> DEFINE L == Front(LineOf(m))
           ms == MessageTokens(m)
           all == LineOf(m)
<1>1. L \in Seq(Symbol) /\ <<Space>> \o L = Joined(ms) /\ Width(all) = Width(L) + 1
  BY LineIsJoined
<1>2. ms \in Seq(Seq(Unspaced)) /\ ms # <<>>
  <2>1. Arranged(m, ms, [k \in 2 .. Len(ms) |-> k - 1])
    BY EncoderIsArranged
  <2> QED
    BY <2>1, ArrangedLinesParse
<1> HIDE DEF L, ms, all
<1>3. /\ Tail(Joined(ms)) \in Seq(Symbol) /\ Tokens(Tail(Joined(ms))) = ms
      /\ Width(Joined(ms)) = 1 + Width(Tail(Joined(ms)))
  BY <1>2, LineOfTokens
<1>4. L = Tail(Joined(ms))
  <2> DEFINE S == Symbol
             x == Space
  <2>1. x \in S /\ L \in Seq(S) /\ <<x>> \o L = Joined(ms)
    BY <1>1, SpaceIsASymbol
  <2> HIDE DEF S, x
  <2>2. Tail(<<x>> \o L) = L
    BY <2>1, TailOfAPrepended
  <2> QED
    BY <2>1, <2>2
<1>5. Width(L) \in Nat
  BY <1>1, WidthIsASum
<1>6. Width(all) = Width(Joined(ms))
  BY <1>1, <1>3, <1>4, <1>5
<1> QED
  BY <1>1, <1>3, <1>4, <1>5, <1>6 DEF L, ms, all

(***************************************************************************)
(* What is encoded is received for what it was, in any order of its fields.*)
(***************************************************************************)
LEMMA EncodedIsReceived ==
  ASSUME NEW m, IsAMessage(m), Encode(m, MaxMessageLength) # <<>>, NEW ts, NEW g, Arranged(m, ts, g)
  PROVE  ReceiveLine(Tail(Joined(ts))) = [kind |-> "MESSAGE", message |-> m]
<1>1. MessageIsValid(m) /\ Width(LineOf(m)) <= MaxMessageLength
  BY EncodedIsTheLine
<1>2. /\ ParseLine(Tail(Joined(ts))) = [kind |-> "MESSAGE", message |-> m]
      /\ ts \in Seq(Seq(Unspaced)) /\ ts # <<>>
  BY <1>1, ArrangedLinesParse
<1>3. Tail(Joined(ts)) \in Seq(Symbol) /\ Width(Joined(ts)) = 1 + Width(Tail(Joined(ts)))
  BY <1>2, LineOfTokens
<1>4. Width(Joined(MessageTokens(m))) = Width(Joined(ts))
  <2>1. Matched(m, ts, g) /\ \A k \in 2 .. Len(ts) : Width(ts[k]) = Width(TokenOfField(m, g[k]))
    BY <1>1, ArrangedIsMatched
  <2> QED
    BY <1>1, <2>1, WidthsAreOrdered
<1>5. Width(LineOf(m)) = Width(Joined(MessageTokens(m)))
  BY <1>1, LineOfAMessage
<1>6. ~(Width(Tail(Joined(ts))) >= MaxMessageLength)
  <2>1. Width(Tail(Joined(ts))) \in Nat
    BY <1>3, WidthIsASum
  <2>2. MaxMessageLength \in Nat
    BY CodecAssumption
  <2> QED
    BY <1>1, <1>3, <1>4, <1>5, <2>1, <2>2
<1> QED
  BY <1>2, <1>6 DEF ReceiveLine

(* A needless escape in a token is one in the line.                        *)
LEMMA OverEscapesOfATail ==
  ASSUME NEW s \in Seq(Symbol), OverEscapes(<<Space>> \o s)
  PROVE  OverEscapes(s)
<1> DEFINE e == <<Space>>
           u == e \o s
<1>1. e \in Seq(Symbol) /\ Len(e) = 1 /\ e[1] = Space /\ Len(s) \in Nat
  BY SpaceIsASymbol, LenProperties
<1> HIDE DEF e
<1>2. Len(u) = Len(s) + 1 /\ \A i \in 1 .. Len(s) + 1 : u[i] = IF i <= 1 THEN e[i] ELSE s[i - 1]
  <2>1. /\ Len(u) = Len(e) + Len(s)
        /\ \A i \in 1 .. Len(e) + Len(s) : u[i] = IF i <= Len(e) THEN e[i] ELSE s[i - Len(e)]
    BY <1>1, ConcatProperties
  <2> HIDE DEF u
  <2>2. Len(e) + Len(s) = Len(s) + 1
    BY <1>1
  <2> QED
    BY <1>1, <2>1, <2>2
<1> HIDE DEF u
<1>3. PICK i \in 1 .. Len(u) - 2 : u[i] = Percent /\ IsUnreserved(ByteOf(u[i + 1], u[i + 2]))
  BY DEF OverEscapes, u, e
<1>4. u[1] = Space /\ Space # Percent
  BY <1>1, <1>2 DEF Space, Percent
<1>5. i # 1 /\ i \in 2 .. Len(s) - 1
  BY <1>1, <1>2, <1>3, <1>4
<1>6. u[i] = s[i - 1] /\ u[i + 1] = s[(i - 1) + 1] /\ u[i + 2] = s[(i - 1) + 2]
  <2>1. /\ i \in 1 .. Len(s) + 1 /\ ~(i <= 1) /\ i + 1 \in 1 .. Len(s) + 1 /\ ~(i + 1 <= 1)
        /\ i + 2 \in 1 .. Len(s) + 1 /\ ~(i + 2 <= 1)
        /\ (i + 1) - 1 = (i - 1) + 1 /\ (i + 2) - 1 = (i - 1) + 2
    BY <1>1, <1>5
  <2> QED
    BY <1>2, <2>1
<1>7. i - 1 \in 1 .. Len(s) - 2
  BY <1>1, <1>5
<1> QED
  BY <1>3, <1>6, <1>7 DEF OverEscapes

LEMMA OverEscapesOfTokens ==
  \A ts \in Tokenlist : (\E k \in 1 .. Len(ts) : OverEscapes(ts[k])) => OverEscapes(Joined(ts))
<1> DEFINE S == Seq(Symbol)
           T == {ts \in Seq(S) : (\E k \in 1 .. Len(ts) : OverEscapes(ts[k])) => OverEscapes(Joined(ts))}
           none == <<>>
<1>1. none \in T
  <2>1. none \in Seq(S) /\ Len(none) = 0
    OBVIOUS
  <2> HIDE DEF none
  <2> QED
    BY <2>1
<1>2. ASSUME NEW ts \in T, NEW t \in S PROVE Append(ts, t) \in T
  <2> DEFINE us == Append(ts, t)
  <2>1. ts \in Seq(S) /\ ts \in Tokenlist
    BY DEF Tokenlist
  <2>2. us \in Seq(S) /\ Len(us) = Len(ts) + 1 /\ Len(ts) \in Nat
        /\ (\A k \in 1 .. Len(ts) : us[k] = ts[k]) /\ us[Len(ts) + 1] = t
    <3> HIDE DEF S
    <3> QED
      BY <2>1, AppendProperties, LenProperties
  <2>3. Joined(us) = Joined(ts) \o (<<Space>> \o t) /\ Joined(ts) \in Seq(Symbol)
    BY <2>1, JoinedSteps
  <2> HIDE DEF us
  <2> SUFFICES \A k \in 1 .. Len(us) : OverEscapes(us[k]) => OverEscapes(Joined(us))
    BY <2>2 DEF us
  <2> TAKE k \in 1 .. Len(us)
  <2> HAVE OverEscapes(us[k])
  <2> DEFINE e == <<Space>>
  <2>4. e \in Seq(Symbol)
    BY SpaceIsASymbol
  <2> HIDE DEF e
  <2>5. e \o t \in Seq(Symbol)
    BY <2>4, ConcatProperties
  <2>6. CASE k <= Len(ts)
    <3>1. OverEscapes(ts[k]) /\ k \in 1 .. Len(ts)
      BY <2>2, <2>6
    <3>2. OverEscapes(Joined(ts))
      BY <3>1
    <3> QED
      BY <2>3, <2>5, <3>2, OverEscapesOfAJoin DEF e
  <2>7. CASE ~(k <= Len(ts))
    <3>1. OverEscapes(t)
      BY <2>2, <2>7
    <3>2. OverEscapes(e \o t)
      BY <2>4, <3>1, OverEscapesOfAJoin
    <3> QED
      BY <2>3, <2>5, <3>2, OverEscapesOfAJoin DEF e
  <2> QED
    BY <2>6, <2>7
<1>3. T \in SUBSET Seq(S)
  OBVIOUS
<1> HIDE DEF T, S
<1>4. T = Seq(S)
  BY <1>1, <1>2, <1>3, EverySequenceIsReached DEF none
<1> QED
  BY <1>4 DEF T, S, Tokenlist

(***************************************************************************)
(* What is received encodes again, to a line that means the same, is no    *)
(* longer and, but for needless escapes, has the same tokens.              *)
(***************************************************************************)
LEMMA ReceivedIsEncoded ==
  ASSUME NEW raw \in Seq(Symbol), ReceiveLine(raw).kind = "MESSAGE"
  PROVE  LET outcome == ReceiveLine(raw)
             again   == Encode(outcome.message, MaxMessageLength)
         IN  /\ IsAMessage(outcome.message) /\ MessageIsValid(outcome.message)
             /\ again # <<>> /\ ReceiveLine(Front(again)) = outcome
             /\ Width(again) <= Width(raw) + 1
             /\ OverEscapes(raw) \/ ToSet(Tokens(Front(again))) = ToSet(Tokens(raw))
<1> DEFINE m == ParseLine(raw).message
           ts == Tokens(raw)
           ms == MessageTokens(m)
<1>1. Width(raw) < MaxMessageLength /\ ReceiveLine(raw) = ParseLine(raw)
      /\ ParseLine(raw).kind = "MESSAGE"
  <2>1. \A error : ParseError(error).kind # "MESSAGE"
    BY DEF ParseError
  <2>2. ~(Width(raw) >= MaxMessageLength)
    BY <2>1 DEF ReceiveLine
  <2>3. Width(raw) \in Nat /\ MaxMessageLength \in Nat
    BY WidthIsASum, CodecAssumption
  <2> QED
    BY <2>2, <2>3 DEF ReceiveLine
<1>2. /\ ParseLine(raw) = [kind |-> "MESSAGE", message |-> m]
      /\ IsAMessage(m) /\ MessageIsValid(m) /\ \E g : Matched(m, ts, g)
  BY <1>1, ParsedLineMatches
<1>3. PICK g : Matched(m, ts, g)
  BY <1>2
<1>4. /\ ts \in Tokenlist /\ ts # <<>> /\ Width(Joined(ts)) = 1 + Width(raw)
      /\ Joined(ts) = <<Space>> \o raw
  BY LineIsItsTokens, JoinOfTheTokens
<1> HIDE DEF m, ts
<1>5. Width(Joined(ms)) <= Width(Joined(ts)) /\ Width(Joined(ms)) \in Nat
  BY <1>2, <1>3, WidthsAreOrdered
<1>6. /\ Front(LineOf(m)) = Tail(Joined(ms)) /\ Tokens(Front(LineOf(m))) = ms
      /\ Width(LineOf(m)) = Width(Joined(ms))
  BY <1>2, LineOfAMessage
<1>7. Width(LineOf(m)) <= Width(raw) + 1 /\ Width(LineOf(m)) <= MaxMessageLength
  <2>1. Width(raw) \in Nat /\ MaxMessageLength \in Nat
    BY WidthIsASum, CodecAssumption
  <2> QED
    BY <1>1, <1>4, <1>5, <1>6, <2>1
<1>8. Encode(m, MaxMessageLength) # <<>> /\ Encode(m, MaxMessageLength) = LineOf(m)
  BY <1>2, <1>7, EncodedIsTheLine
<1>9. ReceiveLine(Front(LineOf(m))) = [kind |-> "MESSAGE", message |-> m]
  <2>1. Arranged(m, ms, [k \in 2 .. Len(ms) |-> k - 1])
    BY <1>2, EncoderIsArranged
  <2> HIDE DEF ms
  <2>2. ReceiveLine(Tail(Joined(ms))) = [kind |-> "MESSAGE", message |-> m]
    BY <1>2, <1>8, <2>1, EncodedIsReceived
  <2> QED
    BY <1>6, <2>2
<1>10. OverEscapes(raw) \/ ToSet(ms) = ToSet(ts)
  <2> SUFFICES ASSUME ~OverEscapes(raw) PROVE ToSet(ms) = ToSet(ts)
    OBVIOUS
  <2> DEFINE n == Len(FieldsOf(m.verb))
  <2>1. \A k \in 1 .. Len(ts) : ~OverEscapes(ts[k])
    BY <1>4, OverEscapesOfTokens, OverEscapesOfATail
  <2>2. /\ Len(ms) = 1 + n /\ n \in {1, 3, 5} /\ DOMAIN FieldsOf(m.verb) = 1 .. n
        /\ ms[1] = VerbToken(m.verb) /\ \A k \in 2 .. 1 + n : ms[k] = TokenOfField(m, k - 1)
        /\ ms \in Seq(Seq(Symbol))
    BY <1>2, TokensOfAMessage
  <2>3. /\ ts[1] = VerbToken(m.verb)
        /\ \A k \in 2 .. Len(ts) : g[k] \in 1 .. n /\ ts[k] = TokenOfField(m, g[k])
        /\ \A i \in 1 .. n : \E k \in 2 .. Len(ts) : g[k] = i
    <3>1. \A k \in 2 .. Len(ts) : k \in 1 .. Len(ts)
      OBVIOUS
    <3> QED
      BY <1>3, <2>1, <2>2, <3>1 DEF Matched
  <2>4. Len(ts) \in Nat /\ Len(ts) >= 1 /\ DOMAIN ts = 1 .. Len(ts) /\ DOMAIN ms = 1 .. 1 + n
    <3>1. ts \in Seq(Seq(Symbol)) /\ ts # <<>>
      BY <1>4 DEF Tokenlist
    <3> QED
      BY <2>2, <3>1, EmptySeq, LenProperties
  <2> HIDE DEF ms, n
  <2>5. ASSUME NEW k \in 1 .. 1 + n PROVE \E j \in 1 .. Len(ts) : ts[j] = ms[k]
    <3>1. CASE k = 1
      BY <2>2, <2>3, <2>4, <3>1
    <3>2. CASE k # 1
      <4>1. k \in 2 .. 1 + n /\ k - 1 \in 1 .. n
        BY <2>2, <3>2
      <4>2. PICK j \in 2 .. Len(ts) : g[j] = k - 1
        BY <2>3, <4>1
      <4>3. ts[j] = TokenOfField(m, g[j]) /\ ms[k] = TokenOfField(m, k - 1)
        BY <2>2, <2>3, <4>1, <4>2
      <4>4. j \in 1 .. Len(ts)
        BY <2>4, <4>2
      <4> QED
        BY <4>2, <4>3, <4>4
    <3> QED
      BY <3>1, <3>2
  <2>6. ASSUME NEW j \in 1 .. Len(ts) PROVE \E k \in 1 .. 1 + n : ms[k] = ts[j]
    <3>1. CASE j = 1
      BY <2>2, <2>3, <2>4, <3>1
    <3>2. CASE j # 1
      <4>1. j \in 2 .. Len(ts)
        BY <2>4, <3>2
      <4>2. g[j] \in 1 .. n /\ ts[j] = TokenOfField(m, g[j])
        BY <2>3, <4>1
      <4>3. g[j] + 1 \in 2 .. 1 + n /\ (g[j] + 1) - 1 = g[j] /\ g[j] + 1 \in 1 .. 1 + n
        <5>1. n \in Nat /\ g[j] \in 1 .. n
          BY <2>2, <4>2
        <5> QED
          BY <5>1
      <4>4. ms[g[j] + 1] = ts[j]
        BY <2>2, <4>2, <4>3
      <4> QED
        BY <4>3, <4>4
    <3> QED
      BY <3>1, <3>2
  <2>7. \A x \in ToSet(ms) : x \in ToSet(ts)
    BY <2>4, <2>5 DEF ToSet
  <2>8. \A x \in ToSet(ts) : x \in ToSet(ms)
    BY <2>4, <2>6 DEF ToSet
  <2> QED
    BY <2>7, <2>8
<1>11. ReceiveLine(raw) = [kind |-> "MESSAGE", message |-> m] /\ ReceiveLine(raw).message = m
  BY <1>1, <1>2
<1> HIDE DEF ms
<1> QED
  BY <1>2, <1>6, <1>7, <1>8, <1>9, <1>10, <1>11 DEF ts
-----------------------------------------------------------------------------
(* A Wi-Fi code, as it is read: where the pass stands, and what it has.    *)
Standing(at, key, seen, value) == [at |-> at, key |-> key, seen |-> seen, value |-> value]

Values == [WifiKeys -> Seq(Character)]

CodeScan ==
  {s \in [at : {"KEY", "COLON", "VALUE", "ESCAPED", "END", "BAD"},
          key : {0} \cup WifiKeys, seen : SUBSET WifiKeys, value : Values] :
     s.at \in {"COLON", "VALUE", "ESCAPED"} => s.key \in WifiKeys}

(* What is made of each byte.                                              *)
Kept(key, seen, value, c) ==
  IF Len(value[key]) >= Room[key] THEN Standing("BAD", key, seen, value)
  ELSE Standing("VALUE", key, seen, [value EXCEPT ![key] = Append(value[key], c)])

LEMMA StandingIs ==
  ASSUME NEW at, NEW key, NEW seen, NEW value, NEW other
  PROVE  LET s == Standing(at, key, seen, value)
         IN  /\ s.at = at /\ s.key = key /\ s.seen = seen /\ s.value = value
             /\ [s EXCEPT !.at = other] = Standing(other, key, seen, value)
             /\ [s EXCEPT !.key = other] = Standing(at, other, seen, value)
             /\ [s EXCEPT !.seen = other] = Standing(at, key, other, value)
             /\ [s EXCEPT !.value = other] = Standing(at, key, seen, other)
BY DEF Standing

LEMMA KeepByteIs ==
  ASSUME NEW at, NEW key, NEW seen, NEW value, NEW c
  PROVE  KeepByte(Standing(at, key, seen, value), c) = Kept(key, seen, value, c)
<1> DEFINE s == Standing(at, key, seen, value)
           x == [s EXCEPT !.at = "VALUE"]
           w == [value EXCEPT ![key] = Append(value[key], c)]
           y == [x EXCEPT !.value = w]
<1>1. s.key = key /\ s.value = value
  BY StandingIs
<1>2. x = Standing("VALUE", key, seen, value)
  BY StandingIs
<1>3. [s EXCEPT !.at = "BAD"] = Standing("BAD", key, seen, value)
  BY StandingIs
<1>4. x.value = value /\ y = Standing("VALUE", key, seen, w)
  <2> HIDE DEF w, x
  <2> QED
    BY <1>2, StandingIs
<1> HIDE DEF s
<1>5. [s EXCEPT !.at = "VALUE", !.value[key] = Append(@, c)] = y
  <2> HIDE DEF x
  <2>1. [x EXCEPT !.value = [x.value EXCEPT ![key] = Append(s.value[key], c)]] = y
    BY <1>1, <1>4
  <2> QED
    BY <2>1 DEF x
<1> HIDE DEF x, y
<1> QED
  BY <1>1, <1>3, <1>4, <1>5 DEF KeepByte, Kept, s

LEMMA ReadsAtAKey ==
  ASSUME NEW key, NEW seen, NEW value, NEW c
  PROVE  ReadByte(Standing("KEY", key, seen, value), c) =
           IF c = Semicolon THEN Standing("END", key, seen, value)
           ELSE IF c \in WifiKeys THEN Standing("COLON", c, seen, value)
           ELSE Standing("BAD", key, seen, value)
<1> DEFINE s == Standing("KEY", key, seen, value)
           x == [s EXCEPT !.at = "COLON"]
<1>1. s.at = "KEY"
  BY StandingIs
<1>2. x = Standing("COLON", key, seen, value)
  BY StandingIs
<1>3. /\ [s EXCEPT !.at = "BAD"] = Standing("BAD", key, seen, value)
      /\ [s EXCEPT !.at = "END"] = Standing("END", key, seen, value)
  BY StandingIs
<1> HIDE DEF s
<1>4. [s EXCEPT !.at = "COLON", !.key = c] = Standing("COLON", c, seen, value)
  <2> HIDE DEF x
  <2>1. [x EXCEPT !.key = c] = Standing("COLON", c, seen, value)
    BY <1>2, StandingIs
  <2> QED
    BY <2>1 DEF x
<1> HIDE DEF x
<1> QED
  BY <1>1, <1>3, <1>4 DEF ReadByte, ReadKey, s

LEMMA ReadsAtAColon ==
  ASSUME NEW key, NEW seen, NEW value, NEW c
  PROVE  ReadByte(Standing("COLON", key, seen, value), c) =
           IF c # Colon THEN Standing("BAD", key, seen, value)
           ELSE Standing("VALUE", key, seen \cup {key}, [value EXCEPT ![key] = <<>>])
<1> DEFINE s == Standing("COLON", key, seen, value)
           more == seen \cup {key}
           w == [value EXCEPT ![key] = <<>>]
           x == [s EXCEPT !.at = "VALUE"]
           y == [x EXCEPT !.seen = s.seen \cup {s.key}]
           z == [y EXCEPT !.value = w]
<1>1. s.at = "COLON" /\ s.key = key /\ s.seen = seen /\ s.value = value
  BY StandingIs
<1>2. x = Standing("VALUE", key, seen, value)
  BY StandingIs
<1>3. [s EXCEPT !.at = "BAD"] = Standing("BAD", key, seen, value)
  BY StandingIs
<1>4. y = Standing("VALUE", key, more, value)
  <2> HIDE DEF x, s
  <2>1. [x EXCEPT !.seen = more] = Standing("VALUE", key, more, value)
    <3> HIDE DEF more
    <3> QED
      BY <1>2, StandingIs
  <2>2. s.seen \cup {s.key} = more
    BY <1>1
  <2> QED
    BY <2>1, <2>2
<1>5. y.value = value /\ z = Standing("VALUE", key, more, w)
  <2> HIDE DEF y, w, more
  <2> QED
    BY <1>4, StandingIs
<1> HIDE DEF s
<1>6. [s EXCEPT !.at = "VALUE", !.seen = @ \cup {s.key}, !.value[s.key] = <<>>] = z
  <2> HIDE DEF y
  <2>1. [y EXCEPT !.value = [y.value EXCEPT ![s.key] = <<>>]] = z
    BY <1>1, <1>5
  <2> QED
    BY <2>1 DEF y, x
<1> HIDE DEF x, y, z
<1> QED
  BY <1>1, <1>3, <1>5, <1>6 DEF ReadByte, ReadColon, s

LEMMA ReadsAtAValue ==
  ASSUME NEW key, NEW seen, NEW value, NEW c
  PROVE  ReadByte(Standing("VALUE", key, seen, value), c) =
           CASE c = Semicolon -> Standing("KEY", key, seen, value)
             [] c = Backslash -> Standing("ESCAPED", key, seen, value)
             [] OTHER         -> Kept(key, seen, value, c)
<1> DEFINE s == Standing("VALUE", key, seen, value)
<1>1. s.at = "VALUE"
  BY StandingIs
<1>2. /\ [s EXCEPT !.at = "KEY"] = Standing("KEY", key, seen, value)
      /\ [s EXCEPT !.at = "ESCAPED"] = Standing("ESCAPED", key, seen, value)
  BY StandingIs
<1>3. KeepByte(s, c) = Kept(key, seen, value, c)
  BY KeepByteIs
<1> HIDE DEF s
<1> QED
  BY <1>1, <1>2, <1>3 DEF ReadByte, ReadValue, s

LEMMA ReadsAtAnEscape ==
  ASSUME NEW key, NEW seen, NEW value, NEW c
  PROVE  ReadByte(Standing("ESCAPED", key, seen, value), c) = Kept(key, seen, value, c)
<1> DEFINE s == Standing("ESCAPED", key, seen, value)
<1>1. s.at = "ESCAPED"
  BY StandingIs
<1>2. KeepByte(s, c) = Kept(key, seen, value, c)
  BY KeepByteIs
<1> HIDE DEF s
<1> QED
  BY <1>1, <1>2 DEF ReadByte, s

LEMMA ReadsNoMore ==
  ASSUME NEW at \in {"END", "BAD"}, NEW key, NEW seen, NEW value, NEW c
  PROVE  ReadByte(Standing(at, key, seen, value), c) = Standing("BAD", key, seen, value)
<1> DEFINE s == Standing(at, key, seen, value)
<1>1. s.at = at
  BY StandingIs
<1>2. [s EXCEPT !.at = "BAD"] = Standing("BAD", key, seen, value)
  BY StandingIs
<1> HIDE DEF s
<1> QED
  BY <1>1, <1>2 DEF ReadByte, s

LEMMA KeptIsAScan ==
  ASSUME NEW key \in WifiKeys, NEW seen \in SUBSET WifiKeys, NEW value \in Values, NEW c \in Character
  PROVE  Kept(key, seen, value, c) \in CodeScan
<1>1. Append(value[key], c) \in Seq(Character)
  BY DEF Values
<1>2. [value EXCEPT ![key] = Append(value[key], c)] \in Values
  BY <1>1 DEF Values
<1> QED
  BY <1>2 DEF Kept, Standing, CodeScan

LEMMA ReadByteKeeps == \A scan \in CodeScan, c \in Character : ReadByte(scan, c) \in CodeScan
<1> TAKE scan \in CodeScan, c \in Character
<1> DEFINE key == scan.key
           seen == scan.seen
           value == scan.value
           at == scan.at
<1>1. scan = Standing(at, key, seen, value)
  BY DEF CodeScan, Standing
<1>2. /\ at \in {"KEY", "COLON", "VALUE", "ESCAPED", "END", "BAD"}
      /\ key \in {0} \cup WifiKeys /\ seen \in SUBSET WifiKeys /\ value \in Values
      /\ (at \in {"COLON", "VALUE", "ESCAPED"} => key \in WifiKeys)
  BY DEF CodeScan
<1>3. ASSUME NEW to \in {"KEY", "END", "BAD"} PROVE Standing(to, key, seen, value) \in CodeScan
  BY <1>2, <1>3 DEF Standing, CodeScan
<1>4. ASSUME NEW k \in WifiKeys, NEW to \in {"COLON", "ESCAPED"}
      PROVE  Standing(to, k, seen, value) \in CodeScan
  BY <1>2, <1>4 DEF Standing, CodeScan
<1>5. key \in WifiKeys =>
        Standing("VALUE", key, seen \cup {key}, [value EXCEPT ![key] = <<>>]) \in CodeScan
  <2> SUFFICES ASSUME key \in WifiKeys
               PROVE  Standing("VALUE", key, seen \cup {key}, [value EXCEPT ![key] = <<>>]) \in CodeScan
    OBVIOUS
  <2>1. [value EXCEPT ![key] = <<>>] \in Values
    BY <1>2 DEF Values
  <2>2. seen \cup {key} \in SUBSET WifiKeys
    BY <1>2
  <2> HIDE DEF key, seen, value
  <2> QED
    BY <2>1, <2>2 DEF Standing, CodeScan
<1>6. key \in WifiKeys => Kept(key, seen, value, c) \in CodeScan
  BY <1>2, KeptIsAScan
<1> HIDE DEF key, seen, value, at
<1>7. CASE at = "KEY"
  <2>1. ReadByte(scan, c) = IF c = Semicolon THEN Standing("END", key, seen, value)
                            ELSE IF c \in WifiKeys THEN Standing("COLON", c, seen, value)
                            ELSE Standing("BAD", key, seen, value)
    BY <1>1, <1>7, ReadsAtAKey
  <2> QED
    BY <1>3, <1>4, <2>1
<1>8. CASE at = "COLON"
  <2>1. ReadByte(scan, c) = IF c # Colon THEN Standing("BAD", key, seen, value)
          ELSE Standing("VALUE", key, seen \cup {key}, [value EXCEPT ![key] = <<>>])
    BY <1>1, <1>8, ReadsAtAColon
  <2>2. key \in WifiKeys
    BY <1>2, <1>8
  <2> QED
    BY <1>3, <1>5, <2>1, <2>2
<1>9. CASE at = "VALUE"
  <2>1. ReadByte(scan, c) = CASE c = Semicolon -> Standing("KEY", key, seen, value)
                              [] c = Backslash -> Standing("ESCAPED", key, seen, value)
                              [] OTHER         -> Kept(key, seen, value, c)
    BY <1>1, <1>9, ReadsAtAValue
  <2>2. key \in WifiKeys
    BY <1>2, <1>9
  <2> QED
    BY <1>3, <1>4, <1>6, <2>1, <2>2
<1>10. CASE at = "ESCAPED"
  <2>1. ReadByte(scan, c) = Kept(key, seen, value, c)
    BY <1>1, <1>10, ReadsAtAnEscape
  <2>2. key \in WifiKeys
    BY <1>2, <1>10
  <2> QED
    BY <1>6, <2>1, <2>2
<1>11. CASE at = "END" \/ at = "BAD"
  <2>1. ReadByte(scan, c) = Standing("BAD", key, seen, value)
    BY <1>1, <1>11, ReadsNoMore
  <2> QED
    BY <1>3, <2>1
<1> QED
  BY <1>2, <1>7, <1>8, <1>9, <1>10, <1>11

(* The pass over a code.                                                   *)
ReadFrom(start, raw) == ScanOf(ReadByte, start, raw)

LEMMA ReadFromIsAScan ==
  ASSUME NEW start \in CodeScan, NEW raw \in Seq(Character)
  PROVE  ReadFrom(start, raw) = Scan([x \in CodeScan \X Character |-> ReadByte(x[1], x[2])], start, raw)
<1> DEFINE take == [x \in CodeScan \X Character |-> ReadByte(x[1], x[2])]
           f == Run(take, start, raw)
           eq(after) == [i \in 0 .. Len(raw) |-> IF i = 0 THEN start ELSE ReadByte(after[i - 1], raw[i])]
           h == CHOOSE after : after = eq(after)
<1>1. Len(raw) \in Nat /\ \A n \in 1 .. Len(raw) : raw[n] \in Character
  BY LenProperties, ElementOfSeq
<1>2. take \in [CodeScan \X Character -> CodeScan]
  BY ReadByteKeeps
<1>3. \A s \in CodeScan, c \in Character : take[<<s, c>>] = ReadByte(s, c)
  OBVIOUS
<1>4. Scan(take, start, raw) = f[Len(raw)]
  BY ScanIsRun
<1>5. ReadFrom(start, raw) = h[Len(raw)]
  BY DEF ReadFrom, ScanOf
<1>6. IsARun(CodeScan, take, start, raw, f)
  <2> HIDE DEF take
  <2> QED
    BY <1>2, RunIs
<1> HIDE DEF take, f
<1>7. f \in [0 .. Len(raw) -> CodeScan] /\ f[0] = start
  BY <1>6 DEF IsARun
<1>8. \A n \in 1 .. Len(raw) : f[n] = ReadByte(f[n - 1], raw[n])
  <2> TAKE n \in 1 .. Len(raw)
  <2>1. n - 1 \in 0 .. Len(raw)
    BY <1>1
  <2>2. f[n - 1] \in CodeScan /\ raw[n] \in Character
    BY <1>1, <1>7, <2>1
  <2>3. f[n] = take[<<f[n - 1], raw[n]>>]
    BY <1>6 DEF IsARun
  <2> QED
    BY <1>3, <2>2, <2>3
<1>9. f = eq(f)
  <2>1. \A i \in 0 .. Len(raw) : f[i] = IF i = 0 THEN start ELSE ReadByte(f[i - 1], raw[i])
    BY <1>1, <1>7, <1>8
  <2>2. f = [i \in 0 .. Len(raw) |-> f[i]]
    BY <1>7
  <2> QED
    BY <2>1, <2>2
<1>10. h = eq(h)
  <2> HIDE DEF eq
  <2> QED
    BY <1>9
<1> HIDE DEF h
<1>11. h[0] = start /\ \A n \in 1 .. Len(raw) : h[n] = ReadByte(h[n - 1], raw[n])
  BY <1>1, <1>10
<1>12. f[Len(raw)] = h[Len(raw)]
  <2> HIDE DEF eq
  <2>1. \A n \in 1 .. Len(raw) : f[n - 1] = h[n - 1] => f[n] = h[n]
    BY <1>8, <1>11
  <2>2. f[0] = h[0]
    BY <1>7, <1>11
  <2> QED
    BY <1>1, <2>1, <2>2, RecursionIsUnique
<1> QED
  BY <1>4, <1>5, <1>12 DEF take

LEMMA ReadFromSteps ==
  ASSUME NEW start \in CodeScan
  PROVE  /\ ReadFrom(start, <<>>) = start
         /\ \A s \in Seq(Character) : ReadFrom(start, s) \in CodeScan
         /\ \A s \in Seq(Character) : \A c \in Character :
              ReadFrom(start, Append(s, c)) = ReadByte(ReadFrom(start, s), c)
         /\ \A s \in Seq(Character) : \A t \in Seq(Character) :
              ReadFrom(start, s \o t) = ReadFrom(ReadFrom(start, s), t)
<1> DEFINE take == [x \in CodeScan \X Character |-> ReadByte(x[1], x[2])]
<1>1. take \in Takes(CodeScan, Character)
  BY ReadByteKeeps DEF Takes
<1>2. \A s \in CodeScan, c \in Character : take[<<s, c>>] = ReadByte(s, c)
  OBVIOUS
<1>3. \A begin \in CodeScan : \A s \in Seq(Character) : ReadFrom(begin, s) = Scan(take, begin, s)
  BY ReadFromIsAScan
<1> HIDE DEF take
<1>4. Stepwise(CodeScan, Character, take, start)
  BY <1>1, ScanIsStepwise
<1>5. \A s \in Seq(Character) : ReadFrom(start, s) \in CodeScan
  BY <1>3, <1>4 DEF Stepwise
<1>6. ReadFrom(start, <<>>) = start
  <2>1. <<>> \in Seq(Character)
    OBVIOUS
  <2> QED
    BY <1>3, <1>4, <2>1 DEF Stepwise
<1>7. ASSUME NEW s \in Seq(Character), NEW c \in Character
      PROVE  ReadFrom(start, Append(s, c)) = ReadByte(ReadFrom(start, s), c)
  <2>1. Append(s, c) \in Seq(Character)
    BY AppendProperties
  <2>2. Scan(take, start, Append(s, c)) = take[<<Scan(take, start, s), c>>]
    BY <1>4 DEF Stepwise
  <2> QED
    BY <1>2, <1>3, <1>5, <2>1, <2>2
<1>8. ASSUME NEW s \in Seq(Character), NEW t \in Seq(Character)
      PROVE  ReadFrom(start, s \o t) = ReadFrom(ReadFrom(start, s), t)
  <2>1. s \o t \in Seq(Character)
    BY ConcatProperties
  <2>2. Scan(take, start, s \o t) = Scan(take, Scan(take, start, s), t)
    BY <1>1, ScanOfAJoin
  <2> QED
    BY <1>3, <1>5, <2>1, <2>2
<1> QED
  BY <1>5, <1>6, <1>7, <1>8

(* The room for each value.                                                *)
LEMMA RoomIs ==
  /\ Room[KeyT] = MaxSecurityTypeLength /\ Room[KeyS] = MaxSsidLength
  /\ Room[KeyP] = MaxNetworkKeyLength /\ \A key \in WifiKeys : Room[key] \in Nat
<1>1. /\ MaxSecurityTypeLength \in Nat /\ MaxSsidLength \in Nat /\ MaxNetworkKeyLength \in Nat
  <2>1. {MaxSecurityTypeLength, MaxSsidLength, MaxNetworkKeyLength} \subseteq Nat \ {0}
    BY NdefAssumption
  <2>2. MaxSecurityTypeLength \in Nat
    BY <2>1
  <2>3. MaxSsidLength \in Nat
    BY <2>1
  <2>4. MaxNetworkKeyLength \in Nat
    BY <2>1
  <2> QED
    BY <2>2, <2>3, <2>4
<1>2. /\ Room[KeyT] = MaxSecurityTypeLength /\ Room[KeyS] = MaxSsidLength
      /\ Room[KeyP] = MaxNetworkKeyLength
  BY DEF Room, WifiKeys, KeyT, KeyS, KeyP
<1>3. \A key \in WifiKeys : key = KeyT \/ key = KeyS \/ key = KeyP
  BY DEF WifiKeys
<1> QED
  BY <1>1, <1>2, <1>3

-----------------------------------------------------------------------------
(* A code read as a whole.                                                 *)
LEMMA GreatestIsReached ==
  ASSUME NEW S \in SUBSET Nat, S # {}, NEW bound \in Nat, \A x \in S : x <= bound
  PROVE  \E x \in S : \A y \in S : x >= y
<1> DEFINE T == {bound - y : y \in S}
<1>1. T \in SUBSET Nat /\ T # {}
  <2>1. \A y \in S : bound - y \in Nat
    OBVIOUS
  <2>2. T \in SUBSET Nat
    BY <2>1
  <2>3. PICK y \in S : TRUE
    OBVIOUS
  <2>4. bound - y \in T
    BY <2>3
  <2> QED
    BY <2>2, <2>4
<1> HIDE DEF T
<1>2. Min(T) \in T /\ \A y \in T : Min(T) <= y
  BY <1>1, LeastIsReached
<1>3. PICK x \in S : Min(T) = bound - x
  BY <1>2 DEF T
<1>4. \A y \in S : bound - x <= bound - y
  BY <1>2, <1>3 DEF T
<1> QED
  BY <1>4

(* What is escaped alternates along a run of backslashes.                  *)
LEMMA EscapesAlternate ==
  ASSUME NEW code \in Seq(Character), NEW i \in 1 .. Len(code)
  PROVE  EscapedIn(code, i + 1) <=> code[i] = Backslash /\ ~EscapedIn(code, i)
<1> DEFINE S(n) == {0} \cup {j \in 1 .. n - 1 : code[j] # Backslash}
           last == Max(S(i))
           run == RunBefore(code, i)
<1>1. i \in Nat /\ i >= 1 /\ S(i) \in SUBSET Int /\ S(i + 1) \in SUBSET Int
  BY LenProperties
<1>2. last \in S(i) /\ \A n \in S(i) : last >= n
  <2> DEFINE set == S(i)
  <2>2. set \in SUBSET Nat /\ set # {} /\ \A n \in set : n <= i
    BY <1>1
  <2> HIDE DEF set
  <2>3. \E x \in set : \A y \in set : x >= y
    BY <1>1, <2>2, GreatestIsReached
  <2> QED
    BY <2>3, Zenon DEF Max, set
<1>3. run = i - 1 - last /\ last \in 0 .. i - 1
  BY <1>1, <1>2 DEF RunBefore
<1>4. CASE code[i] # Backslash
  <2>1. i \in S(i + 1) /\ \A n \in S(i + 1) : i >= n
    BY <1>1, <1>4
  <2>2. Max(S(i + 1)) = i
    <3> DEFINE set == S(i + 1)
    <3>1. set \in SUBSET Int /\ i \in set /\ \A n \in set : i >= n
      BY <1>1, <2>1
    <3> HIDE DEF set
    <3>2. Max(set) = i
      BY <3>1, GreatestIs
    <3> QED
      BY <3>2 DEF set
  <2>3. RunBefore(code, i + 1) = (i + 1) - 1 - Max(S(i + 1))
    BY DEF RunBefore
  <2>4. RunBefore(code, i + 1) = 0
    <3> HIDE DEF S
    <3> QED
      BY <1>1, <2>2, <2>3
  <2> QED
    BY <1>4, <2>4 DEF EscapedIn
<1>5. CASE code[i] = Backslash
  <2>1. S(i + 1) = S(i)
    BY <1>1, <1>5
  <2>2. RunBefore(code, i + 1) = (i + 1) - 1 - Max(S(i + 1))
    BY DEF RunBefore
  <2> HIDE DEF S, run, last
  <2>3. RunBefore(code, i + 1) = run + 1 /\ run \in Nat
    BY <1>1, <1>3, <2>1, <2>2 DEF last
  <2>4. ((run + 1) % 2 = 1) <=> ~(run % 2 = 1)
    BY <2>3
  <2> QED
    BY <1>5, <2>3, <2>4 DEF EscapedIn, run
<1> QED
  BY <1>4, <1>5

(* The value of a stretch of the code, byte after byte.                    *)
KeptAt(code, value, i) ==
  IF code[i] = Backslash /\ ~EscapedIn(code, i) THEN value ELSE Append(value, code[i])

Keeps(code) == [x \in Seq(Character) \X (1 .. Len(code)) |-> KeptAt(code, x[1], x[2])]

Positions(first, last) == [k \in 1 .. last - first + 1 |-> first + k - 1]

(* A stretch of the code, which may be empty.                              *)
IsAStretch(code, first, last) ==
  first \in Nat /\ last \in Nat /\ first >= 1 /\ last <= Len(code) /\ first <= last + 1

LEMMA KeepsTakes == ASSUME NEW code \in Seq(Character) PROVE Keeps(code) \in Takes(Seq(Character), 1 .. Len(code))
<1> DEFINE S == Seq(Character)
<1>1. ASSUME NEW value \in S, NEW i \in 1 .. Len(code) PROVE KeptAt(code, value, i) \in S
  <2>1. code[i] \in Character
    BY ElementOfSeq
  <2>2. Append(value, code[i]) \in S
    BY <2>1, AppendProperties
  <2> QED
    BY <2>2 DEF KeptAt
<1> HIDE DEF S
<1>2. [x \in S \X (1 .. Len(code)) |-> KeptAt(code, x[1], x[2])] \in [S \X (1 .. Len(code)) -> S]
  BY <1>1
<1> QED
  BY <1>2 DEF Keeps, Takes, S

LEMMA ValueIsAScan ==
  ASSUME NEW code \in Seq(Character), NEW first, NEW last, IsAStretch(code, first, last)
  PROVE  /\ Positions(first, last) \in Seq(1 .. Len(code))
         /\ UnescapedValue(code, first, last) = Scan(Keeps(code), <<>>, Positions(first, last))
<1> DEFINE S == Seq(Character)
           C == 1 .. Len(code)
           none == <<>>
           take == Keeps(code)
           raw == Positions(first, last)
           f == Run(take, none, raw)
           eq(after) == [i \in 0 .. Len(raw) |-> IF i = 0 THEN none ELSE KeptAt(code, after[i - 1], raw[i])]
           h == CHOOSE after : after = eq(after)
<1>1. /\ raw \in Seq(C) /\ Len(raw) \in Nat /\ \A n \in 1 .. Len(raw) : raw[n] \in C
  <2>1. last - first + 1 \in Nat /\ Len(code) \in Nat
    BY LenProperties DEF IsAStretch
  <2>2. \A k \in 1 .. last - first + 1 : first + k - 1 \in C
    BY <2>1 DEF IsAStretch
  <2>3. raw \in [1 .. last - first + 1 -> C]
    BY <2>2 DEF Positions
  <2>4. raw \in Seq(C)
    <3> HIDE DEF C, raw
    <3> QED
      BY <2>1, <2>3
  <2> HIDE DEF C, raw
  <2> QED
    BY <2>4, LenProperties, ElementOfSeq
<1>2. take \in [S \X C -> S]
  BY KeepsTakes DEF Takes
<1>3. \A s \in S, c \in C : take[<<s, c>>] = KeptAt(code, s, c)
  BY DEF Keeps
<1>4. Scan(take, none, raw) = f[Len(raw)]
  BY ScanIsRun
<1>5. UnescapedValue(code, first, last) = h[Len(raw)]
  BY DEF UnescapedValue, ScanOf, KeptAt, Positions
<1>6. none \in S
  OBVIOUS
<1> HIDE DEF S, C, none, raw, take
<1>7. IsARun(S, take, none, raw, f)
  BY <1>1, <1>2, <1>6, RunIs
<1> HIDE DEF f
<1>8. f \in [0 .. Len(raw) -> S] /\ f[0] = none
  BY <1>7 DEF IsARun
<1>9. \A n \in 1 .. Len(raw) : f[n] = KeptAt(code, f[n - 1], raw[n])
  <2> TAKE n \in 1 .. Len(raw)
  <2>1. n - 1 \in 0 .. Len(raw)
    BY <1>1
  <2>2. f[n - 1] \in S /\ raw[n] \in C
    BY <1>1, <1>8, <2>1
  <2>3. f[n] = take[<<f[n - 1], raw[n]>>]
    BY <1>7 DEF IsARun
  <2> QED
    BY <1>3, <2>2, <2>3
<1>10. f = eq(f)
  <2>1. \A i \in 0 .. Len(raw) : f[i] = IF i = 0 THEN none ELSE KeptAt(code, f[i - 1], raw[i])
    BY <1>1, <1>8, <1>9
  <2>2. f = [i \in 0 .. Len(raw) |-> f[i]]
    BY <1>8
  <2> QED
    BY <2>1, <2>2
<1>11. h = eq(h)
  <2> HIDE DEF eq
  <2> QED
    BY <1>10
<1> HIDE DEF h
<1>12. h[0] = none /\ \A n \in 1 .. Len(raw) : h[n] = KeptAt(code, h[n - 1], raw[n])
  BY <1>1, <1>11
<1>13. f[Len(raw)] = h[Len(raw)]
  <2> HIDE DEF eq
  <2>1. \A n \in 1 .. Len(raw) : f[n - 1] = h[n - 1] => f[n] = h[n]
    BY <1>9, <1>12
  <2>2. f[0] = h[0]
    BY <1>8, <1>12
  <2> QED
    BY <1>1, <2>1, <2>2, RecursionIsUnique
<1> QED
  BY <1>1, <1>4, <1>5, <1>13 DEF C, none, raw, take

LEMMA ValueSteps ==
  ASSUME NEW code \in Seq(Character), NEW first, NEW last, IsAStretch(code, first, last)
  PROVE  /\ UnescapedValue(code, first, last) \in Seq(Character)
         /\ first = last + 1 => UnescapedValue(code, first, last) = <<>>
         /\ last < Len(code) =>
              UnescapedValue(code, first, last + 1) = KeptAt(code, UnescapedValue(code, first, last), last + 1)
<1> DEFINE S == Seq(Character)
           C == 1 .. Len(code)
           none == <<>>
           take == Keeps(code)
           raw == Positions(first, last)
           value == UnescapedValue(code, first, last)
<1>1. take \in Takes(S, C) /\ none \in S
  BY KeepsTakes
<1>2. raw \in Seq(C) /\ value = Scan(take, none, raw)
  BY ValueIsAScan
<1>3. \A s \in S, c \in C : take[<<s, c>>] = KeptAt(code, s, c)
  BY DEF Keeps
<1>4. first \in Nat /\ last \in Nat /\ Len(code) \in Nat /\ first >= 1 /\ last <= Len(code) /\ first <= last + 1
  BY LenProperties DEF IsAStretch
<1> HIDE DEF S, C, none, take, raw, value
<1>5. Stepwise(S, C, take, none)
  BY <1>1, ScanIsStepwise
<1>6. value \in S
  BY <1>2, <1>5 DEF Stepwise
<1>7. first = last + 1 => value = none
  <2> SUFFICES ASSUME first = last + 1 PROVE value = none
    OBVIOUS
  <2>1. last - first + 1 = 0
    BY <1>4
  <2>2. raw = none
    BY <2>1 DEF raw, Positions, none
  <2> QED
    BY <1>2, <1>5, <2>2 DEF Stepwise, none
<1>8. ASSUME last < Len(code)
      PROVE  UnescapedValue(code, first, last + 1) = KeptAt(code, value, last + 1)
  <2> DEFINE more == Positions(first, last + 1)
  <2>1. IsAStretch(code, first, last + 1) /\ last + 1 \in C
    BY <1>4, <1>8 DEF IsAStretch, C
  <2>2. UnescapedValue(code, first, last + 1) = Scan(take, none, more)
    BY <2>1, ValueIsAScan DEF take, none
  <2>3. more = Append(raw, last + 1)
    <3> DEFINE n == last - first + 1
    <3>1. n \in Nat /\ (last + 1) - first + 1 = n + 1 /\ first + (n + 1) - 1 = last + 1
      BY <1>4
    <3>2. raw = [k \in 1 .. n |-> first + k - 1] /\ more = [k \in 1 .. n + 1 |-> first + k - 1]
      BY <3>1 DEF raw, Positions
    <3> HIDE DEF n, more
    <3>3. more \in Seq(Int) /\ raw \in Seq(Int) /\ Len(raw) = n /\ Len(more) = n + 1
      BY <1>4, <3>1, <3>2
    <3>4. /\ Append(raw, last + 1) \in Seq(Int) /\ Len(Append(raw, last + 1)) = n + 1
          /\ \A k \in 1 .. n : Append(raw, last + 1)[k] = raw[k]
          /\ Append(raw, last + 1)[n + 1] = last + 1
      BY <1>4, <3>3, AppendProperties
    <3>5. \A k \in 1 .. n + 1 : more[k] = Append(raw, last + 1)[k]
      BY <3>1, <3>2, <3>4
    <3> QED
      BY <3>3, <3>4, <3>5, SeqEqual
  <2> HIDE DEF more
  <2>4. Scan(take, none, more) = take[<<Scan(take, none, raw), last + 1>>]
    BY <1>2, <1>5, <2>1, <2>3 DEF Stepwise
  <2> QED
    BY <1>2, <1>3, <1>6, <2>1, <2>2, <2>4
<1> QED
  BY <1>6, <1>7, <1>8 DEF S, none, value

(***************************************************************************)
(* The pass over a code and its fields.  At n, the last byte read, a field *)
(* has begun at every cut whose colon was read, and was read up to m: the  *)
(* next cut, or n.                                                         *)
(***************************************************************************)
IsWifi(code) == code \in Seq(Character) /\ IsPrefix(WifiStart, code)

ReadAt(code, n) == ReadFrom(StartOfCode, SubSeq(code, Len(WifiStart) + 1, n))

Sound(code) ==
  /\ {Len(code) - 1, Len(code)} \subseteq CodeCuts(code)
  /\ \A cut \in CodeFields(code) : FieldIsSound(code, cut)

Begun(code, n) == {cut \in CodeCuts(code) : cut + 2 <= n}

Uncut(code, cut, m) == \A i \in cut + 1 .. m : i \notin CodeCuts(code)

ReadTo(code, cut, n, m) ==
  m \in cut + 2 .. n /\ Uncut(code, cut, m) /\ (m = n \/ m + 1 \in CodeCuts(code))

IsLast(code, cut, n) ==
  \A other \in Begun(code, n) : code[other + 1] = code[cut + 1] => other <= cut

ValueIs(code, value, cut, n, m) ==
  LET key  == code[cut + 1]
      read == UnescapedValue(code, cut + 3, m)
  IN  /\ key \in WifiKeys /\ code[cut + 2] = Colon /\ Len(read) <= Room[key]
      /\ IsLast(code, cut, n) => value[key] = read

FieldIsRead(code, value, cut, n) ==
  \E m \in Nat : ReadTo(code, cut, n, m) /\ ValueIs(code, value, cut, n, m)

KeysRead(code, n) == {code[cut + 1] : cut \in Begun(code, n)}

FieldsAreRead(code, seen, value, n) ==
  /\ seen = KeysRead(code, n)
  /\ \A cut \in Begun(code, n) : FieldIsRead(code, value, cut, n)

(* The field whose value is being read, and what escapes the next byte.    *)
InValue(code, key, n) ==
  \E cut \in Begun(code, n) : Uncut(code, cut, n) /\ key = code[cut + 1]

StandsAt(code, at, key, n) ==
  \/ at = "KEY" /\ n \in CodeCuts(code) /\ n - 1 \notin CodeCuts(code)
  \/ at = "COLON" /\ n - 1 \in CodeCuts(code) /\ n \notin CodeCuts(code)
                  /\ key = code[n] /\ key \in WifiKeys
  \/ at = "VALUE" /\ InValue(code, key, n) /\ ~EscapedIn(code, n + 1)
  \/ at = "ESCAPED" /\ InValue(code, key, n) /\ EscapedIn(code, n + 1)
  \/ at = "END" /\ n \in CodeCuts(code) /\ n - 1 \in CodeCuts(code)

(* What is true of the pass at n.                                          *)
PassIs(code, s, n) ==
  \/ s.at = "BAD" /\ ~Sound(code)
  \/ StandsAt(code, s.at, s.key, n) /\ FieldsAreRead(code, s.seen, s.value, n)

LEMMA CutsAre ==
  ASSUME NEW code, IsWifi(code)
  PROVE  /\ Len(code) \in Nat /\ Len(code) >= 5 /\ Len(WifiStart) = 5
         /\ code[5] = Colon /\ 5 \in CodeCuts(code)
         /\ CodeCuts(code) \subseteq 5 .. Len(code)
         /\ \A i \in 6 .. Len(code) : i \in CodeCuts(code) <=> code[i] = Semicolon /\ ~EscapedIn(code, i)
<1>1. Len(WifiStart) = 5 /\ WifiStart[5] = Colon
  BY DEF WifiStart
<1>2. Len(code) \in Nat
  BY LenProperties DEF IsWifi
<1>3. Len(WifiStart) <= Len(code) /\ SubSeq(WifiStart, 1, 5) = SubSeq(code, 1, 5)
  BY <1>1 DEF IsWifi, IsPrefix
<1>4. code[5] = WifiStart[5]
  <2> DEFINE start == WifiStart
  <2>1. start \in Seq(Int)
    BY DEF WifiStart, Colon
  <2> HIDE DEF start
  <2>2. SubSeq(start, 1, 5)[5] = start[5]
    BY <1>1, <2>1 DEF start
  <2>3. code \in Seq(Character) /\ 5 \in 1 .. Len(code)
    BY <1>1, <1>2, <1>3 DEF IsWifi
  <2>4. SubSeq(code, 1, 5)[5] = code[5]
    BY <2>3
  <2> QED
    BY <1>3, <2>2, <2>4 DEF start
<1>5. CodeCuts(code) = {5} \cup {i \in 6 .. Len(code) : code[i] = Semicolon /\ ~EscapedIn(code, i)}
  BY <1>1 DEF CodeCuts
<1> QED
  BY <1>1, <1>2, <1>3, <1>4, <1>5

LEMMA NextCutIs ==
  ASSUME NEW code, IsWifi(code), NEW cut \in CodeCuts(code), NEW m \in CodeCuts(code), m > cut,
         \A i \in cut + 1 .. m - 1 : i \notin CodeCuts(code)
  PROVE  NextCut(code, cut) = m
<1> DEFINE S == {i \in CodeCuts(code) : i > cut}
<1>1. CodeCuts(code) \subseteq 5 .. Len(code) /\ Len(code) \in Nat
  BY CutsAre
<1>2. S \in SUBSET Int /\ m \in S /\ \A i \in S : m <= i
  BY <1>1
<1>3. NextCut(code, cut) = Min(S)
  BY DEF NextCut
<1> HIDE DEF S
<1> QED
  BY <1>2, <1>3, LeastIs

(* There is a next cut when there is one after, and no nearer.             *)
LEMMA NextCutIsBeyond ==
  ASSUME NEW code, IsWifi(code), NEW cut \in CodeCuts(code), NEW n \in CodeCuts(code), n > cut
  PROVE  /\ NextCut(code, cut) \in CodeCuts(code) /\ NextCut(code, cut) > cut /\ NextCut(code, cut) <= n
         /\ Uncut(code, cut, NextCut(code, cut) - 1)
<1> DEFINE S == {i \in CodeCuts(code) : i > cut}
<1>1. CodeCuts(code) \subseteq 5 .. Len(code) /\ Len(code) \in Nat
  BY CutsAre
<1>2. S \in SUBSET Nat /\ n \in S
  BY <1>1
<1>3. NextCut(code, cut) = Min(S)
  BY DEF NextCut
<1>4. Min(S) \in S /\ \A i \in S : Min(S) <= i
  <2> HIDE DEF S
  <2> QED
    BY <1>2, LeastIsReached
<1>5. /\ NextCut(code, cut) \in CodeCuts(code) /\ NextCut(code, cut) > cut /\ NextCut(code, cut) <= n
      /\ \A i \in CodeCuts(code) : i > cut => NextCut(code, cut) <= i
  BY <1>2, <1>3, <1>4
<1> HIDE DEF S
<1> DEFINE next == NextCut(code, cut)
<1>6. next \in Int /\ cut \in Int
  BY <1>1, <1>5
<1> HIDE DEF next
<1>7. \A i \in cut + 1 .. next - 1 : i \notin CodeCuts(code)
  BY <1>5, <1>6 DEF next
<1> QED
  BY <1>5, <1>7 DEF Uncut, next

(* A longer stretch has no shorter value.                                  *)
LEMMA ValueGrows ==
  ASSUME NEW code \in Seq(Character), NEW first, NEW last, IsAStretch(code, first, last),
         NEW more \in last .. Len(code)
  PROVE  Len(UnescapedValue(code, first, last)) <= Len(UnescapedValue(code, first, more))
<1> DEFINE V(k) == UnescapedValue(code, first, last + k)
           S == {k \in Nat : last + k <= Len(code) => Len(V(0)) <= Len(V(k))}
<1>1. last \in Nat /\ first \in Nat /\ first >= 1 /\ first <= last + 1 /\ Len(code) \in Nat
  BY LenProperties DEF IsAStretch
<1>2. ASSUME NEW k \in Nat, last + k <= Len(code) PROVE Len(V(k)) \in Nat
  <2>1. IsAStretch(code, first, last + k)
    BY <1>1, <1>2 DEF IsAStretch
  <2>2. V(k) \in Seq(Character)
    BY <2>1, ValueSteps
  <2> QED
    BY <2>2, LenProperties
<1>3. ASSUME NEW k \in Nat, last + k + 1 <= Len(code) PROVE Len(V(k)) <= Len(V(k + 1))
  <2>1. IsAStretch(code, first, last + k) /\ last + k < Len(code) /\ last + (k + 1) = (last + k) + 1
    BY <1>1, <1>3 DEF IsAStretch
  <2>2. V(k) \in Seq(Character) /\ V(k + 1) = KeptAt(code, V(k), last + k + 1)
    BY <2>1, ValueSteps
  <2>3. code[last + k + 1] \in Character
    BY <1>1, <1>3, ElementOfSeq
  <2> DEFINE v == V(k)
             w == V(k + 1)
  <2> HIDE DEF V, v, w
  <2>4. Len(Append(v, code[last + k + 1])) = Len(v) + 1 /\ Len(v) \in Nat
    BY <2>2, <2>3, AppendProperties, LenProperties DEF v
  <2>5. w = v \/ w = Append(v, code[last + k + 1])
    BY <2>2 DEF KeptAt, v, w
  <2>6. Len(v) <= Len(w)
    BY <2>4, <2>5
  <2> QED
    BY <2>6 DEF v, w
<1> HIDE DEF V
<1>4. 0 \in S
  <2>1. 0 \in Nat /\ last + 0 <= Len(code)
    BY <1>1 DEF IsAStretch
  <2> QED
    BY <1>2, <2>1
<1>5. ASSUME NEW k \in S PROVE k + 1 \in S
  <2>1. k \in Nat /\ k + 1 \in Nat
    OBVIOUS
  <2>2. last + (k + 1) <= Len(code) => last + k <= Len(code) /\ last + k + 1 <= Len(code)
    BY <1>1, <2>1
  <2>3. last + (k + 1) <= Len(code) => Len(V(0)) <= Len(V(k)) /\ Len(V(k)) <= Len(V(k + 1))
    BY <1>3, <2>1, <2>2
  <2>4. last + (k + 1) <= Len(code) => Len(V(0)) \in Nat /\ Len(V(k)) \in Nat /\ Len(V(k + 1)) \in Nat
    <3>1. 0 \in Nat /\ (last + (k + 1) <= Len(code) => last + 0 <= Len(code))
      BY <1>1, <2>1
    <3> QED
      BY <1>2, <2>1, <2>2, <3>1
  <2> QED
    BY <2>1, <2>3, <2>4
<1>6. S = Nat
  <2>1. S \in SUBSET Nat
    OBVIOUS
  <2> HIDE DEF S
  <2> QED
    BY <1>4, <1>5, <2>1, EveryNaturalIsReached
<1>7. more - last \in Nat /\ last + (more - last) = more /\ last + 0 = last
  BY <1>1
<1>8. Len(V(0)) <= Len(V(more - last))
  BY <1>1, <1>6, <1>7
<1> QED
  BY <1>7, <1>8 DEF V

(* What begins at a byte has begun at the next.                            *)
LEMMA MoreHasBegun ==
  ASSUME NEW code, IsWifi(code), NEW n \in 5 .. Len(code) - 1
  PROVE  /\ Begun(code, n) \subseteq Begun(code, n + 1)
         /\ \A cut \in Begun(code, n + 1) : cut \in Begun(code, n) \/ cut = n - 1
         /\ \A cut \in Begun(code, n) : cut \in 5 .. n - 2 /\ cut \in CodeCuts(code)
<1>1. CodeCuts(code) \subseteq 5 .. Len(code) /\ Len(code) \in Nat
  BY CutsAre
<1> HIDE DEF CodeCuts
<1> QED
  BY <1>1 DEF Begun

(* A field stays read when there is a cut after it, or now.                *)
LEMMA FieldStaysRead ==
  ASSUME NEW code, IsWifi(code), NEW n \in 5 .. Len(code) - 1, NEW cut \in Begun(code, n),
         NEW value, NEW other, FieldIsRead(code, value, cut, n),
         n + 1 \in CodeCuts(code) \/ ~Uncut(code, cut, n),
         IsLast(code, cut, n + 1) => other[code[cut + 1]] = value[code[cut + 1]]
  PROVE  FieldIsRead(code, other, cut, n + 1)
<1>1. PICK m \in Nat : ReadTo(code, cut, n, m) /\ ValueIs(code, value, cut, n, m)
  BY DEF FieldIsRead
<1>2. cut \in Nat
  BY MoreHasBegun
<1>3. m + 1 \in CodeCuts(code)
  BY <1>1 DEF ReadTo
<1>4. ReadTo(code, cut, n + 1, m)
  BY <1>1, <1>2, <1>3 DEF ReadTo
<1>5. IsLast(code, cut, n + 1) => IsLast(code, cut, n)
  BY MoreHasBegun DEF IsLast
<1>6. ValueIs(code, other, cut, n + 1, m)
  BY <1>1, <1>5 DEF ValueIs
<1> QED
  BY <1>4, <1>6 DEF FieldIsRead

(* No field begins but behind a cut two bytes back.                        *)
LEMMA NothingBegins ==
  ASSUME NEW code, IsWifi(code), NEW n \in 5 .. Len(code) - 1, n - 1 \notin CodeCuts(code)
  PROVE  Begun(code, n + 1) = Begun(code, n) /\ KeysRead(code, n + 1) = KeysRead(code, n)
<1>1. \A cut \in Begun(code, n + 1) : cut # n - 1
  BY DEF Begun
<1>2. \A cut \in Begun(code, n + 1) : cut \in Begun(code, n) \/ cut = n - 1
  BY MoreHasBegun
<1>3. Begun(code, n) \subseteq Begun(code, n + 1)
  BY MoreHasBegun
<1>4. Begun(code, n + 1) = Begun(code, n)
  BY <1>1, <1>2, <1>3
<1> QED
  BY <1>4 DEF KeysRead

LEMMA AfterAKey ==
  ASSUME NEW code, IsWifi(code), NEW n \in 5 .. Len(code) - 1, NEW seen, NEW value,
         n \in CodeCuts(code), n - 1 \notin CodeCuts(code), FieldsAreRead(code, seen, value, n)
  PROVE  FieldsAreRead(code, seen, value, n + 1)
<1>1. Begun(code, n + 1) = Begun(code, n) /\ KeysRead(code, n + 1) = KeysRead(code, n)
  BY NothingBegins
<1>2. ASSUME NEW cut \in Begun(code, n) PROVE FieldIsRead(code, value, cut, n + 1)
  <2>1. n \in cut + 1 .. n
    BY MoreHasBegun
  <2>2. ~Uncut(code, cut, n)
    BY <2>1 DEF Uncut
  <2>3. FieldIsRead(code, value, cut, n)
    BY DEF FieldsAreRead
  <2> QED
    BY <2>2, <2>3, FieldStaysRead
<1> QED
  BY <1>1, <1>2 DEF FieldsAreRead

LEMMA AfterAColon ==
  ASSUME NEW code, IsWifi(code), NEW n \in 5 .. Len(code) - 1, NEW seen, NEW value \in Values, NEW key \in WifiKeys,
         n - 1 \in CodeCuts(code), n \notin CodeCuts(code), key = code[n], code[n + 1] = Colon,
         FieldsAreRead(code, seen, value, n)
  PROVE  /\ FieldsAreRead(code, seen \cup {key}, [value EXCEPT ![key] = <<>>], n + 1)
         /\ InValue(code, key, n + 1) /\ ~EscapedIn(code, n + 2)
<1> DEFINE a == n - 1
           other == [value EXCEPT ![key] = <<>>]
<1>1. n \in Nat /\ n >= 5 /\ n < Len(code) /\ Len(code) \in Nat
  BY CutsAre
<1>2. a \in Begun(code, n + 1) /\ a + 1 = n /\ a + 2 = n + 1 /\ a + 3 = n + 2
  BY <1>1 DEF Begun
<1>3. n + 1 \notin CodeCuts(code)
  <2>1. n + 1 \in 6 .. Len(code)
    BY <1>1
  <2>2. Colon # Semicolon
    BY DEF Colon, Semicolon
  <2> QED
    BY <2>1, <2>2, CutsAre
<1>4. Uncut(code, a, n + 1)
  <2>1. \A i \in a + 1 .. n + 1 : i = n \/ i = n + 1
    BY <1>1
  <2> QED
    BY <1>3, <2>1 DEF Uncut
<1>5. Begun(code, n + 1) = Begun(code, n) \cup {a}
  <2>1. \A cut \in Begun(code, n + 1) : cut \in Begun(code, n) \/ cut = a
    BY MoreHasBegun
  <2>2. Begun(code, n) \subseteq Begun(code, n + 1)
    BY MoreHasBegun
  <2> QED
    BY <1>2, <2>1, <2>2
<1>6. KeysRead(code, n + 1) = KeysRead(code, n) \cup {key}
  <2> HIDE DEF a
  <2> QED
    BY <1>2, <1>5 DEF KeysRead
<1>7. \A k \in WifiKeys : other[k] = IF k = key THEN <<>> ELSE value[k]
  BY DEF Values
<1> HIDE DEF other
<1>8. ASSUME NEW cut \in Begun(code, n) PROVE FieldIsRead(code, other, cut, n + 1)
  <2>1. cut \in 5 .. n - 2
    BY MoreHasBegun
  <2>2. a \in cut + 1 .. n /\ a > cut
    BY <1>1, <2>1
  <2>3. ~Uncut(code, cut, n)
    BY <2>2 DEF Uncut
  <2>4. FieldIsRead(code, value, cut, n)
    BY DEF FieldsAreRead
  <2>5. code[cut + 1] \in WifiKeys
    BY <2>4 DEF FieldIsRead, ValueIs
  <2>6. IsLast(code, cut, n + 1) => code[cut + 1] # key
    <3> SUFFICES ASSUME IsLast(code, cut, n + 1), code[cut + 1] = key PROVE FALSE
      OBVIOUS
    <3>1. code[a + 1] = code[cut + 1]
      BY <1>2
    <3>2. a <= cut
      BY <1>2, <3>1 DEF IsLast
    <3> QED
      BY <1>1, <2>1, <2>2, <3>2
  <2>7. IsLast(code, cut, n + 1) => other[code[cut + 1]] = value[code[cut + 1]]
    BY <1>7, <2>5, <2>6
  <2> QED
    BY <2>3, <2>4, <2>7, FieldStaysRead
<1>9. FieldIsRead(code, other, a, n + 1)
  <2> DEFINE read == UnescapedValue(code, a + 3, n + 1)
  <2>1. IsAStretch(code, a + 3, n + 1) /\ a + 3 = (n + 1) + 1 /\ code \in Seq(Character)
    BY <1>1 DEF IsAStretch, IsWifi
  <2>2. read = <<>>
    BY <2>1, ValueSteps
  <2>3. Len(read) <= Room[key]
    BY <2>2, RoomIs
  <2>4. ReadTo(code, a, n + 1, n + 1)
    BY <1>1, <1>4 DEF ReadTo
  <2>5. code[a + 1] = key /\ code[a + 2] = Colon /\ other[key] = read
    BY <1>2, <1>7, <2>2
  <2> HIDE DEF a
  <2>6. ValueIs(code, other, a, n + 1, n + 1)
    BY <2>3, <2>5 DEF ValueIs
  <2> QED
    BY <1>1, <2>4, <2>6 DEF FieldIsRead
<1>10. FieldsAreRead(code, seen \cup {key}, other, n + 1)
  BY <1>5, <1>6, <1>8, <1>9 DEF FieldsAreRead
<1>11. InValue(code, key, n + 1)
  <2> HIDE DEF a
  <2> QED
    BY <1>2, <1>4 DEF InValue
<1>12. ~EscapedIn(code, n + 2)
  <2> DEFINE i == n + 1
  <2>1. i \in 1 .. Len(code) /\ i + 1 = n + 2 /\ code \in Seq(Character)
    BY <1>1 DEF IsWifi
  <2>2. code[i] # Backslash
    BY DEF Colon, Backslash
  <2> HIDE DEF i
  <2>3. EscapedIn(code, i + 1) <=> code[i] = Backslash /\ ~EscapedIn(code, i)
    BY <2>1, EscapesAlternate
  <2> QED
    BY <2>1, <2>2, <2>3
<1> QED
  BY <1>10, <1>11, <1>12 DEF other

(* Of the fields that have begun the one being read is the last.           *)
LEMMA TheOneBeingRead ==
  ASSUME NEW code, IsWifi(code), NEW n \in 5 .. Len(code) - 1, NEW cut \in Begun(code, n), Uncut(code, cut, n)
  PROVE  \A other \in Begun(code, n) : other <= cut /\ (other # cut => ~Uncut(code, other, n))
<1> TAKE other \in Begun(code, n)
<1>1. /\ cut \in 5 .. n - 2 /\ cut \in CodeCuts(code)
      /\ other \in 5 .. n - 2 /\ other \in CodeCuts(code) /\ n \in Nat
  BY CutsAre, MoreHasBegun
<1>2. ~(other \in cut + 1 .. n)
  BY <1>1 DEF Uncut
<1>3. other <= cut
  BY <1>1, <1>2
<1>4. other # cut => cut \in other + 1 .. n
  BY <1>1, <1>3
<1> QED
  BY <1>1, <1>3, <1>4 DEF Uncut

(* And what is read of it is all that there is so far.                     *)
LEMMA ReadSoFarOfIt ==
  ASSUME NEW code, IsWifi(code), NEW n \in 5 .. Len(code) - 1, NEW cut \in Begun(code, n), Uncut(code, cut, n),
         NEW value, FieldIsRead(code, value, cut, n)
  PROVE  LET key  == code[cut + 1]
             read == UnescapedValue(code, cut + 3, n)
         IN  key \in WifiKeys /\ code[cut + 2] = Colon /\ Len(read) <= Room[key] /\ value[key] = read
<1>1. PICK m \in Nat : ReadTo(code, cut, n, m) /\ ValueIs(code, value, cut, n, m)
  BY DEF FieldIsRead
<1>2. cut \in 5 .. n - 2 /\ n \in Nat
  BY CutsAre, MoreHasBegun
<1>3. m \in cut + 2 .. n /\ (m = n \/ m + 1 \in CodeCuts(code))
  BY <1>1 DEF ReadTo
<1>4. m # n => m + 1 \in cut + 1 .. n
  BY <1>2, <1>3
<1>5. m = n
  BY <1>3, <1>4 DEF Uncut
<1>6. IsLast(code, cut, n)
  BY TheOneBeingRead DEF IsLast
<1> QED
  BY <1>1, <1>5, <1>6 DEF ValueIs

LEMMA AfterASemicolon ==
  ASSUME NEW code, IsWifi(code), NEW n \in 5 .. Len(code) - 1, NEW seen, NEW value, NEW key,
         InValue(code, key, n), n + 1 \in CodeCuts(code), FieldsAreRead(code, seen, value, n)
  PROVE  n \notin CodeCuts(code) /\ FieldsAreRead(code, seen, value, n + 1)
<1>1. PICK a \in Begun(code, n) : Uncut(code, a, n) /\ key = code[a + 1]
  BY DEF InValue
<1>2. a \in 5 .. n - 2 /\ n \in Nat
  BY CutsAre, MoreHasBegun
<1>3. n \in a + 1 .. n /\ n - 1 \in a + 1 .. n
  BY <1>2
<1>4. n \notin CodeCuts(code) /\ n - 1 \notin CodeCuts(code)
  BY <1>1, <1>3 DEF Uncut
<1>5. Begun(code, n + 1) = Begun(code, n) /\ KeysRead(code, n + 1) = KeysRead(code, n)
  BY <1>4, NothingBegins
<1>6. ASSUME NEW cut \in Begun(code, n) PROVE FieldIsRead(code, value, cut, n + 1)
  <2>1. FieldIsRead(code, value, cut, n)
    BY DEF FieldsAreRead
  <2> QED
    BY <2>1, FieldStaysRead
<1> QED
  BY <1>4, <1>5, <1>6 DEF FieldsAreRead

(* A byte of a value, which is kept or only escapes the next.              *)
LEMMA AfterAByte ==
  ASSUME NEW code, IsWifi(code), NEW n \in 5 .. Len(code) - 1, NEW seen, NEW value \in Values, NEW key,
         InValue(code, key, n), n + 1 \notin CodeCuts(code), FieldsAreRead(code, seen, value, n),
         NEW other \in Values,
         \A k \in WifiKeys : other[k] = IF k = key THEN KeptAt(code, value[k], n + 1) ELSE value[k],
         Len(other[key]) <= Room[key]
  PROVE  InValue(code, key, n + 1) /\ FieldsAreRead(code, seen, other, n + 1)
<1>1. PICK a \in Begun(code, n) : Uncut(code, a, n) /\ key = code[a + 1]
  BY DEF InValue
<1>2. a \in 5 .. n - 2 /\ n \in Nat /\ n < Len(code) /\ Len(code) \in Nat
  BY CutsAre, MoreHasBegun
<1>3. n - 1 \in a + 1 .. n
  BY <1>2
<1>4. n - 1 \notin CodeCuts(code)
  BY <1>1, <1>3 DEF Uncut
<1>5. Begun(code, n + 1) = Begun(code, n) /\ KeysRead(code, n + 1) = KeysRead(code, n)
  BY <1>4, NothingBegins
<1>6. Uncut(code, a, n + 1)
  <2>1. \A i \in a + 1 .. n + 1 : i \in a + 1 .. n \/ i = n + 1
    BY <1>2
  <2> QED
    BY <1>1, <2>1 DEF Uncut
<1>7. FieldIsRead(code, value, a, n)
  BY DEF FieldsAreRead
<1>8. /\ key \in WifiKeys /\ code[a + 2] = Colon
      /\ value[key] = UnescapedValue(code, a + 3, n)
  BY <1>1, <1>7, ReadSoFarOfIt
<1>9. FieldIsRead(code, other, a, n + 1)
  <2>1. IsAStretch(code, a + 3, n) /\ code \in Seq(Character)
    BY <1>2 DEF IsAStretch, IsWifi
  <2>2. UnescapedValue(code, a + 3, n + 1) = KeptAt(code, value[key], n + 1)
    BY <1>2, <1>8, <2>1, ValueSteps
  <2>3. other[key] = UnescapedValue(code, a + 3, n + 1)
    BY <1>8, <2>2
  <2>4. ReadTo(code, a, n + 1, n + 1)
    BY <1>2, <1>6 DEF ReadTo
  <2>5. ValueIs(code, other, a, n + 1, n + 1)
    BY <1>1, <1>8, <2>3 DEF ValueIs
  <2>6. n + 1 \in Nat
    BY <1>2
  <2> QED
    BY <2>4, <2>5, <2>6 DEF FieldIsRead
<1>10. ASSUME NEW cut \in Begun(code, n), cut # a PROVE FieldIsRead(code, other, cut, n + 1)
  <2>1. FieldIsRead(code, value, cut, n)
    BY DEF FieldsAreRead
  <2>2. cut <= a /\ ~Uncut(code, cut, n) /\ cut \in Nat
    BY <1>1, <1>10, TheOneBeingRead, MoreHasBegun
  <2>3. code[cut + 1] \in WifiKeys
    BY <2>1 DEF FieldIsRead, ValueIs
  <2>4. IsLast(code, cut, n + 1) => code[cut + 1] # key
    <3> SUFFICES ASSUME IsLast(code, cut, n + 1), code[cut + 1] = key PROVE FALSE
      OBVIOUS
    <3>1. a <= cut
      BY <1>1, <1>5 DEF IsLast
    <3> QED
      BY <1>2, <1>10, <2>2, <3>1
  <2>5. IsLast(code, cut, n + 1) => other[code[cut + 1]] = value[code[cut + 1]]
    BY <2>3, <2>4
  <2> QED
    BY <2>1, <2>2, <2>5, FieldStaysRead
<1>11. FieldsAreRead(code, seen, other, n + 1)
  BY <1>5, <1>9, <1>10 DEF FieldsAreRead
<1>12. InValue(code, key, n + 1)
  BY <1>1, <1>5, <1>6 DEF InValue
<1> QED
  BY <1>11, <1>12

-----------------------------------------------------------------------------
(* What is refused is not sound.                                           *)
LEMMA AnUnknownKey ==
  ASSUME NEW code, IsWifi(code), NEW n \in 5 .. Len(code) - 1,
         n \in CodeCuts(code), code[n + 1] \notin WifiKeys, code[n + 1] # Semicolon
  PROVE  ~Sound(code)
<1>1. n \in Nat /\ n < Len(code) /\ Len(code) \in Nat /\ n + 1 \in 6 .. Len(code)
  BY CutsAre
<1>2. n + 1 \notin CodeCuts(code)
  BY <1>1, CutsAre
<1>3. CASE n = Len(code) - 1
  BY <1>1, <1>2, <1>3 DEF Sound
<1>4. CASE n # Len(code) - 1
  <2>1. n \in CodeFields(code)
    BY <1>1, <1>4 DEF CodeFields
  <2>2. ~FieldIsSound(code, n)
    BY DEF FieldIsSound, CodeField
  <2> QED
    BY <2>1, <2>2 DEF Sound
<1> QED
  BY <1>3, <1>4

LEMMA NoColon ==
  ASSUME NEW code, IsWifi(code), NEW n \in 5 .. Len(code) - 1, n - 1 \in CodeCuts(code), code[n + 1] # Colon
  PROVE  ~Sound(code)
<1>1. n \in Nat /\ n < Len(code) /\ Len(code) \in Nat
  BY CutsAre
<1>2. n - 1 \in CodeFields(code)
  BY <1>1 DEF CodeFields
<1>3. (n - 1) + 2 = n + 1
  BY <1>1
<1>4. ~FieldIsSound(code, n - 1)
  BY <1>3 DEF FieldIsSound, CodeField
<1> QED
  BY <1>2, <1>4 DEF Sound

LEMMA MoreThanTheEnd ==
  ASSUME NEW code, IsWifi(code), NEW n \in 5 .. Len(code) - 1, n - 1 \in CodeCuts(code), n \in CodeCuts(code)
  PROVE  ~Sound(code)
<1>1. n \in Nat /\ n < Len(code) /\ Len(code) \in Nat
  BY CutsAre
<1>2. n - 1 \in CodeFields(code)
  BY <1>1 DEF CodeFields
<1>3. NextCut(code, n - 1) = n
  <2> DEFINE a == n - 1
  <2>1. a \in CodeCuts(code) /\ n > a /\ \A i \in a + 1 .. n - 1 : i \notin CodeCuts(code)
    BY <1>1
  <2> HIDE DEF a
  <2>2. NextCut(code, a) = n
    BY <2>1, NextCutIs
  <2> QED
    BY <2>2 DEF a
<1>4. ~(n >= (n - 1) + 3)
  BY <1>1
<1>5. ~FieldIsSound(code, n - 1)
  BY <1>3, <1>4 DEF FieldIsSound
<1> QED
  BY <1>2, <1>5 DEF Sound

LEMMA NoRoom ==
  ASSUME NEW code, IsWifi(code), NEW n \in 5 .. Len(code) - 1, NEW cut \in Begun(code, n), Uncut(code, cut, n),
         n + 1 \notin CodeCuts(code), code[cut + 1] \in WifiKeys,
         ~(code[n + 1] = Backslash /\ ~EscapedIn(code, n + 1)),
         Len(UnescapedValue(code, cut + 3, n)) >= Room[code[cut + 1]]
  PROVE  ~Sound(code)
<1> DEFINE end == Len(code)
           next == NextCut(code, cut)
           room == Room[code[cut + 1]]
           soFar == UnescapedValue(code, cut + 3, n)
           then == UnescapedValue(code, cut + 3, n + 1)
           all == UnescapedValue(code, cut + 3, next - 1)
<1>1. n \in Nat /\ n < end /\ end \in Nat /\ cut \in 5 .. n - 2 /\ cut \in CodeCuts(code)
  BY CutsAre, MoreHasBegun
<1>2. CASE end \notin CodeCuts(code)
  BY <1>2 DEF Sound
<1>3. CASE end \in CodeCuts(code)
  <2>1. next \in CodeCuts(code) /\ next > cut /\ next <= end
    BY <1>1, <1>3, NextCutIsBeyond
  <2>2. next \in Nat
    BY <2>1, CutsAre
  <2>3. ~(next \in cut + 1 .. n) /\ next # n + 1
    BY <2>1 DEF Uncut
  <2> HIDE DEF next
  <2>4. next - 1 \in n + 1 .. end
    BY <1>1, <2>1, <2>2, <2>3
  <2>5. IsAStretch(code, cut + 3, n) /\ IsAStretch(code, cut + 3, n + 1) /\ code \in Seq(Character)
    BY <1>1 DEF IsAStretch, IsWifi
  <2>6. soFar \in Seq(Character) /\ then = KeptAt(code, soFar, n + 1)
    BY <1>1, <2>5, ValueSteps
  <2>7. code[n + 1] \in Character
    BY <1>1, <2>5, ElementOfSeq
  <2>8. Len(then) <= Len(all) /\ all \in Seq(Character)
    <3>1. IsAStretch(code, cut + 3, next - 1)
      BY <1>1, <2>4 DEF IsAStretch
    <3>2. Len(then) <= Len(all)
      BY <2>4, <2>5, ValueGrows
    <3> QED
      BY <2>5, <3>1, <3>2, ValueSteps
  <2>9. then = Append(soFar, code[n + 1])
    BY <2>6 DEF KeptAt
  <2>10. room \in Nat /\ Len(soFar) >= room
    BY RoomIs
  <2> HIDE DEF soFar, then, all, room
  <2>11. Len(then) = Len(soFar) + 1 /\ Len(soFar) \in Nat /\ Len(all) \in Nat
    BY <2>6, <2>7, <2>8, <2>9, AppendProperties, LenProperties
  <2>12. ~(Len(all) <= room)
    BY <2>8, <2>10, <2>11
  <2>13. ~FieldIsSound(code, cut)
    BY <2>12 DEF FieldIsSound, CodeField, all, next, room
  <2>14. cut \in CodeFields(code)
    BY <1>1 DEF CodeFields
  <2> QED
    BY <2>13, <2>14 DEF Sound
<1> QED
  BY <1>2, <1>3

(* The pass, byte after byte.                                              *)
Passes(code, at, key, seen, value, n) ==
  \/ at = "BAD" /\ ~Sound(code)
  \/ StandsAt(code, at, key, n) /\ FieldsAreRead(code, seen, value, n)

LEMMA PassOfAStanding ==
  ASSUME NEW code, NEW at, NEW key, NEW seen, NEW value, NEW n
  PROVE  PassIs(code, Standing(at, key, seen, value), n) <=> Passes(code, at, key, seen, value, n)
<1> DEFINE s == Standing(at, key, seen, value)
<1>1. s.at = at /\ s.key = key /\ s.seen = seen /\ s.value = value
  BY StandingIs
<1> HIDE DEF s
<1>2. PassIs(code, s, n) <=> Passes(code, at, key, seen, value, n)
  BY <1>1 DEF PassIs, Passes
<1> QED
  BY <1>2 DEF s

LEMMA PassAtAKey ==
  ASSUME NEW code, IsWifi(code), NEW n \in 5 .. Len(code) - 1, NEW key, NEW seen, NEW value,
         Passes(code, "KEY", key, seen, value, n)
  PROVE  PassIs(code, ReadByte(Standing("KEY", key, seen, value), code[n + 1]), n + 1)
<1> DEFINE c == code[n + 1]
<1>1. n \in Nat /\ n + 1 \in 6 .. Len(code) /\ (n + 1) - 1 = n
  BY CutsAre
<1>2. n \in CodeCuts(code) /\ n - 1 \notin CodeCuts(code) /\ FieldsAreRead(code, seen, value, n)
  BY DEF Passes, StandsAt
<1>3. FieldsAreRead(code, seen, value, n + 1)
  BY <1>2, AfterAKey
<1>4. ReadByte(Standing("KEY", key, seen, value), c) =
        IF c = Semicolon THEN Standing("END", key, seen, value)
        ELSE IF c \in WifiKeys THEN Standing("COLON", c, seen, value)
        ELSE Standing("BAD", key, seen, value)
  BY ReadsAtAKey
<1>5. n + 1 \in CodeCuts(code) <=> c = Semicolon
  <2>1. code[n] # Backslash
    <3>1. n = 5 \/ n \in 6 .. Len(code)
      BY <1>1
    <3>2. code[n] = Colon \/ code[n] = Semicolon
      BY <1>2, <3>1, CutsAre
    <3> QED
      BY <3>2 DEF Colon, Semicolon, Backslash
  <2>2. n \in 1 .. Len(code) /\ code \in Seq(Character)
    BY <1>1 DEF IsWifi
  <2>3. ~EscapedIn(code, n + 1)
    BY <2>1, <2>2, EscapesAlternate
  <2> QED
    BY <1>1, <2>3, CutsAre
<1> HIDE DEF c
<1>6. CASE c = Semicolon
  <2>1. Passes(code, "END", key, seen, value, n + 1)
    BY <1>1, <1>2, <1>3, <1>5, <1>6 DEF Passes, StandsAt
  <2> QED
    BY <1>4, <1>6, <2>1, PassOfAStanding DEF c
<1>7. CASE c # Semicolon /\ c \in WifiKeys
  <2>1. Passes(code, "COLON", c, seen, value, n + 1)
    BY <1>1, <1>2, <1>3, <1>5, <1>7 DEF Passes, StandsAt, c
  <2> QED
    BY <1>4, <1>7, <2>1, PassOfAStanding DEF c
<1>8. CASE c # Semicolon /\ c \notin WifiKeys
  <2>1. ~Sound(code)
    BY <1>2, <1>8, AnUnknownKey DEF c
  <2>2. Passes(code, "BAD", key, seen, value, n + 1)
    BY <2>1 DEF Passes
  <2> QED
    BY <1>4, <1>8, <2>2, PassOfAStanding DEF c
<1> QED
  BY <1>6, <1>7, <1>8

LEMMA PassAtAColon ==
  ASSUME NEW code, IsWifi(code), NEW n \in 5 .. Len(code) - 1, NEW key, NEW seen, NEW value \in Values,
         Passes(code, "COLON", key, seen, value, n)
  PROVE  PassIs(code, ReadByte(Standing("COLON", key, seen, value), code[n + 1]), n + 1)
<1> DEFINE c == code[n + 1]
           more == seen \cup {key}
           other == [value EXCEPT ![key] = <<>>]
<1>1. n \in Nat /\ (n + 1) + 1 = n + 2
  BY CutsAre
<1>2. /\ n - 1 \in CodeCuts(code) /\ n \notin CodeCuts(code) /\ key = code[n] /\ key \in WifiKeys
      /\ FieldsAreRead(code, seen, value, n)
  BY DEF Passes, StandsAt
<1>3. ReadByte(Standing("COLON", key, seen, value), c) =
        IF c # Colon THEN Standing("BAD", key, seen, value) ELSE Standing("VALUE", key, more, other)
  BY ReadsAtAColon
<1>4. CASE c # Colon
  <2>1. ~Sound(code)
    BY <1>2, <1>4, NoColon
  <2>2. Passes(code, "BAD", key, seen, value, n + 1)
    BY <2>1 DEF Passes
  <2> HIDE DEF c
  <2> QED
    BY <1>3, <1>4, <2>2, PassOfAStanding DEF c
<1>5. CASE c = Colon
  <2>1. /\ FieldsAreRead(code, more, other, n + 1)
        /\ InValue(code, key, n + 1) /\ ~EscapedIn(code, n + 2)
    BY <1>2, <1>5, AfterAColon
  <2> HIDE DEF c, more, other
  <2>2. Passes(code, "VALUE", key, more, other, n + 1)
    BY <1>1, <2>1 DEF Passes, StandsAt
  <2> QED
    BY <1>3, <1>5, <2>2, PassOfAStanding DEF c
<1> QED
  BY <1>4, <1>5

(* A byte that goes into a value, escaped or not.                          *)
LEMMA PassOfAKeptByte ==
  ASSUME NEW code, IsWifi(code), NEW n \in 5 .. Len(code) - 1, NEW key, NEW seen, NEW value \in Values,
         InValue(code, key, n), FieldsAreRead(code, seen, value, n), n + 1 \notin CodeCuts(code),
         ~(code[n + 1] = Backslash /\ ~EscapedIn(code, n + 1))
  PROVE  PassIs(code, Kept(key, seen, value, code[n + 1]), n + 1)
<1> DEFINE c == code[n + 1]
           other == [value EXCEPT ![key] = Append(value[key], c)]
<1>1. PICK a \in Begun(code, n) : Uncut(code, a, n) /\ key = code[a + 1]
  BY DEF InValue
<1>2. FieldIsRead(code, value, a, n)
  BY DEF FieldsAreRead
<1>3. /\ key \in WifiKeys /\ value[key] = UnescapedValue(code, a + 3, n)
      /\ Len(value[key]) <= Room[key]
  BY <1>1, <1>2, ReadSoFarOfIt
<1>4. /\ n \in Nat /\ (n + 1) + 1 = n + 2 /\ n + 1 \in 1 .. Len(code) /\ code \in Seq(Character)
      /\ c \in Character
  <2>1. n \in Nat /\ (n + 1) + 1 = n + 2 /\ n + 1 \in 1 .. Len(code) /\ code \in Seq(Character)
    BY CutsAre DEF IsWifi
  <2> QED
    BY <2>1, ElementOfSeq
<1>5. CASE Len(value[key]) >= Room[key]
  <2>1. ~Sound(code)
    BY <1>1, <1>3, <1>5, NoRoom
  <2>2. Passes(code, "BAD", key, seen, value, n + 1)
    BY <2>1 DEF Passes
  <2>3. Kept(key, seen, value, c) = Standing("BAD", key, seen, value)
    BY <1>5 DEF Kept
  <2> HIDE DEF c
  <2> QED
    BY <2>2, <2>3, PassOfAStanding DEF c
<1>6. CASE ~(Len(value[key]) >= Room[key])
  <2>1. Kept(key, seen, value, c) = Standing("VALUE", key, seen, other)
    BY <1>6 DEF Kept
  <2>2. \A k \in WifiKeys : value[k] \in Seq(Character)
    BY DEF Values
  <2>3. Append(value[key], c) \in Seq(Character) /\ Len(Append(value[key], c)) = Len(value[key]) + 1
    BY <1>3, <1>4, <2>2, AppendProperties
  <2>4. other \in Values /\ \A k \in WifiKeys : other[k] = IF k = key THEN Append(value[key], c) ELSE value[k]
    BY <1>3, <2>3 DEF Values
  <2>5. KeptAt(code, value[key], n + 1) = Append(value[key], c)
    BY DEF KeptAt
  <2>6. Len(other[key]) <= Room[key]
    <3>1. Len(value[key]) \in Nat /\ Room[key] \in Nat
      BY <1>3, <2>2, LenProperties, RoomIs
    <3> QED
      BY <1>3, <1>6, <2>3, <2>4, <3>1
  <2> HIDE DEF other, c
  <2>7. \A k \in WifiKeys : other[k] = IF k = key THEN KeptAt(code, value[k], n + 1) ELSE value[k]
    BY <2>4, <2>5
  <2>8. InValue(code, key, n + 1) /\ FieldsAreRead(code, seen, other, n + 1)
    BY <2>4, <2>6, <2>7, AfterAByte
  <2>9. ~EscapedIn(code, n + 2)
    <3> DEFINE i == n + 1
    <3>1. i \in 1 .. Len(code) /\ i + 1 = n + 2
      BY <1>4
    <3> HIDE DEF i
    <3>2. EscapedIn(code, i + 1) <=> code[i] = Backslash /\ ~EscapedIn(code, i)
      BY <1>4, <3>1, EscapesAlternate
    <3> QED
      BY <3>1, <3>2 DEF i, c
  <2>10. Passes(code, "VALUE", key, seen, other, n + 1)
    BY <1>4, <2>8, <2>9 DEF Passes, StandsAt
  <2> QED
    BY <2>1, <2>10, PassOfAStanding DEF c
<1> QED
  BY <1>5, <1>6

LEMMA PassAtAValue ==
  ASSUME NEW code, IsWifi(code), NEW n \in 5 .. Len(code) - 1, NEW key, NEW seen, NEW value \in Values,
         Passes(code, "VALUE", key, seen, value, n)
  PROVE  PassIs(code, ReadByte(Standing("VALUE", key, seen, value), code[n + 1]), n + 1)
<1> DEFINE c == code[n + 1]
<1>1. n \in Nat /\ (n + 1) + 1 = n + 2 /\ (n + 1) - 1 = n /\ n + 1 \in 6 .. Len(code)
  BY CutsAre
<1>2. InValue(code, key, n) /\ ~EscapedIn(code, n + 1) /\ FieldsAreRead(code, seen, value, n)
  BY DEF Passes, StandsAt
<1>3. ReadByte(Standing("VALUE", key, seen, value), c) =
        CASE c = Semicolon -> Standing("KEY", key, seen, value)
          [] c = Backslash -> Standing("ESCAPED", key, seen, value)
          [] OTHER         -> Kept(key, seen, value, c)
  BY ReadsAtAValue
<1>4. n + 1 \in CodeCuts(code) <=> c = Semicolon
  BY <1>1, <1>2, CutsAre
<1>5. Semicolon # Backslash
  BY DEF Semicolon, Backslash
<1>6. CASE c = Semicolon
  <2>1. n + 1 \in CodeCuts(code)
    BY <1>4, <1>6
  <2>2. n \notin CodeCuts(code) /\ FieldsAreRead(code, seen, value, n + 1)
    BY <1>2, <2>1, AfterASemicolon
  <2>3. Passes(code, "KEY", key, seen, value, n + 1)
    BY <1>1, <2>1, <2>2 DEF Passes, StandsAt
  <2>4. ReadByte(Standing("VALUE", key, seen, value), c) = Standing("KEY", key, seen, value)
    BY <1>3, <1>5, <1>6
  <2> HIDE DEF c
  <2> QED
    BY <2>3, <2>4, PassOfAStanding DEF c
<1>7. CASE c = Backslash
  <2>1. n + 1 \notin CodeCuts(code)
    BY <1>4, <1>5, <1>7
  <2>2. PICK a \in Begun(code, n) : Uncut(code, a, n) /\ key = code[a + 1]
    BY <1>2 DEF InValue
  <2>3. FieldIsRead(code, value, a, n)
    BY <1>2 DEF FieldsAreRead
  <2>4. Len(value[key]) <= Room[key]
    BY <2>2, <2>3, ReadSoFarOfIt
  <2>5. \A k \in WifiKeys : value[k] = IF k = key THEN KeptAt(code, value[k], n + 1) ELSE value[k]
    BY <1>2, <1>7 DEF KeptAt
  <2>6. InValue(code, key, n + 1) /\ FieldsAreRead(code, seen, value, n + 1)
    BY <1>2, <2>1, <2>4, <2>5, AfterAByte
  <2>7. EscapedIn(code, n + 2)
    <3> DEFINE i == n + 1
    <3>1. i \in 1 .. Len(code) /\ i + 1 = n + 2 /\ code \in Seq(Character)
      BY <1>1 DEF IsWifi
    <3> HIDE DEF i
    <3>2. EscapedIn(code, i + 1) <=> code[i] = Backslash /\ ~EscapedIn(code, i)
      BY <3>1, EscapesAlternate
    <3> QED
      BY <1>2, <1>7, <3>1, <3>2 DEF i
  <2>8. Passes(code, "ESCAPED", key, seen, value, n + 1)
    BY <1>1, <2>6, <2>7 DEF Passes, StandsAt
  <2>9. ReadByte(Standing("VALUE", key, seen, value), c) = Standing("ESCAPED", key, seen, value)
    BY <1>3, <1>5, <1>7
  <2> HIDE DEF c
  <2> QED
    BY <2>8, <2>9, PassOfAStanding DEF c
<1>8. CASE c # Semicolon /\ c # Backslash
  <2>1. ReadByte(Standing("VALUE", key, seen, value), c) = Kept(key, seen, value, c)
    BY <1>3, <1>8
  <2>2. PassIs(code, Kept(key, seen, value, c), n + 1)
    BY <1>2, <1>4, <1>8, PassOfAKeptByte
  <2> HIDE DEF c
  <2> QED
    BY <2>1, <2>2 DEF c
<1> QED
  BY <1>6, <1>7, <1>8

LEMMA PassSteps ==
  ASSUME NEW code, IsWifi(code), NEW n \in 5 .. Len(code) - 1, NEW s \in CodeScan, PassIs(code, s, n)
  PROVE  PassIs(code, ReadByte(s, code[n + 1]), n + 1)
<1> DEFINE at == s.at
           key == s.key
           seen == s.seen
           value == s.value
<1>1. /\ s = Standing(at, key, seen, value) /\ value \in Values
      /\ at \in {"KEY", "COLON", "VALUE", "ESCAPED", "END", "BAD"}
  BY DEF CodeScan, Standing
<1>2. Passes(code, at, key, seen, value, n)
  BY DEF PassIs, Passes
<1> HIDE DEF at, key, seen, value
<1>3. CASE at = "KEY"
  BY <1>1, <1>2, <1>3, PassAtAKey
<1>4. CASE at = "COLON"
  BY <1>1, <1>2, <1>4, PassAtAColon
<1>5. CASE at = "VALUE"
  BY <1>1, <1>2, <1>5, PassAtAValue
<1>6. CASE at = "ESCAPED"
  <2>1. InValue(code, key, n) /\ EscapedIn(code, n + 1) /\ FieldsAreRead(code, seen, value, n)
    BY <1>2, <1>6 DEF Passes, StandsAt
  <2>2. n + 1 \notin CodeCuts(code)
    <3>1. n + 1 \in 6 .. Len(code)
      BY CutsAre
    <3> QED
      BY <2>1, <3>1, CutsAre
  <2>3. PassIs(code, Kept(key, seen, value, code[n + 1]), n + 1)
    BY <1>1, <2>1, <2>2, PassOfAKeptByte
  <2>4. ReadByte(s, code[n + 1]) = Kept(key, seen, value, code[n + 1])
    BY <1>1, <1>6, ReadsAtAnEscape
  <2> QED
    BY <2>3, <2>4
<1>7. CASE at \in {"END", "BAD"}
  <2>1. ~Sound(code)
    <3>1. at = "END" => n \in CodeCuts(code) /\ n - 1 \in CodeCuts(code)
      BY <1>2 DEF Passes, StandsAt
    <3>2. at = "BAD" => ~Sound(code)
      BY <1>2 DEF Passes, StandsAt
    <3> QED
      BY <1>7, <3>1, <3>2, MoreThanTheEnd
  <2>2. ReadByte(s, code[n + 1]) = Standing("BAD", key, seen, value)
    BY <1>1, <1>7, ReadsNoMore
  <2>3. Passes(code, "BAD", key, seen, value, n + 1)
    BY <2>1 DEF Passes
  <2> QED
    BY <2>2, <2>3, PassOfAStanding
<1> QED
  BY <1>1, <1>3, <1>4, <1>5, <1>6, <1>7

LEMMA PassReaches ==
  ASSUME NEW code, IsWifi(code)
  PROVE  \A n \in 5 .. Len(code) : ReadAt(code, n) \in CodeScan /\ PassIs(code, ReadAt(code, n), n)
<1> DEFINE none == <<>>
           values == [key \in WifiKeys |-> none]
           S == {k \in Nat : 5 + k <= Len(code) =>
                   ReadAt(code, 5 + k) \in CodeScan /\ PassIs(code, ReadAt(code, 5 + k), 5 + k)}
<1>1. /\ code \in Seq(Character) /\ Len(code) \in Nat /\ Len(code) >= 5 /\ Len(WifiStart) = 5
      /\ 5 \in CodeCuts(code) /\ CodeCuts(code) \subseteq 5 .. Len(code)
  BY CutsAre DEF IsWifi
<1>2. StartOfCode = Standing("KEY", 0, {}, values)
  BY DEF StartOfCode, Standing
<1>3. StartOfCode \in CodeScan
  <2>1. none \in Seq(Character)
    OBVIOUS
  <2>2. values \in Values
    BY <2>1 DEF Values
  <2> HIDE DEF values
  <2> QED
    BY <1>2, <2>2 DEF Standing, CodeScan
<1>4. \A n : ReadAt(code, n) = ReadFrom(StartOfCode, SubSeq(code, 6, n))
  BY <1>1 DEF ReadAt
<1>5. ReadAt(code, 5) = StartOfCode
  <2>1. SubSeq(code, 6, 5) = none
    BY <1>1
  <2>2. ReadFrom(StartOfCode, none) = StartOfCode
    BY <1>3, ReadFromSteps
  <2> QED
    BY <1>4, <2>1, <2>2
<1>6. PassIs(code, StartOfCode, 5)
  <2>1. Begun(code, 5) = {}
    BY <1>1 DEF Begun
  <2>2. FieldsAreRead(code, {}, values, 5)
    BY <2>1 DEF FieldsAreRead, KeysRead
  <2>3. 5 - 1 \notin CodeCuts(code)
    BY <1>1
  <2>4. Passes(code, "KEY", 0, {}, values, 5)
    BY <1>1, <2>2, <2>3 DEF Passes, StandsAt
  <2> HIDE DEF values
  <2> QED
    BY <1>2, <2>4, PassOfAStanding
<1>7. ASSUME NEW n \in 5 .. Len(code) - 1, ReadAt(code, n) \in CodeScan, PassIs(code, ReadAt(code, n), n)
      PROVE  ReadAt(code, n + 1) \in CodeScan /\ PassIs(code, ReadAt(code, n + 1), n + 1)
  <2>1. /\ SubSeq(code, 6, n) \in Seq(Character) /\ code[n + 1] \in Character
        /\ SubSeq(code, 6, n + 1) \in Seq(Character)
    <3>1. \A i \in 6 .. n + 1 : i \in 1 .. Len(code)
      BY <1>1
    <3>2. n + 1 \in 1 .. Len(code) /\ \A i \in 6 .. n : i \in 1 .. Len(code)
      BY <1>1
    <3> QED
      BY <1>1, <3>1, <3>2, SubSeqProperties, ElementOfSeq
  <2>2. SubSeq(code, 6, n + 1) = Append(SubSeq(code, 6, n), code[n + 1])
    BY <1>1
  <2> DEFINE begin == StartOfCode
             t == SubSeq(code, 6, n)
             u == SubSeq(code, 6, n + 1)
             c == code[n + 1]
  <2>3. ReadAt(code, n) = ReadFrom(begin, t) /\ ReadAt(code, n + 1) = ReadFrom(begin, u)
    BY <1>4
  <2>4. /\ begin \in CodeScan /\ t \in Seq(Character) /\ u \in Seq(Character) /\ c \in Character
        /\ u = Append(t, c)
    BY <1>3, <2>1, <2>2
  <2> HIDE DEF begin, t, u, c
  <2>5. ReadFrom(begin, u) = ReadByte(ReadFrom(begin, t), c) /\ ReadFrom(begin, u) \in CodeScan
    <3>1. begin \in CodeScan
      BY <2>4
    <3>2. /\ \A v \in Seq(Character) : ReadFrom(begin, v) \in CodeScan
          /\ \A v \in Seq(Character) : \A d \in Character :
               ReadFrom(begin, Append(v, d)) = ReadByte(ReadFrom(begin, v), d)
      BY <3>1, ReadFromSteps
    <3> QED
      BY <2>4, <3>2
  <2>6. ReadAt(code, n + 1) = ReadByte(ReadAt(code, n), code[n + 1]) /\ ReadAt(code, n + 1) \in CodeScan
    BY <2>3, <2>5 DEF c
  <2> QED
    BY <1>7, <2>6, PassSteps
<1>8. 0 \in S
  BY <1>3, <1>5, <1>6
<1>9. ASSUME NEW k \in S PROVE k + 1 \in S
  <2>1. k \in Nat /\ k + 1 \in Nat /\ 5 + (k + 1) = (5 + k) + 1
    OBVIOUS
  <2>2. 5 + (k + 1) <= Len(code) => 5 + k \in 5 .. Len(code) - 1 /\ 5 + k <= Len(code)
    BY <1>1, <2>1
  <2>3. 5 + (k + 1) <= Len(code) =>
          ReadAt(code, 5 + (k + 1)) \in CodeScan /\ PassIs(code, ReadAt(code, 5 + (k + 1)), 5 + (k + 1))
    BY <1>7, <2>1, <2>2
  <2> QED
    BY <2>1, <2>3
<1>10. S = Nat
  <2>1. S \in SUBSET Nat
    OBVIOUS
  <2> HIDE DEF S
  <2> QED
    BY <1>8, <1>9, <2>1, EveryNaturalIsReached
<1>11. ASSUME NEW n \in 5 .. Len(code)
       PROVE  ReadAt(code, n) \in CodeScan /\ PassIs(code, ReadAt(code, n), n)
  <2>1. n - 5 \in Nat /\ 5 + (n - 5) = n /\ n <= Len(code)
    BY <1>1
  <2>2. n - 5 \in S
    BY <1>10, <2>1
  <2> QED
    BY <2>1, <2>2
<1> QED
  BY <1>11

(* A field, once the code was read to its end.                             *)
LEMMA FieldAtTheEnd ==
  ASSUME NEW code, IsWifi(code), Len(code) \in CodeCuts(code),
         NEW value, NEW cut \in CodeFields(code), FieldIsRead(code, value, cut, Len(code))
  PROVE  /\ FieldIsSound(code, cut)
         /\ IsLast(code, cut, Len(code)) => value[code[cut + 1]] = CodeField(code, cut).value
<1> DEFINE end == Len(code)
<1>1. PICK m \in Nat : ReadTo(code, cut, end, m) /\ ValueIs(code, value, cut, end, m)
  BY DEF FieldIsRead
<1>2. /\ end \in Nat /\ cut \in Nat /\ cut < end - 1 /\ cut \in CodeCuts(code)
      /\ CodeCuts(code) \subseteq 5 .. end
  BY CutsAre DEF CodeFields
<1>3. m \in cut + 2 .. end /\ Uncut(code, cut, m) /\ (m = end \/ m + 1 \in CodeCuts(code))
  BY <1>1 DEF ReadTo
<1> HIDE DEF end
<1>4. m # end
  <2>1. end \in cut + 1 .. end /\ end \in CodeCuts(code)
    BY <1>2 DEF end
  <2> QED
    BY <1>3, <2>1 DEF Uncut
<1>5. m + 1 \in CodeCuts(code) /\ m + 1 > cut /\ (m + 1) - 1 = m /\ m + 1 >= cut + 3
  BY <1>2, <1>3, <1>4
<1>6. NextCut(code, cut) = m + 1
  <2> DEFINE next == m + 1
  <2>1. next \in CodeCuts(code) /\ next > cut /\ \A i \in cut + 1 .. next - 1 : i \notin CodeCuts(code)
    BY <1>3, <1>5 DEF Uncut
  <2> HIDE DEF next
  <2>2. NextCut(code, cut) = next
    BY <1>2, <2>1, NextCutIs
  <2> QED
    BY <2>2 DEF next
<1>7. /\ CodeField(code, cut).key = code[cut + 1] /\ CodeField(code, cut).colon = code[cut + 2]
      /\ CodeField(code, cut).value = UnescapedValue(code, cut + 3, m)
  BY <1>5, <1>6 DEF CodeField
<1>8. FieldIsSound(code, cut)
  <2> DEFINE field == CodeField(code, cut)
  <2>1. field.key \in WifiKeys /\ field.colon = Colon /\ Len(field.value) <= Room[field.key]
    BY <1>1, <1>7 DEF ValueIs
  <2>2. NextCut(code, cut) >= cut + 3
    BY <1>5, <1>6
  <2> QED
    BY <2>1, <2>2 DEF FieldIsSound
<1>9. IsLast(code, cut, end) => value[code[cut + 1]] = CodeField(code, cut).value
  BY <1>1, <1>7 DEF ValueIs
<1> QED
  BY <1>8, <1>9 DEF end

(* What is read to the end of a code is what the code says.                *)
LEMMA CodeIsReadWhole ==
  ASSUME NEW code, IsWifi(code), NEW s \in CodeScan, PassIs(code, s, Len(code))
  PROVE  /\ s.at = "END" /\ s.seen = WifiKeys <=> IsACode(code)
         /\ IsACode(code) => s.value = ReadWhole(code)
<1> DEFINE end == Len(code)
           K == CodeCuts(code)
<1>1. end \in Nat /\ K \subseteq 5 .. end
  BY CutsAre
<1>2. CodeFields(code) = Begun(code, end)
  <2>1. \A cut \in K : cut < end - 1 <=> cut + 2 <= end
    BY <1>1
  <2> QED
    BY <2>1 DEF CodeFields, Begun
<1>3. IsACode(code) <=> Sound(code) /\ \A key \in WifiKeys : FieldsNamed(code, key) # {}
  BY DEF IsACode, Sound, IsWifi
<1>4. CASE s.at # "END"
  <2>1. ~Sound(code)
    <3>1. CASE s.at = "BAD" /\ ~Sound(code)
      BY <3>1
    <3>2. CASE StandsAt(code, s.at, s.key, end)
      <4>1. ~({end - 1, end} \subseteq K)
        <5>1. ASSUME InValue(code, s.key, end) PROVE end \notin K
          <6>1. PICK a \in Begun(code, end) : Uncut(code, a, end)
            BY <5>1 DEF InValue
          <6>2. end \in a + 1 .. end
            BY <1>1 DEF Begun
          <6> QED
            BY <6>1, <6>2 DEF Uncut
        <5> QED
          BY <1>4, <3>2, <5>1 DEF StandsAt
      <4> QED
        BY <4>1 DEF Sound
    <3> QED
      BY <3>1, <3>2 DEF PassIs
  <2> QED
    BY <1>3, <1>4, <2>1
<1>5. CASE s.at = "END"
  <2>1. end \in K /\ end - 1 \in K /\ FieldsAreRead(code, s.seen, s.value, end)
    BY <1>5 DEF PassIs, StandsAt
  <2>2. \A cut \in CodeFields(code) :
          /\ FieldIsSound(code, cut)
          /\ IsLast(code, cut, end) => s.value[code[cut + 1]] = CodeField(code, cut).value
    <3> TAKE cut \in CodeFields(code)
    <3>1. FieldIsRead(code, s.value, cut, end)
      BY <1>2, <2>1 DEF FieldsAreRead
    <3> QED
      BY <2>1, <3>1, FieldAtTheEnd
  <2>3. Sound(code)
    BY <2>1, <2>2 DEF Sound
  <2>4. s.seen = {code[cut + 1] : cut \in CodeFields(code)}
    BY <1>2, <2>1 DEF FieldsAreRead, KeysRead
  <2>5. s.seen \subseteq WifiKeys
    BY DEF CodeScan
  <2>6. \A key \in WifiKeys : key \in s.seen <=> FieldsNamed(code, key) # {}
    BY <2>4 DEF FieldsNamed
  <2>7. s.seen = WifiKeys <=> IsACode(code)
    BY <1>3, <2>3, <2>5, <2>6
  <2>8. ASSUME IsACode(code) PROVE s.value = ReadWhole(code)
    <3>1. ASSUME NEW key \in WifiKeys
          PROVE  s.value[key] = CodeField(code, Max(FieldsNamed(code, key))).value
      <4> DEFINE F == FieldsNamed(code, key)
      <4>1. F \in SUBSET Nat /\ F # {} /\ \A cut \in F : cut <= end
        <5>1. F # {}
          BY <1>3, <2>8
        <5>2. F \subseteq K
          BY DEF FieldsNamed, CodeFields
        <5> HIDE DEF F
        <5> QED
          BY <1>1, <5>1, <5>2
      <4>2. PICK last \in F : \A other \in F : last >= other
        <5> HIDE DEF F
        <5> QED
          BY <1>1, <4>1, GreatestIsReached
      <4>3. Max(F) = last
        <5> HIDE DEF F
        <5>1. F \in SUBSET Int
          BY <4>1
        <5> QED
          BY <4>2, <5>1, GreatestIs
      <4>4. last \in CodeFields(code) /\ code[last + 1] = key
        BY DEF FieldsNamed
      <4>5. IsLast(code, last, end)
        <5>1. \A other \in Begun(code, end) : code[other + 1] = key => other \in F
          BY <1>2 DEF FieldsNamed
        <5>2. \A other \in F : other <= last
          BY <4>1, <4>2
        <5> QED
          BY <4>4, <5>1, <5>2 DEF IsLast
      <4> QED
        BY <2>2, <4>3, <4>4, <4>5
    <3>2. s.value = [key \in WifiKeys |-> s.value[key]]
      BY DEF CodeScan, Values
    <3> QED
      BY <3>1, <3>2 DEF ReadWhole
  <2> QED
    BY <1>5, <2>7, <2>8
<1> QED
  BY <1>4, <1>5

(***************************************************************************)
(* The pass over a payload takes what a reading of it as a whole calls a   *)
(* code, with the values of that reading, whatever the payload             *)
(* (parse_wifi_code and read_escaped_value of remote_ndef.c).              *)
(***************************************************************************)
THEOREM ThePassReadsTheCode ==
  \A code \in Seq(Character) :
    LET scan == ParseWifiCode(code)
    IN  /\ (scan.at = "END" /\ scan.seen = WifiKeys) = IsACode(code)
        /\ IsACode(code) => scan.value = ReadWhole(code)
<1> TAKE code \in Seq(Character)
<1> DEFINE scan == ParseWifiCode(code)
<1>1. /\ scan.at = "END" /\ scan.seen = WifiKeys <=> IsACode(code)
      /\ IsACode(code) => scan.value = ReadWhole(code)
  <2>1. CASE IsPrefix(WifiStart, code)
    <3>1. IsWifi(code)
      BY <2>1 DEF IsWifi
    <3>2. scan = ReadAt(code, Len(code))
      BY <2>1 DEF ParseWifiCode, ReadAt, ReadFrom
    <3>3. Len(code) \in 5 .. Len(code)
      BY <3>1, CutsAre
    <3> HIDE DEF scan
    <3>4. scan \in CodeScan /\ PassIs(code, scan, Len(code))
      BY <3>1, <3>2, <3>3, PassReaches
    <3> QED
      BY <3>1, <3>4, CodeIsReadWhole
  <2>2. CASE ~IsPrefix(WifiStart, code)
    <3>1. scan.at = "BAD"
      BY <2>2 DEF ParseWifiCode, StartOfCode
    <3>2. ~IsACode(code)
      BY <2>2 DEF IsACode
    <3> QED
      BY <3>1, <3>2
  <2> QED
    BY <2>1, <2>2
<1> HIDE DEF scan
<1>2. (scan.at = "END" /\ scan.seen = WifiKeys) = IsACode(code)
  BY <1>1 DEF IsACode
<1> QED
  BY <1>1, <1>2 DEF scan
=============================================================================
