---------------------- MODULE RemoteSessionTraceProofs ----------------------
(***************************************************************************)
(* What the session says over its whole execution.                         *)
(*                                                                         *)
(*   - Its byte backstop never binds (BackstopIsIdle).                     *)
(*   - Every line the host reads is whole (LinesStayWhole).                *)
(*   - It implements AbstractSession (SessionKeepsItsPromise).             *)
(*                                                                         *)
(* The last two are about ReadBy and MessagesEnding, which are recursive   *)
(* functions, so they begin with induction.                                *)
(***************************************************************************)
EXTENDS RemoteSessionTrace, RemoteSessionProofs, WellFoundedInduction

-----------------------------------------------------------------------------
(* Induction.  The library's principles take a formula as a parameter; the *)
(* same can be said of sets, because the naturals are well-founded.        *)

LEMMA EveryNaturalIsReached ==
  ASSUME NEW S \in SUBSET Nat, 0 \in S, \A n \in S : n + 1 \in S
  PROVE  S = Nat
<1> SUFFICES ASSUME Nat \ S # {} PROVE FALSE
  OBVIOUS
<1> DEFINE Less == {ss \in Nat \X Nat : ss[1] < ss[2]}
<1>1. IsWellFoundedOn(Less, Nat)
  BY NatLessThanWellFounded DEF OpToRel
<1>2. PICK n \in Nat \ S : \A k \in Nat \ S : ~(<<k, n>> \in Less)
  <2> HIDE DEF Less
  <2> QED
    BY <1>1, WFMin
<1>3. n \in Nat \ {0} /\ n - 1 \in Nat
  OBVIOUS
<1>4. n - 1 \notin S
  <2>1. (n - 1) + 1 = n
    BY <1>3
  <2> QED
    BY <2>1
<1>5. <<n - 1, n>> \in Less
  BY <1>3
<1> QED
  BY <1>2, <1>3, <1>4, <1>5

(* A set with the empty sequence, closed under Append, has every sequence. *)
LEMMA EverySequenceIsReached ==
  ASSUME NEW S, NEW T \in SUBSET Seq(S), <<>> \in T,
         \A s \in T : \A e \in S : Append(s, e) \in T
  PROVE  T = Seq(S)
<1> DEFINE Reached == {n \in Nat : \A s \in Seq(S) : Len(s) = n => s \in T}
<1>1. 0 \in Reached
  BY EmptySeq
<1>2. ASSUME NEW n \in Reached, NEW s \in Seq(S), Len(s) = n + 1 PROVE s \in T
  <2>1. n \in Nat /\ \A t \in Seq(S) : Len(t) = n => t \in T
    OBVIOUS
  <2>2. s # <<>>
    BY <1>2, <2>1, EmptySeq
  <2>3. PICK t \in Seq(S), e \in S : s = Append(t, e)
    BY <2>2, SequenceEmptyOrAppend
  <2>4. Len(s) = Len(t) + 1 /\ Len(t) \in Nat
    BY <2>3, AppendProperties, LenProperties
  <2>5. Len(t) = n
    BY <1>2, <2>1, <2>4
  <2>6. t \in T
    BY <2>1, <2>3, <2>5
  <2> QED
    BY <2>3, <2>6
<1>3. ASSUME NEW n \in Reached PROVE n + 1 \in Reached
  <2>1. n + 1 \in Nat
    OBVIOUS
  <2> QED
    BY <1>2, <2>1
<1>4. Reached = Nat
  <2> HIDE DEF Reached
  <2>1. Reached \in SUBSET Nat
    BY DEF Reached
  <2> QED
    BY <1>1, <1>3, <2>1, EveryNaturalIsReached
<1> QED
  BY <1>4, LenProperties

(* The functions on 0 .. N each value of which is made from the one before. *)
Made(S, c, N, step) ==
  {g \in [0 .. N -> S] : g[0] = c /\ \A n \in 1 .. N : g[n] = step[<<g[n - 1], n>>]}

(* There is one.                                                           *)
LEMMA RecursionIsDefined ==
  ASSUME NEW S, NEW c \in S, NEW N \in Nat, NEW step \in [S \X (1 .. N) -> S]
  PROVE  Made(S, c, N, step) # {}
<1> DEFINE Upto(k) == \E g \in [0 .. k -> S] :
             g[0] = c /\ \A i \in 1 .. k : g[i] = step[<<g[i - 1], i>>]
           Reached == {k \in Nat : k <= N => Upto(k)}
<1>1. 0 \in Reached
  <2> DEFINE g == [i \in 0 .. 0 |-> c]
  <2>1. g \in [0 .. 0 -> S] /\ g[0] = c /\ \A i \in 1 .. 0 : g[i] = step[<<g[i - 1], i>>]
    OBVIOUS
  <2> QED
    BY <2>1
<1>2. ASSUME NEW k \in Reached, k + 1 <= N PROVE Upto(k + 1)
  <2>1. k \in Nat /\ k <= N /\ k + 1 \in 1 .. N
    BY <1>2
  <2>2. PICK g \in [0 .. k -> S] : g[0] = c /\ \A i \in 1 .. k : g[i] = step[<<g[i - 1], i>>]
    BY <2>1
  <2> DEFINE h == [i \in 0 .. k + 1 |-> IF i <= k THEN g[i] ELSE step[<<g[k], k + 1>>]]
  <2>3. g[k] \in S
    BY <2>1
  <2>4. step[<<g[k], k + 1>>] \in S
    BY <2>1, <2>3
  <2>5. h \in [0 .. k + 1 -> S]
    BY <2>1, <2>4
  <2>6. h[0] = c
    BY <2>1, <2>2
  <2>7. ASSUME NEW i \in 1 .. k + 1 PROVE h[i] = step[<<h[i - 1], i>>]
    <3>1. CASE i <= k
      <4>1. i \in 1 .. k /\ i - 1 \in 0 .. k + 1 /\ i - 1 <= k /\ i \in 0 .. k + 1
        BY <2>1, <3>1
      <4> QED
        BY <2>2, <3>1, <4>1
    <3>2. CASE ~(i <= k)
      <4>1. i = k + 1 /\ i - 1 = k /\ k \in 0 .. k + 1 /\ k <= k /\ i \in 0 .. k + 1
        BY <2>1, <3>2
      <4> QED
        BY <3>2, <4>1
    <3> QED
      BY <3>1, <3>2
  <2> HIDE DEF h
  <2> QED
    BY <2>5, <2>6, <2>7
<1>3. \A k \in Reached : k + 1 \in Reached
  BY <1>2
<1>4. N \in Reached
  <2> HIDE DEF Reached
  <2>1. Reached \in SUBSET Nat
    BY DEF Reached
  <2> QED
    BY <1>1, <1>3, <2>1, EveryNaturalIsReached
<1> QED
  BY <1>4 DEF Made

(* Two such functions agree as far as what they are made from does.        *)
LEMMA RecursionIsUnique ==
  ASSUME NEW M \in Nat, NEW g, NEW h, g[0] = h[0],
         \A n \in 1 .. M : g[n - 1] = h[n - 1] => g[n] = h[n]
  PROVE  g[M] = h[M]
<1> DEFINE Reached == {n \in Nat : n <= M => g[n] = h[n]}
<1>1. 0 \in Reached
  OBVIOUS
<1>2. ASSUME NEW n \in Reached PROVE n + 1 \in Reached
  <2> SUFFICES ASSUME n + 1 <= M PROVE g[n + 1] = h[n + 1]
    OBVIOUS
  <2>1. n + 1 \in 1 .. M /\ (n + 1) - 1 = n /\ n <= M
    OBVIOUS
  <2> QED
    BY <2>1
<1>3. M \in Reached
  <2> HIDE DEF Reached
  <2>1. Reached \in SUBSET Nat
    BY DEF Reached
  <2> QED
    BY <1>1, <1>2, <2>1, EveryNaturalIsReached
<1> QED
  BY <1>3

-----------------------------------------------------------------------------
(* Reading unit by unit.                                                   *)

LEMMA ReadingIsStepwise ==
  ASSUME NEW assembler \in Assembler
  PROVE  /\ ReadBy(assembler, <<>>) = assembler
         /\ \A s \in Seq(Unit), u \in Unit :
              ReadBy(assembler, Append(s, u)) = FeedNext(ReadBy(assembler, s), u)
<1> DEFINE R(units) == CHOOSE read : read =
             [n \in 0 .. Len(units) |->
                IF n = 0 THEN assembler ELSE FeedNext(read[n - 1], units[n])]
<1>1. ASSUME NEW units \in Seq(Unit)
      PROVE  R(units) = [n \in 0 .. Len(units) |->
                IF n = 0 THEN assembler ELSE FeedNext(R(units)[n - 1], units[n])]
  <2> DEFINE step == [x \in Assembler \X (1 .. Len(units)) |-> FeedNext(x[1], units[x[2]])]
  <2>1. Len(units) \in Nat
    BY LenProperties
  <2>2. ASSUME NEW x \in Assembler \X (1 .. Len(units))
        PROVE  FeedNext(x[1], units[x[2]]) \in Assembler
    <3>1. x[1] \in Assembler /\ units[x[2]] \in Unit
      BY ElementOfSeq
    <3> QED
      BY <3>1, FeedFacts
  <2>3. step \in [Assembler \X (1 .. Len(units)) -> Assembler]
    BY <2>2
  <2>4. \A a \in Assembler, n \in 1 .. Len(units) : step[<<a, n>>] = FeedNext(a, units[n])
    OBVIOUS
  <2> HIDE DEF step
  <2> DEFINE N == Len(units)
  <2>10. Made(Assembler, assembler, N, step) # {}
    <3> HIDE DEF R
    <3>1. N \in Nat /\ step \in [Assembler \X (1 .. N) -> Assembler] /\ assembler \in Assembler
      BY <2>1, <2>3
    <3> HIDE DEF N
    <3> QED
      BY <3>1, RecursionIsDefined
  <2>5. PICK g \in [0 .. N -> Assembler] :
          g[0] = assembler /\ \A n \in 1 .. N : g[n] = step[<<g[n - 1], n>>]
    BY <2>10 DEF Made
  <2>6. ASSUME NEW n \in 0 .. Len(units)
        PROVE  g[n] = IF n = 0 THEN assembler ELSE FeedNext(g[n - 1], units[n])
    <3>1. CASE n = 0
      BY <2>5, <3>1
    <3>2. CASE n # 0
      <4>1. n \in 1 .. Len(units) /\ n - 1 \in 0 .. Len(units)
        BY <2>1, <3>2
      <4>2. g[n - 1] \in Assembler
        BY <4>1
      <4>3. g[n] = step[<<g[n - 1], n>>]
        BY <2>5, <3>2
      <4> QED
        BY <2>4, <3>2, <4>1, <4>2, <4>3
    <3> QED
      BY <3>1, <3>2
  <2>7. g = [n \in 0 .. Len(units) |->
               IF n = 0 THEN assembler ELSE FeedNext(g[n - 1], units[n])]
    <3> DEFINE f == [n \in 0 .. Len(units) |->
               IF n = 0 THEN assembler ELSE FeedNext(g[n - 1], units[n])]
    <3>1. DOMAIN g = 0 .. Len(units) /\ DOMAIN f = 0 .. Len(units)
      OBVIOUS
    <3>2. \A n \in 0 .. Len(units) : f[n] = g[n]
      BY <2>6
    <3>3. g = [n \in 0 .. Len(units) |-> g[n]] /\ f = [n \in 0 .. Len(units) |-> f[n]]
      OBVIOUS
    <3> HIDE DEF f
    <3>4. g = f
      BY <3>2, <3>3
    <3> QED
      BY <3>4 DEF f
  <2> QED
    BY <2>7
<1>2. \A units : ReadBy(assembler, units) = R(units)[Len(units)]
  BY DEF ReadBy
<1>3. ReadBy(assembler, <<>>) = assembler
  <2>1. <<>> \in Seq(Unit) /\ Len(<<>>) = 0 /\ 0 \in 0 .. Len(<<>>)
    OBVIOUS
  <2> HIDE DEF R
  <2>2. R(<<>>) = [n \in 0 .. Len(<<>>) |->
                IF n = 0 THEN assembler ELSE FeedNext(R(<<>>)[n - 1], <<>>[n])]
    BY <1>1, <2>1
  <2>3. R(<<>>)[0] = assembler
    BY <2>1, <2>2
  <2> QED
    BY <1>2, <2>1, <2>3
<1>4. ASSUME NEW s \in Seq(Unit), NEW u \in Unit
      PROVE  ReadBy(assembler, Append(s, u)) = FeedNext(ReadBy(assembler, s), u)
  <2> DEFINE t == Append(s, u)
             l == Len(s)
  <2>1. /\ t \in Seq(Unit) /\ Len(t) = l + 1 /\ l \in Nat
        /\ \A i \in 1 .. l : t[i] = s[i]
        /\ t[l + 1] = u
    BY AppendProperties, LenProperties
  <2>2. /\ \A n \in 0 .. l : R(s)[n] = IF n = 0 THEN assembler ELSE FeedNext(R(s)[n - 1], s[n])
        /\ \A n \in 0 .. l + 1 : R(t)[n] = IF n = 0 THEN assembler ELSE FeedNext(R(t)[n - 1], t[n])
    <3> HIDE DEF R, t
    <3> QED
      BY <1>1, <2>1
  <2> HIDE DEF R, t, l
  <2>3. R(s)[l] = R(t)[l]
    <3>1. R(s)[0] = R(t)[0]
      <4>1. 0 \in 0 .. l /\ 0 \in 0 .. l + 1
        BY <2>1
      <4> QED
        BY <2>2, <4>1
    <3>2. ASSUME NEW n \in 1 .. l, R(s)[n - 1] = R(t)[n - 1] PROVE R(s)[n] = R(t)[n]
      <4>1. n \in 0 .. l /\ n \in 0 .. l + 1 /\ n # 0
        BY <2>1
      <4> QED
        BY <2>1, <2>2, <3>2, <4>1
    <3>3. \A n \in 1 .. l : R(s)[n - 1] = R(t)[n - 1] => R(s)[n] = R(t)[n]
      BY <3>2
    <3> DEFINE g == R(s)
               h == R(t)
    <3>4. l \in Nat /\ g[0] = h[0] /\ \A n \in 1 .. l : g[n - 1] = h[n - 1] => g[n] = h[n]
      BY <2>1, <3>1, <3>3
    <3>5. g[l] = h[l]
      <4> HIDE DEF g, h
      <4> QED
        BY <3>4, RecursionIsUnique
    <3> QED
      BY <3>5
  <2>4. R(t)[l + 1] = FeedNext(R(t)[l], u)
    <3>1. l + 1 \in 0 .. l + 1 /\ l + 1 # 0 /\ (l + 1) - 1 = l
      BY <2>1
    <3> QED
      BY <2>1, <2>2, <3>1
  <2> QED
    BY <1>2, <2>1, <2>3, <2>4 DEF t, l
<1> QED
  BY <1>3, <1>4

(* The messages that end in a buffer, unit by unit.                        *)
LEMMA EndingIsStepwise ==
  /\ MessagesEnding(<<>>) = <<>>
  /\ \A s \in Seq(Unit), u \in Unit :
       /\ MessagesEnding(s) \in Seq(Message)
       /\ MessagesEnding(Append(s, u)) =
            IF EndsLine(u) THEN Append(MessagesEnding(s), u.of) ELSE MessagesEnding(s)
<1> DEFINE Next1(x, u) == IF EndsLine(u) THEN Append(x, u.of) ELSE x
           R(units) == CHOOSE ending : ending =
             [n \in 0 .. Len(units) |->
                IF n = 0 THEN <<>>
                ELSE IF EndsLine(units[n]) THEN Append(ending[n - 1], units[n].of)
                ELSE ending[n - 1]]
<1>0. \A x \in Seq(Message), u \in Unit : Next1(x, u) \in Seq(Message)
  BY AppendProperties DEF Unit
<1>1. ASSUME NEW units \in Seq(Unit)
      PROVE  /\ R(units) = [n \in 0 .. Len(units) |->
                  IF n = 0 THEN <<>>
                  ELSE IF EndsLine(units[n]) THEN Append(R(units)[n - 1], units[n].of)
                  ELSE R(units)[n - 1]]
             /\ R(units)[Len(units)] \in Seq(Message)
  <2> DEFINE step == [x \in Seq(Message) \X (1 .. Len(units)) |-> Next1(x[1], units[x[2]])]
             N == Len(units)
  <2>1. N \in Nat
    BY LenProperties
  <2>2. ASSUME NEW x \in Seq(Message) \X (1 .. N)
        PROVE  Next1(x[1], units[x[2]]) \in Seq(Message)
    <3>1. x[1] \in Seq(Message) /\ units[x[2]] \in Unit
      BY ElementOfSeq
    <3> HIDE DEF Next1
    <3> QED
      BY <1>0, <3>1
  <2>3. step \in [Seq(Message) \X (1 .. N) -> Seq(Message)]
    <3> HIDE DEF Next1
    <3> QED
      BY <2>2
  <2>4. \A a \in Seq(Message), n \in 1 .. N : step[<<a, n>>] = Next1(a, units[n])
    OBVIOUS
  <2> HIDE DEF step
  <2>5. Made(Seq(Message), <<>>, N, step) # {}
    <3> HIDE DEF R, Next1
    <3>1. N \in Nat /\ step \in [Seq(Message) \X (1 .. N) -> Seq(Message)]
          /\ <<>> \in Seq(Message)
      BY <2>1, <2>3
    <3> HIDE DEF N
    <3> QED
      BY <3>1, RecursionIsDefined
  <2>6. PICK g \in [0 .. N -> Seq(Message)] :
          g[0] = <<>> /\ \A n \in 1 .. N : g[n] = step[<<g[n - 1], n>>]
    BY <2>5 DEF Made
  <2> HIDE DEF R
  <2> DEFINE f == [n \in 0 .. N |->
                IF n = 0 THEN <<>>
                ELSE IF EndsLine(units[n]) THEN Append(g[n - 1], units[n].of)
                ELSE g[n - 1]]
  <2>7. ASSUME NEW n \in 0 .. N PROVE f[n] = g[n]
    <3>1. CASE n = 0
      BY <2>6, <3>1
    <3>2. CASE n # 0
      <4>1. n \in 1 .. N /\ n - 1 \in 0 .. N
        BY <2>1, <3>2
      <4>2. g[n - 1] \in Seq(Message) /\ g[n] = step[<<g[n - 1], n>>]
        BY <2>6, <4>1
      <4>3. g[n] = Next1(g[n - 1], units[n])
        BY <2>4, <4>1, <4>2
      <4> QED
        BY <3>2, <4>3
    <3> QED
      BY <3>1, <3>2
  <2>8. g = f
    <3>1. g = [n \in 0 .. N |-> g[n]] /\ f = [n \in 0 .. N |-> f[n]]
      OBVIOUS
    <3> HIDE DEF f
    <3> QED
      BY <2>7, <3>1
  <2>9. R(units) = [n \in 0 .. N |->
                  IF n = 0 THEN <<>>
                  ELSE IF EndsLine(units[n]) THEN Append(R(units)[n - 1], units[n].of)
                  ELSE R(units)[n - 1]]
    BY <2>8 DEF R
  <2>10. R(units)[N] \in Seq(Message)
    <3> DEFINE r == R(units)
    <3>1. \A n \in 0 .. N : r[n] = IF n = 0 THEN <<>> ELSE IF EndsLine(units[n]) THEN Append(r[n - 1], units[n].of)
                  ELSE r[n - 1]
      BY <2>9
    <3> DEFINE Reached == {n \in Nat : n <= N => r[n] \in Seq(Message)}
    <3> HIDE DEF r
    <3>2. 0 \in Reached
      <4>1. 0 \in 0 .. N
        BY <2>1
      <4>2. r[0] = <<>>
        BY <3>1, <4>1
      <4>3. <<>> \in Seq(Message)
        OBVIOUS
      <4> QED
        BY <4>2, <4>3
    <3>3. ASSUME NEW n \in Reached PROVE n + 1 \in Reached
      <4> SUFFICES ASSUME n + 1 <= N PROVE r[n + 1] \in Seq(Message)
        OBVIOUS
      <4>1. n + 1 \in 0 .. N /\ n + 1 # 0 /\ (n + 1) - 1 = n /\ n + 1 \in 1 .. N
        BY <2>1
      <4>2. r[n] \in Seq(Message) /\ units[n + 1] \in Unit
        BY <2>1, <4>1, ElementOfSeq
      <4>3. r[n + 1] = Next1(r[n], units[n + 1])
        BY <3>1, <4>1
      <4> HIDE DEF Next1
      <4> QED
        BY <1>0, <4>2, <4>3
    <3>4. N \in Reached
      <4>1. Reached \in SUBSET Nat
        OBVIOUS
      <4> HIDE DEF Reached, N
      <4> QED
        BY <2>1, <3>2, <3>3, <4>1, EveryNaturalIsReached
    <3> QED
      BY <3>4 DEF r
  <2> QED
    BY <2>9, <2>10
<1>2. \A units : MessagesEnding(units) = R(units)[Len(units)]
  BY DEF MessagesEnding
<1>3. MessagesEnding(<<>>) = <<>>
  <2>1. <<>> \in Seq(Unit) /\ Len(<<>>) = 0 /\ 0 \in 0 .. Len(<<>>)
    OBVIOUS
  <2> HIDE DEF R
  <2> DEFINE r == R(<<>>)
  <2>2. r = [n \in 0 .. Len(<<>>) |->
                  IF n = 0 THEN <<>>
                  ELSE IF EndsLine(<<>>[n]) THEN Append(r[n - 1], <<>>[n].of)
                  ELSE r[n - 1]]
    BY <1>1, <2>1
  <2>3. r[0] = <<>>
    <3> HIDE DEF r
    <3> QED
      BY <2>1, <2>2
  <2> QED
    BY <1>2, <2>1, <2>3
<1>4. ASSUME NEW s \in Seq(Unit), NEW u \in Unit
      PROVE  MessagesEnding(Append(s, u)) = Next1(MessagesEnding(s), u)
  <2> DEFINE t == Append(s, u)
             l == Len(s)
             g == R(s)
             h == R(t)
  <2>1. /\ t \in Seq(Unit) /\ Len(t) = l + 1 /\ l \in Nat
        /\ \A i \in 1 .. l : t[i] = s[i]
        /\ t[l + 1] = u
    BY AppendProperties, LenProperties
  <2>2. /\ \A n \in 0 .. l : g[n] = IF n = 0 THEN <<>> ELSE Next1(g[n - 1], s[n])
        /\ \A n \in 0 .. l + 1 : h[n] = IF n = 0 THEN <<>> ELSE Next1(h[n - 1], t[n])
    <3> HIDE DEF R, t
    <3> QED
      BY <1>1, <2>1
  <2>3. MessagesEnding(s) = g[l] /\ MessagesEnding(t) = h[l + 1]
    <3> HIDE DEF R, t
    <3> QED
      BY <1>2, <2>1
  <2> HIDE DEF R, t, l, g, h, Next1
  <2>4. g[l] = h[l]
    <3>1. g[0] = h[0]
      <4>1. 0 \in 0 .. l /\ 0 \in 0 .. l + 1
        BY <2>1
      <4> QED
        BY <2>2, <4>1
    <3>2. ASSUME NEW n \in 1 .. l, g[n - 1] = h[n - 1] PROVE g[n] = h[n]
      <4>1. n \in 0 .. l /\ n \in 0 .. l + 1 /\ n # 0
        BY <2>1
      <4> QED
        BY <2>1, <2>2, <3>2, <4>1
    <3>3. \A n \in 1 .. l : g[n - 1] = h[n - 1] => g[n] = h[n]
      BY <3>2
    <3> QED
      BY <2>1, <3>1, <3>3, RecursionIsUnique
  <2>5. h[l + 1] = Next1(h[l], u)
    <3>1. l + 1 \in 0 .. l + 1 /\ l + 1 # 0 /\ (l + 1) - 1 = l
      BY <2>1
    <3> QED
      BY <2>1, <2>2, <3>1
  <2> QED
    BY <2>3, <2>4, <2>5 DEF t
<1>5. \A s \in Seq(Unit) : MessagesEnding(s) \in Seq(Message)
  <2> HIDE DEF R
  <2> QED
    BY <1>1, <1>2
<1> QED
  BY <1>3, <1>4, <1>5

(* The first unit of what is left to read.                                 *)
LEMMA NextUnit ==
  ASSUME NEW s \in Seq(Unit), NEW u \in Unit, NEW rest \in Seq(Unit)
  PROVE  /\ Append(s, u) \in Seq(Unit) /\ <<u>> \o rest \in Seq(Unit)
         /\ Append(s, u) \o rest = s \o (<<u>> \o rest)
         /\ <<u>> \o rest # <<>> /\ (<<u>> \o rest)[1] = u /\ Tail(<<u>> \o rest) = rest
<1>1. <<u>> \in Seq(Unit) /\ Len(<<u>>) = 1 /\ <<u>>[1] = u
  OBVIOUS
<1>2. Append(s, u) \in Seq(Unit) /\ Append(s, u) = s \o <<u>>
  BY AppendProperties, AppendIsConcat
<1>3. /\ <<u>> \o rest \in Seq(Unit) /\ Len(<<u>> \o rest) = 1 + Len(rest)
      /\ \A i \in 1 .. 1 + Len(rest) :
           (<<u>> \o rest)[i] = IF i <= 1 THEN <<u>>[i] ELSE rest[i - 1]
  BY <1>1, ConcatProperties
<1>4. (s \o <<u>>) \o rest = s \o (<<u>> \o rest)
  BY <1>1, ConcatAssociative
<1> DEFINE t == <<u>> \o rest
<1>5. Len(rest) \in Nat
  BY LenProperties
<1> HIDE DEF t
<1>6. t # <<>> /\ t[1] = u
  <2>1. 1 \in 1 .. 1 + Len(rest)
    BY <1>5
  <2>2. t[1] = u
    BY <1>1, <1>3, <2>1 DEF t
  <2>3. Len(t) # 0
    BY <1>3, <1>5 DEF t
  <2> QED
    BY <1>3, <2>2, <2>3, EmptySeq DEF t
<1>7. Tail(t) = rest
  <2>1. /\ t \in Seq(Unit) /\ Tail(t) \in Seq(Unit) /\ Len(Tail(t)) = Len(t) - 1
        /\ \A i \in 1 .. Len(t) - 1 : Tail(t)[i] = t[i + 1]
    BY <1>3, <1>6, FirstUnits DEF t
  <2>2. Len(Tail(t)) = Len(rest)
    BY <1>3, <1>5, <2>1 DEF t
  <2>3. ASSUME NEW i \in 1 .. Len(rest) PROVE Tail(t)[i] = rest[i]
    <3>1. i \in 1 .. Len(t) - 1 /\ i + 1 \in 1 .. 1 + Len(rest) /\ ~(i + 1 <= 1)
          /\ (i + 1) - 1 = i
      BY <1>3, <1>5 DEF t
    <3>2. t[i + 1] = rest[(i + 1) - 1]
      BY <1>3, <3>1 DEF t
    <3> QED
      BY <2>1, <3>1, <3>2
  <2> QED
    BY <2>1, <2>2, <2>3, SeqEqual
<1> QED
  BY <1>2, <1>3, <1>4, <1>6, <1>7 DEF t

(* A reader in step reads any part of what is to come and stays in step.   *)
LEMMA ReadingKeepsInStep ==
  ASSUME NEW assembler \in Assembler, NEW units \in Seq(Unit), NEW rest \in Seq(Unit),
         InStep(assembler, units \o rest)
  PROVE  InStep(ReadBy(assembler, units), rest)
<1> DEFINE Readable(s) == \A r \in Seq(Unit) :
             InStep(assembler, s \o r) => InStep(ReadBy(assembler, s), r)
           T == {s \in Seq(Unit) : Readable(s)}
<1>1. <<>> \in T
  <2>1. \A r \in Seq(Unit) : <<>> \o r = r
    BY ConcatEmptySeq
  <2> QED
    BY <2>1, ReadingIsStepwise
<1>2. ASSUME NEW s \in T, NEW u \in Unit PROVE Append(s, u) \in T
  <2>1. s \in Seq(Unit) /\ Append(s, u) \in Seq(Unit)
    BY AppendProperties
  <2>2. ASSUME NEW r \in Seq(Unit), InStep(assembler, Append(s, u) \o r)
        PROVE  InStep(ReadBy(assembler, Append(s, u)), r)
    <3> DEFINE t == <<u>> \o r
    <3>1. /\ t \in Seq(Unit) /\ t # <<>> /\ t[1] = u /\ Tail(t) = r
          /\ Append(s, u) \o r = s \o t
      BY SMTT(20), <2>1, NextUnit
    <3> HIDE DEF t
    <3>2. InStep(ReadBy(assembler, s), t)
      BY <2>2, <3>1
    <3>3. InStep(FeedNext(ReadBy(assembler, s), u), r)
      BY <3>1, <3>2, UnitIsRead
    <3> QED
      BY <2>1, <3>3, ReadingIsStepwise
  <2> QED
    BY <2>1, <2>2
<1>3. T = Seq(Unit)
  <2>1. T \in SUBSET Seq(Unit)
    OBVIOUS
  <2> HIDE DEF T
  <2> QED
    BY <1>1, <1>2, <2>1, EverySequenceIsReached
<1> QED
  BY <1>3

(* What a reader in step has and gets is whole messages.                   *)
LEMMA InStepIsWhole ==
  ASSUME NEW assembler, NEW units \in Seq(Unit), InStep(assembler, units)
  PROVE  /\ WellFramed(assembler.line \o units)
         /\ assembler.line \o units # <<>> => (assembler.line \o units)[1].at = 1
<1> DEFINE line == assembler.line
           l == Len(assembler.line)
           k == Len(units)
           s == assembler.line \o units
<1>1. line \in Seq(Unit) /\ l \in Nat /\ k \in Nat
  BY LenProperties DEF InStep, Assembler
<1>2. BeginsALine(line) /\ GoesOn(line, units)
  BY DEF InStep
<1>3. /\ s \in Seq(Unit) /\ Len(s) = l + k
      /\ \A i \in 1 .. l + k : s[i] = IF i <= l THEN line[i] ELSE units[i - l]
  BY <1>1, ConcatProperties
<1>4. CASE line = <<>>
  <2>1. s = units
    BY <1>1, <1>4, ConcatEmptySeq
  <2> QED
    BY <1>2, <1>4, <2>1 DEF GoesOn
<1>5. CASE line # <<>>
  <2> DEFINE m == line[1].of
             n == MessageUnits[line[1].of.verb]
  <2>1. /\ l < n
        /\ \A i \in 1 .. l : line[i] = [of |-> m, at |-> i]
        /\ units # <<>> /\ units[1] = [of |-> m, at |-> l + 1]
    BY <1>2, <1>5 DEF BeginsALine, GoesOn
  <2>2. l # 0 /\ k # 0
    BY <1>1, <1>5, <2>1, EmptySeq
  <2>3. n \in Nat
    <3>1. 1 \in 1 .. l
      BY <1>1, <2>2
    <3>2. m \in Message
      <4>1. line[1] \in Unit
        BY <1>1, <3>1, ElementOfSeq
      <4> QED
        BY <4>1 DEF Unit
    <3> QED
      BY <3>2, UnitsFacts
  <2> HIDE DEF m, n, s, line, l, k
  <2>4. \A i \in 1 .. l : s[i] = [of |-> m, at |-> i]
    <3>1. \A i \in 1 .. l : i \in 1 .. l + k /\ i <= l
      BY <1>1
    <3> QED
      BY <1>3, <2>1, <3>1
  <2>5. \A i \in 1 .. k : s[l + i] = units[i]
    <3>1. \A i \in 1 .. k : l + i \in 1 .. l + k /\ ~(l + i <= l) /\ (l + i) - l = i
      BY <1>1
    <3> QED
      BY <1>3, <3>1
  <2>6. s[1].at = 1
    <3>1. 1 \in 1 .. l
      BY <1>1, <2>2
    <3>2. s[1] = [of |-> m, at |-> 1]
      BY <2>4, <3>1
    <3> QED
      BY <3>2
  <2>7. EndsLine(s[Len(s)])
    <3>1. k \in 1 .. k /\ Len(s) = l + k
      BY <1>1, <1>3, <2>2
    <3>2. EndsLine(units[k])
      BY <1>2, <2>1 DEF GoesOn, WellFramed, k
    <3> QED
      BY <2>5, <3>1, <3>2
  <2>8. ASSUME NEW i \in 1 .. Len(s) - 1 PROVE Follows(s[i + 1], s[i])
    <3>1. CASE i <= l
      <4>1. s[i] = [of |-> m, at |-> i]
        BY <1>1, <1>3, <2>4, <3>1
      <4>2. s[i + 1] = [of |-> m, at |-> i + 1]
        <5>1. CASE i < l
          <6>1. i + 1 \in 1 .. l
            BY <1>1, <5>1
          <6> QED
            BY <2>4, <6>1
        <5>2. CASE i = l
          <6>1. 1 \in 1 .. k
            BY <1>1, <2>2
          <6> QED
            BY <2>1, <2>5, <5>2, <6>1
        <5> QED
          BY <1>1, <3>1, <5>1, <5>2
      <4>3. i # n
        BY <1>1, <2>1, <2>3, <3>1
      <4>4. ~EndsLine(s[i])
        BY <4>1, <4>3 DEF EndsLine, n, m
      <4>5. s[i + 1].of = s[i].of /\ s[i + 1].at = s[i].at + 1
        BY <4>1, <4>2
      <4> QED
        BY <4>4, <4>5 DEF Follows
    <3>2. CASE i > l
      <4>1. PICK j \in 1 .. k - 1 : i = l + j
        <5>1. i - l \in 1 .. k - 1 /\ i = l + (i - l)
          BY <1>1, <1>3, <3>2
        <5> QED
          BY <5>1
      <4>2. j \in 1 .. k /\ j + 1 \in 1 .. k /\ i + 1 = l + (j + 1)
        BY <1>1, <4>1
      <4>3. s[i] = units[j] /\ s[i + 1] = units[j + 1]
        BY <2>5, <4>1, <4>2
      <4>4. Follows(units[j + 1], units[j])
        BY <1>2 DEF GoesOn, WellFramed, k
      <4> QED
        BY <4>3, <4>4
    <3> QED
      BY <1>1, <1>3, <3>1, <3>2
  <2> QED
    BY <2>6, <2>7, <2>8 DEF WellFramed, s, line
<1> QED
  BY <1>4, <1>5

-----------------------------------------------------------------------------
(* What the output and its reader are together.                            *)

HostInStep == InStep(host, output)

(* A message queued, if it is, leaves the reader in step.                  *)
LEMMA QueueKeepsInStep ==
  ASSUME HostInStep, output \in Seq(Unit), UNCHANGED host, NEW count,
         NEW m \in Message, m.verb # "NOISE", QueueMessage(output, count, m)
  PROVE  HostInStep'
<1>1. GoesOn(host.line, output \o Units(m))
  BY MessageGoesBehind DEF HostInStep, InStep
<1>2. output' = output \/ output' = output \o Units(m)
  BY DEF QueueMessage
<1>3. CASE output' = output
  BY <1>3 DEF HostInStep, InStep, GoesOn, WellFramed, Follows, BeginsALine, EndsLine
<1>4. CASE output' = output \o Units(m)
  BY <1>1, <1>4 DEF HostInStep, InStep
<1> QED
  BY <1>2, <1>3, <1>4

(* So does a HELLO in place of whatever waited, since no line was begun.   *)
LEMMA HelloKeepsInStep ==
  ASSUME IInv, SendHello, host'.line = <<>>, host' = EmptyAssembler
  PROVE  HostInStep'
<1>1. screen_locked \in BOOLEAN
  BY DEF IInv, TypeOK
<1>2. output' = <<>> \/ output' = Units(Hello(screen_locked))
  BY <1>1, SendHelloFacts
<1>3. Hello(screen_locked) \in Message /\ Hello(screen_locked).verb # "NOISE"
  BY <1>1, SessionMessages DEF Hello
<1>4. InStep(EmptyAssembler, output')
  BY <1>2, <1>3, ReaderIsFresh
<1> QED
  BY <1>4 DEF HostInStep

(* Every step keeps the host in step with the output.                      *)
LEMMA StepKeepsHostInStep ==
  IInv /\ HostInStep /\ [TraceNext]_traceVars => HostInStep'
<1> SUFFICES ASSUME IInv, HostInStep, [TraceNext]_traceVars PROVE HostInStep'
  OBVIOUS
<1>1. output \in Seq(Unit) /\ host \in Assembler /\ screen_locked \in BOOLEAN
  BY DEF IInv, TypeOK, HostInStep, InStep
<1>2. ASSUME UNCHANGED <<output, host>> PROVE HostInStep'
  BY <1>2 DEF HostInStep
<1>3. CASE TraceDrain
  <2> DEFINE t == Taken(PacketUnits)
             front == SubSeq(output, 1, t)
             back == SubSeq(output, t + 1, Len(output))
  <2>1. Len(output) \in Nat /\ t \in 0 .. Len(output)
    BY <1>1, LenProperties, SessionAssumption DEF Taken
  <2>2. output' = back /\ host' = ReadBy(host, front)
    BY <1>3 DEF TraceDrain, Drain, TakeOutput
  <2> HIDE DEF t
  <2>3. front \in Seq(Unit) /\ back \in Seq(Unit) /\ front \o back = output
    BY <1>1, <2>1, CutInTwo
  <2> HIDE DEF front, back
  <2>4. InStep(ReadBy(host, front), back)
    BY <1>1, <2>3, ReadingKeepsInStep DEF HostInStep
  <2> QED
    BY <2>2, <2>4 DEF HostInStep
<1>4. CASE TraceOpen
  <2>1. SendHello /\ host' = EmptyAssembler /\ host'.line = <<>>
    BY <1>4 DEF TraceOpen, PortOpened, EmptyAssembler
  <2> QED
    BY <2>1, HelloKeepsInStep
<1>5. CASE TraceClose
  BY <1>5, ReaderIsFresh DEF TraceClose, PortClosed, HostInStep
<1>6. CASE AppTick /\ UNCHANGED host
  <2>1. CASE UNCHANGED output
    BY <1>2, <1>6, <2>1
  <2>2. CASE link_state = "Handshaking" /\ SendHello
    <3>1. output = <<>> \/ output[1].at = 1
      <4>1. ASSUME NEW locked \in BOOLEAN, output = Units(Hello(locked)) PROVE output[1].at = 1
        <5>1. Hello(locked) \in Message /\ 1 \in 1 .. MessageUnits[Hello(locked).verb]
          BY SessionMessages, UnitsFacts
        <5>2. output[1] = [of |-> Hello(locked), at |-> 1]
          BY <4>1, <5>1, UnitsFacts
        <5> QED
          BY <5>2
      <4> QED
        BY <2>2, <4>1 DEF IInv, OnlyHelloWhileHandshaking
    <3>2. host.line = <<>>
      BY <1>1, <3>1, NothingIsBegun DEF HostInStep, InStep, Assembler
    <3>3. host = EmptyAssembler
      BY <1>1, <3>2 DEF HostInStep, InStep, Assembler, EmptyAssembler
    <3> QED
      BY <1>6, <2>2, <3>2, <3>3, HelloKeepsInStep
  <2> QED
    BY <1>6, <2>1, <2>2 DEF AppTick, Tick
<1>7. CASE AppReport /\ UNCHANGED host
  <2>1. PICK press \in Press, foregrounded \in BOOLEAN : ReportEvent(press, foregrounded)
    BY <1>7 DEF AppReport
  <2>2. Button(press) \in Message /\ Button(press).verb # "NOISE"
    BY SessionMessages DEF Button
  <2>3. UNCHANGED output \/ QueueMessage(output, output_message_count, Button(press))
    BY <2>1 DEF ReportEvent
  <2> QED
    BY <1>1, <1>2, <1>7, <2>2, <2>3, QueueKeepsInStep
<1>8. CASE AppLock /\ UNCHANGED host
  <2>1. PICK locked \in BOOLEAN : LockChanged(locked)
    BY <1>8 DEF AppLock
  <2>2. State(locked) \in Message /\ State(locked).verb # "NOISE"
    BY SessionMessages DEF State
  <2>3. UNCHANGED output \/ QueueMessage(output, output_message_count, State(locked))
    BY <2>1 DEF LockChanged
  <2> QED
    BY <1>1, <1>2, <1>8, <2>2, <2>3, QueueKeepsInStep
<1>9. CASE HostReceive /\ UNCHANGED host
  BY <1>2, <1>9 DEF HostReceive, Receive
<1>10. CASE UNCHANGED traceVars
  BY <1>2, <1>10 DEF traceVars, vars
<1> QED
  BY <1>3, <1>4, <1>5, <1>6, <1>7, <1>8, <1>9, <1>10 DEF TraceNext, TraceOther

(* The history variable only observes.                                     *)
LEMMA TraceRefines == [TraceNext]_traceVars => [Next]_vars
BY DEF TraceNext, TraceDrain, TraceOpen, TraceClose, TraceOther, Next, traceVars

(* Every line the host reads is the encoding of one message: none is cut,  *)
(* run into the next or lost, however the output was drained or cleared.   *)
THEOREM LinesStayWhole == TraceSpec => []WholeLines
<1>1. TraceInit => IInv /\ HostInStep
  BY InitIInv, ReaderIsFresh DEF TraceInit, Init, HostInStep
<1>2. IInv /\ HostInStep /\ [TraceNext]_traceVars => (IInv /\ HostInStep)'
  BY StepIInv, TraceRefines, StepKeepsHostInStep
<1>3. IInv /\ HostInStep => WholeLines
  <2> SUFFICES ASSUME IInv, HostInStep PROVE WholeLines
    OBVIOUS
  <2>1. output \in Seq(Unit)
    BY DEF IInv, TypeOK
  <2> QED
    BY <2>1, InStepIsWhole DEF HostInStep, InStep, WholeLines
<1> QED
  BY <1>1, <1>2, <1>3, PTL DEF TraceSpec

-----------------------------------------------------------------------------
(* Lemmas about the messages that end in a buffer.                         *)

(* Appending to a part of a sequence, and to the whole.                    *)
LEMMA AppendAfter ==
  ASSUME NEW S, NEW s \in Seq(S), NEW t \in Seq(S), NEW e \in S
  PROVE  s \o Append(t, e) = Append(s \o t, e) /\ s \o t \in Seq(S)
<1>1. <<e>> \in Seq(S) /\ s \o t \in Seq(S)
  BY ConcatProperties
<1>2. s \o Append(t, e) = s \o (t \o <<e>>)
  BY AppendIsConcat
<1>3. s \o (t \o <<e>>) = (s \o t) \o <<e>>
  BY <1>1, ConcatAssociative
<1>4. (s \o t) \o <<e>> = Append(s \o t, e)
  BY <1>1, AppendIsConcat
<1> QED
  BY <1>1, <1>2, <1>3, <1>4

(* Those of two buffers joined are those of the one, then of the other.    *)
LEMMA EndingsJoin ==
  ASSUME NEW s \in Seq(Unit), NEW t \in Seq(Unit)
  PROVE  MessagesEnding(s \o t) = MessagesEnding(s) \o MessagesEnding(t)
<1> DEFINE Joins(r) == MessagesEnding(s \o r) = MessagesEnding(s) \o MessagesEnding(r)
           T == {r \in Seq(Unit) : Joins(r)}
<1>1. MessagesEnding(s) \in Seq(Message)
  BY EndingIsStepwise
<1>2. <<>> \in T
  <2>1. s \o <<>> = s /\ MessagesEnding(s) \o <<>> = MessagesEnding(s)
    BY <1>1, ConcatEmptySeq
  <2> QED
    BY <2>1, EndingIsStepwise
<1>3. ASSUME NEW r \in T, NEW u \in Unit PROVE Append(r, u) \in T
  <2>1. /\ r \in Seq(Unit) /\ Append(r, u) \in Seq(Unit)
        /\ s \o r \in Seq(Unit) /\ s \o Append(r, u) = Append(s \o r, u)
    BY AppendProperties, AppendAfter
  <2>2. MessagesEnding(s \o r) = MessagesEnding(s) \o MessagesEnding(r)
    OBVIOUS
  <2>3. MessagesEnding(r) \in Seq(Message) /\ u.of \in Message
    BY <2>1, EndingIsStepwise DEF Unit
  <2>4. Joins(Append(r, u))
    <3>1. CASE EndsLine(u)
      <4>1. MessagesEnding(s \o Append(r, u)) = Append(MessagesEnding(s \o r), u.of)
        BY <2>1, <3>1, EndingIsStepwise
      <4>2. MessagesEnding(Append(r, u)) = Append(MessagesEnding(r), u.of)
        BY <2>1, <3>1, EndingIsStepwise
      <4>3. MessagesEnding(s) \o Append(MessagesEnding(r), u.of)
              = Append(MessagesEnding(s) \o MessagesEnding(r), u.of)
        BY <1>1, <2>3, AppendAfter
      <4> QED
        BY <2>2, <4>1, <4>2, <4>3
    <3>2. CASE ~EndsLine(u)
      <4>1. MessagesEnding(s \o Append(r, u)) = MessagesEnding(s \o r)
        BY <2>1, <3>2, EndingIsStepwise
      <4>2. MessagesEnding(Append(r, u)) = MessagesEnding(r)
        BY <2>1, <3>2, EndingIsStepwise
      <4> QED
        BY <2>2, <4>1, <4>2
    <3> QED
      BY <3>1, <3>2
  <2> QED
    BY <2>1, <2>4
<1>4. T = Seq(Unit)
  <2>1. T \in SUBSET Seq(Unit)
    OBVIOUS
  <2> HIDE DEF T
  <2> QED
    BY <1>2, <1>3, <2>1, EverySequenceIsReached
<1> QED
  BY <1>4

(* There are as many as line feeds.                                        *)
LEMMA EndingsAreCounted ==
  ASSUME NEW units \in Seq(Unit)
  PROVE  Len(MessagesEnding(units)) = Cardinality(Terminators(units))
<1> DEFINE Counted(s) == Len(MessagesEnding(s)) = Cardinality(Terminators(s))
           T == {s \in Seq(Unit) : Counted(s)}
<1>1. <<>> \in T
  BY EndingIsStepwise, NoTerminators
<1>2. ASSUME NEW s \in T, NEW u \in Unit PROVE Append(s, u) \in T
  <2> DEFINE l == Len(s)
             t == Append(s, u)
  <2>1. /\ s \in Seq(Unit) /\ t \in Seq(Unit) /\ l \in Nat /\ Len(t) = l + 1
        /\ DOMAIN s = 1 .. l /\ DOMAIN t = 1 .. l + 1
        /\ \A i \in 1 .. l : t[i] = s[i]
        /\ t[l + 1] = u
    <3>1. s \in Seq(Unit)
      OBVIOUS
    <3>2. /\ t \in Seq(Unit) /\ Len(t) = l + 1
          /\ \A i \in 1 .. l : t[i] = s[i]
          /\ t[l + 1] = u
      BY <3>1, AppendProperties
    <3> HIDE DEF t
    <3> QED
      BY <3>1, <3>2, LenProperties
  <2>2. Len(MessagesEnding(s)) = Cardinality(Terminators(s))
    OBVIOUS
  <2>3. IsFiniteSet(Terminators(s)) /\ Cardinality(Terminators(s)) \in Nat
    BY <2>1, TerminatorsFinite
  <2>4. MessagesEnding(s) \in Seq(Message) /\ u.of \in Message
    BY <2>1, EndingIsStepwise DEF Unit
  <2>5. CASE EndsLine(u)
    <3>1. MessagesEnding(t) = Append(MessagesEnding(s), u.of)
      BY <2>1, <2>5, EndingIsStepwise
    <3>2. Len(MessagesEnding(t)) = Len(MessagesEnding(s)) + 1
      BY <2>4, <3>1, AppendProperties
    <3> HIDE DEF t, l
    <3>3. Terminators(t) = Terminators(s) \cup {l + 1} /\ l + 1 \notin Terminators(s)
      BY <2>1, <2>5 DEF Terminators
    <3>4. Cardinality(Terminators(t)) = Cardinality(Terminators(s)) + 1
      BY <2>3, <3>3, FS_AddElement
    <3> QED
      BY <2>1, <2>2, <3>2, <3>4 DEF t
  <2>6. CASE ~EndsLine(u)
    <3>1. MessagesEnding(t) = MessagesEnding(s)
      BY <2>1, <2>6, EndingIsStepwise
    <3> HIDE DEF t, l
    <3>2. Terminators(t) = Terminators(s)
      BY <2>1, <2>6 DEF Terminators
    <3> QED
      BY <2>1, <2>2, <3>1, <3>2 DEF t
  <2> QED
    BY <2>5, <2>6
<1>3. T = Seq(Unit)
  <2>1. T \in SUBSET Seq(Unit)
    OBVIOUS
  <2> HIDE DEF T
  <2> QED
    BY <1>1, <1>2, <2>1, EverySequenceIsReached
<1> QED
  BY <1>3

(* In a message there is one, itself.                                      *)
LEMMA AMessageEndsOnce ==
  ASSUME NEW m \in Message
  PROVE  MessagesEnding(Units(m)) = <<m>>
<1> DEFINE n == MessageUnits[m.verb]
<1>1. /\ n \in Nat \ {0} /\ Units(m) \in Seq(Unit) /\ Len(Units(m)) = n
      /\ \A i \in 1 .. n : Units(m)[i] = [of |-> m, at |-> i]
  BY UnitsFacts
<1>2. \A i \in 1 .. n : EndsLine(Units(m)[i]) <=> i = n
  <2>1. ASSUME NEW i \in 1 .. n PROVE Units(m)[i].of = m /\ Units(m)[i].at = i
    <3>1. Units(m)[i] = [of |-> m, at |-> i]
      BY <1>1
    <3> QED
      BY <3>1
  <2> QED
    BY <2>1 DEF EndsLine
<1>3. Units(m) # <<>>
  BY <1>1, EmptySeq
<1>4. PICK s \in Seq(Unit), u \in Unit : Units(m) = Append(s, u)
  BY <1>1, <1>3, SequenceEmptyOrAppend
<1>5. /\ Len(s) \in Nat /\ n = Len(s) + 1
      /\ \A i \in 1 .. Len(s) : s[i] = Units(m)[i]
      /\ u = Units(m)[n]
  <2>1. Len(s) \in Nat /\ n = Len(s) + 1
    BY <1>1, <1>4, AppendProperties, LenProperties
  <2> QED
    BY <1>1, <1>4, <2>1, AppendProperties
<1>6. EndsLine(u) /\ u.of = m
  <2>1. n \in 1 .. n
    BY <1>1
  <2>2. u = [of |-> m, at |-> n]
    BY <1>1, <1>5, <2>1
  <2>3. u.of = m
    BY <2>2
  <2>4. EndsLine(u)
    BY <1>2, <1>5, <2>1
  <2> QED
    BY <2>3, <2>4
<1>7. MessagesEnding(s) = <<>>
  <2>1. Terminators(s) = {}
    <3>1. DOMAIN s = 1 .. Len(s)
      BY LenProperties
    <3>2. ASSUME NEW i \in 1 .. Len(s) PROVE ~EndsLine(s[i])
      <4>1. i \in 1 .. n /\ i # n
        BY <1>1, <1>5
      <4> QED
        BY <1>2, <1>5, <4>1
    <3> QED
      BY <3>1, <3>2 DEF Terminators
  <2>2. Len(MessagesEnding(s)) = 0
    BY <2>1, EndingsAreCounted, FS_EmptySet
  <2>3. MessagesEnding(s) \in Seq(Message)
    BY EndingIsStepwise
  <2> QED
    BY <2>2, <2>3, EmptySeq
<1>8. MessagesEnding(Units(m)) = Append(<<>>, m)
  BY <1>4, <1>6, <1>7, EndingIsStepwise
<1> QED
  BY <1>8

(* Queueing a message puts it at the end.                                  *)
LEMMA EndingGoesBehind ==
  ASSUME NEW units \in Seq(Unit), NEW m \in Message
  PROVE  MessagesEnding(units \o Units(m)) = Append(MessagesEnding(units), m)
<1>1. Units(m) \in Seq(Unit) /\ MessagesEnding(units) \in Seq(Message)
  BY UnitsFacts, EndingIsStepwise
<1>2. MessagesEnding(units \o Units(m)) = MessagesEnding(units) \o <<m>>
  BY <1>1, EndingsJoin, AMessageEndsOnce
<1> QED
  BY <1>1, <1>2, AppendIsConcat

(* What is behind a part of a sequence.                                    *)
LEMMA TheRestOfAJoin ==
  ASSUME NEW S, NEW a \in Seq(S), NEW b \in Seq(S)
  PROVE  SubSeq(a \o b, Len(a) + 1, Len(a \o b)) = b
<1> DEFINE s == a \o b
           l == Len(a)
           k == Len(b)
           r == SubSeq(s, l + 1, l + k)
<1>1. /\ s \in Seq(S) /\ Len(s) = l + k /\ l \in Nat /\ k \in Nat
      /\ \A i \in 1 .. l + k : s[i] = IF i <= l THEN a[i] ELSE b[i - l]
  BY ConcatProperties, LenProperties
<1> HIDE DEF s
<1>2. \A i \in l + 1 .. l + k : s[i] \in S
  <2>1. \A i \in l + 1 .. l + k : i \in 1 .. Len(s)
    BY <1>1
  <2> QED
    BY <1>1, <2>1, ElementOfSeq
<1>3. /\ r \in Seq(S)
      /\ Len(r) = IF l + 1 <= l + k THEN (l + k) - (l + 1) + 1 ELSE 0
      /\ \A i \in 1 .. (l + k) - (l + 1) + 1 : r[i] = s[(l + 1) + i - 1]
  <2>1. l + 1 \in Int /\ l + k \in Int
    BY <1>1
  <2> QED
    BY <1>2, <2>1, SubSeqProperties
<1> HIDE DEF r
<1>4. Len(r) = k
  BY <1>1, <1>3
<1>5. ASSUME NEW i \in 1 .. k PROVE r[i] = b[i]
  <2>1. i \in 1 .. (l + k) - (l + 1) + 1 /\ (l + 1) + i - 1 = l + i
        /\ l + i \in 1 .. l + k /\ ~(l + i <= l) /\ (l + i) - l = i
    BY <1>1
  <2>2. r[i] = s[(l + 1) + i - 1]
    BY <1>3, <2>1
  <2>3. s[l + i] = b[(l + i) - l]
    BY <1>1, <2>1
  <2> QED
    BY <2>1, <2>2, <2>3
<1>6. r = b
  BY <1>3, <1>4, <1>5, SeqEqual
<1> QED
  BY <1>1, <1>6 DEF r, s

-----------------------------------------------------------------------------
(***************************************************************************)
(* The byte backstop of queue_message never binds.                         *)
(*                                                                         *)
(* The length of a buffer is not a function of its message count, since a  *)
(* partial drain may have left any part of a message in front.  What makes *)
(* the bound inductive is to state it of every suffix of the buffer: a     *)
(* suffix is no longer than MaxLineUnits for each line feed in it.  A      *)
(* drain leaves a suffix, whose suffixes are suffixes of the buffer.       *)
(***************************************************************************)

(* The line feeds after the first t units.                                 *)
TerminatorsAfter(units, t) == {i \in DOMAIN units : i > t /\ EndsLine(units[i])}

EverySuffixBounded(units) ==
  \A t \in 0 .. Len(units) :
    Len(units) - t <= MaxLineUnits * Cardinality(TerminatorsAfter(units, t))

LEMMA TerminatorsAfterFinite ==
  ASSUME NEW units \in Seq(Unit), NEW t
  PROVE  /\ IsFiniteSet(TerminatorsAfter(units, t))
         /\ Cardinality(TerminatorsAfter(units, t)) \in Nat
         /\ TerminatorsAfter(units, 0) = Terminators(units)
<1>1. IsFiniteSet(1 .. Len(units)) /\ DOMAIN units = 1 .. Len(units)
  BY FS_Interval, LenProperties
<1>2. TerminatorsAfter(units, t) \in SUBSET (1 .. Len(units))
  BY <1>1 DEF TerminatorsAfter
<1>3. TerminatorsAfter(units, 0) = Terminators(units)
  BY <1>1 DEF TerminatorsAfter, Terminators
<1> QED
  BY <1>1, <1>2, <1>3, FS_Subset, FS_CardinalityType

(* What the session sends is no noise, so it is within the line bound.     *)
LEMMA AppendKeepsSuffixesBounded ==
  ASSUME NEW units \in Seq(Unit), EverySuffixBounded(units),
         NEW m \in Message, MessageUnits[m.verb] <= MaxLineUnits
  PROVE  EverySuffixBounded(units \o Units(m))
<1> DEFINE n == MessageUnits[m.verb]
           s == units \o Units(m)
           l == Len(units)
<1>1. n \in Nat \ {0} /\ n <= MaxLineUnits /\ MaxLineUnits \in Nat /\ l \in Nat
  BY UnitsFacts, WireAssumption
<1>2. /\ Units(m) \in Seq(Unit) /\ Len(Units(m)) = n
      /\ Units(m)[n] = [of |-> m, at |-> n]
  <2>1. n \in 1 .. n
    BY <1>1
  <2> QED
    BY <2>1, UnitsFacts
<1>3. /\ s \in Seq(Unit) /\ Len(s) = l + n
      /\ \A i \in 1 .. l : s[i] = units[i]
      /\ s[l + n] = Units(m)[n]
  <2>1. /\ s \in Seq(Unit) /\ Len(s) = l + Len(Units(m))
        /\ \A i \in 1 .. l + Len(Units(m)) :
             s[i] = IF i <= l THEN units[i] ELSE Units(m)[i - l]
    <3>1. Units(m) \in Seq(Unit)
      BY <1>2
    <3> HIDE DEF n
    <3> QED
      BY <3>1, ConcatProperties
  <2>2. l + n \in 1 .. l + n /\ ~(l + n <= l) /\ (l + n) - l = n
    BY <1>1
  <2>3. \A i \in 1 .. l : i \in 1 .. l + n /\ i <= l
    BY <1>1
  <2> HIDE DEF s, n, l
  <2> QED
    BY <1>2, <2>1, <2>2, <2>3
<1>4. EndsLine(s[l + n])
  BY <1>2, <1>3 DEF EndsLine
<1>5. DOMAIN s = 1 .. l + n /\ DOMAIN units = 1 .. l
  BY <1>3, LenProperties
<1> HIDE DEF s, n
<1> SUFFICES ASSUME NEW t \in 0 .. Len(s)
             PROVE  Len(s) - t <= MaxLineUnits * Cardinality(TerminatorsAfter(s, t))
  BY DEF EverySuffixBounded, s
<1>6. Cardinality(TerminatorsAfter(s, t)) \in Nat /\ IsFiniteSet(TerminatorsAfter(s, t))
  BY <1>3, TerminatorsAfterFinite
<1>7. CASE t <= l
  <2>1. TerminatorsAfter(units, t) \cup {l + n} \subseteq TerminatorsAfter(s, t)
    <3>1. l + n \in TerminatorsAfter(s, t)
      <4>1. l + n \in 1 .. l + n /\ l + n > t
        BY <1>1, <1>3, <1>7
      <4> QED
        BY <1>4, <1>5, <4>1 DEF TerminatorsAfter
    <3>2. ASSUME NEW i \in TerminatorsAfter(units, t) PROVE i \in TerminatorsAfter(s, t)
      <4>1. i \in 1 .. l /\ i > t /\ EndsLine(units[i])
        BY <1>5 DEF TerminatorsAfter
      <4>2. i \in 1 .. l + n /\ s[i] = units[i]
        BY <1>1, <1>3, <4>1
      <4> QED
        BY <1>5, <4>1, <4>2 DEF TerminatorsAfter
    <3> QED
      BY <3>1, <3>2
  <2>2. l + n \notin TerminatorsAfter(units, t)
    BY <1>1, <1>5 DEF TerminatorsAfter
  <2>3. Cardinality(TerminatorsAfter(units, t)) + 1 <= Cardinality(TerminatorsAfter(s, t))
    BY <1>6, <2>1, <2>2, TerminatorsAfterFinite, FS_AddElement, FS_Subset
  <2>4. l - t <= MaxLineUnits * Cardinality(TerminatorsAfter(units, t))
    BY <1>1, <1>3, <1>7 DEF EverySuffixBounded
  <2>5. ASSUME NEW a \in Nat, NEW b \in Nat, NEW k \in Nat, a + 1 <= b, NEW x \in Int, x <= k * a
        PROVE  x + k <= k * b
    <3>1. k * a + k = k * (a + 1)
      OBVIOUS
    <3>2. k * (a + 1) <= k * b
      BY <2>5
    <3> QED
      BY <2>5, <3>1, <3>2
  <2>6. (l - t) + MaxLineUnits <= MaxLineUnits * Cardinality(TerminatorsAfter(s, t))
    <3>1. Cardinality(TerminatorsAfter(units, t)) \in Nat /\ l - t \in Int
      BY <1>1, <1>3, TerminatorsAfterFinite
    <3> QED
      BY <1>1, <1>6, <2>3, <2>4, <2>5, <3>1
  <2>7. MaxLineUnits * Cardinality(TerminatorsAfter(s, t)) \in Nat
    BY <1>1, <1>6
  <2> QED
    BY <1>1, <1>3, <2>6, <2>7
<1>8. CASE t > l /\ t < l + n
  <2>1. {l + n} \subseteq TerminatorsAfter(s, t)
    BY <1>1, <1>4, <1>5, <1>8 DEF TerminatorsAfter
  <2>2. 1 <= Cardinality(TerminatorsAfter(s, t))
    <3>1. Cardinality({l + n}) = 1
      BY FS_Singleton
    <3>2. {l + n} \in SUBSET TerminatorsAfter(s, t)
      BY <2>1
    <3>3. Cardinality({l + n}) <= Cardinality(TerminatorsAfter(s, t))
      BY <1>6, <3>2, FS_Subset
    <3> QED
      BY <3>1, <3>3
  <2>3. MaxLineUnits <= MaxLineUnits * Cardinality(TerminatorsAfter(s, t))
    BY <1>1, <1>6, <2>2
  <2>4. MaxLineUnits * Cardinality(TerminatorsAfter(s, t)) \in Nat
    BY <1>1, <1>6
  <2> QED
    BY <1>1, <1>3, <1>8, <2>3, <2>4
<1>9. CASE t = l + n
  <2>1. MaxLineUnits * Cardinality(TerminatorsAfter(s, t)) \in Nat
    BY <1>1, <1>6
  <2> QED
    BY <1>1, <1>3, <1>9, <2>1
<1> QED
  BY <1>1, <1>3, <1>7, <1>8, <1>9

(* A suffix of the rest is a suffix of the whole.                          *)
LEMMA DrainKeepsSuffixesBounded ==
  ASSUME NEW units \in Seq(Unit), EverySuffixBounded(units), NEW k \in 0 .. Len(units)
  PROVE  EverySuffixBounded(SubSeq(units, k + 1, Len(units)))
<1> DEFINE rest == SubSeq(units, k + 1, Len(units))
           l == Len(units)
<1>1. /\ rest \in Seq(Unit) /\ Len(rest) = l - k
      /\ \A i \in DOMAIN rest : i + k \in DOMAIN units /\ rest[i] = units[i + k]
  BY DrainedTerminators
<1>2. l \in Nat /\ k \in Nat /\ k <= l
  BY LenProperties
<1>3. DOMAIN rest = 1 .. l - k /\ DOMAIN units = 1 .. l
  BY <1>1, LenProperties
<1> HIDE DEF rest
<1> SUFFICES ASSUME NEW t \in 0 .. Len(rest)
             PROVE  Len(rest) - t <= MaxLineUnits * Cardinality(TerminatorsAfter(rest, t))
  BY DEF EverySuffixBounded, rest
<1>4. t \in Nat /\ t <= l - k
  BY <1>1, <1>2
<1>5. l - (t + k) <= MaxLineUnits * Cardinality(TerminatorsAfter(units, t + k))
  <2>1. t + k \in 0 .. l
    BY <1>2, <1>4
  <2> QED
    BY <2>1 DEF EverySuffixBounded
<1>6. Cardinality(TerminatorsAfter(units, t + k)) <= Cardinality(TerminatorsAfter(rest, t))
  <2> DEFINE shift == [i \in TerminatorsAfter(units, t + k) |-> i - k]
  <2>1. ASSUME NEW i \in TerminatorsAfter(units, t + k)
        PROVE  i \in Nat /\ shift[i] \in TerminatorsAfter(rest, t)
    <3>1. i \in 1 .. l /\ i > t + k /\ EndsLine(units[i])
      BY <1>3 DEF TerminatorsAfter
    <3>2. i - k \in 1 .. l - k /\ i - k > t /\ (i - k) + k = i
      BY <1>2, <1>4, <3>1
    <3> QED
      BY <1>1, <1>3, <3>1, <3>2 DEF TerminatorsAfter
  <2>2. shift \in Injection(TerminatorsAfter(units, t + k), TerminatorsAfter(rest, t))
    BY <2>1, <1>2 DEF Injection, IsInjective
  <2>3. IsFiniteSet(TerminatorsAfter(rest, t))
    BY <1>1, TerminatorsAfterFinite
  <2> QED
    BY <2>2, <2>3, FS_Injection
<1>7. ASSUME NEW a \in Nat, NEW b \in Nat, a <= b
      PROVE  MaxLineUnits * a <= MaxLineUnits * b
  BY <1>7, WireAssumption
<1>8. /\ Cardinality(TerminatorsAfter(units, t + k)) \in Nat
      /\ Cardinality(TerminatorsAfter(rest, t)) \in Nat
  BY <1>1, TerminatorsAfterFinite
<1>9. /\ MaxLineUnits * Cardinality(TerminatorsAfter(units, t + k)) \in Nat
      /\ MaxLineUnits * Cardinality(TerminatorsAfter(rest, t)) \in Nat
  BY <1>8, WireAssumption
<1> QED
  BY <1>1, <1>2, <1>4, <1>5, <1>6, <1>7, <1>8, <1>9

(* An empty buffer has no suffix but itself.                               *)
LEMMA EmptyIsBounded == EverySuffixBounded(<<>>)
<1> SUFFICES ASSUME NEW t \in 0 .. Len(<<>>)
             PROVE  Len(<<>>) - t <= MaxLineUnits * Cardinality(TerminatorsAfter(<<>>, t))
  BY DEF EverySuffixBounded
<1>1. <<>> \in Seq(Unit) /\ Len(<<>>) = 0 /\ t = 0
  OBVIOUS
<1>2. Cardinality(TerminatorsAfter(<<>>, t)) \in Nat
  BY <1>1, TerminatorsAfterFinite
<1>3. MaxLineUnits * Cardinality(TerminatorsAfter(<<>>, t)) \in Nat
  BY <1>2, WireAssumption
<1> QED
  BY <1>1, <1>3

(* What the session says is no noise, so queueing it keeps the bound.      *)
LEMMA QueueKeepsSuffixesBounded ==
  ASSUME NEW units \in Seq(Unit), EverySuffixBounded(units), NEW count,
         NEW m \in Message, m.verb \in Verb \ {"NOISE"}, QueueMessage(units, count, m)
  PROVE  EverySuffixBounded(output)'
<1>1. MessageUnits[m.verb] <= MaxLineUnits
  BY WireAssumption
<1>2. EverySuffixBounded(units \o Units(m))
  BY <1>1, AppendKeepsSuffixesBounded
<1>3. output' = units \/ output' = units \o Units(m)
  BY DEF QueueMessage
<1>4. CASE output' = units
  BY <1>4 DEF EverySuffixBounded, TerminatorsAfter
<1>5. CASE output' = units \o Units(m)
  BY <1>2, <1>5 DEF EverySuffixBounded, TerminatorsAfter
<1> QED
  BY <1>3, <1>4, <1>5

LEMMA StepKeepsSuffixesBounded ==
  IInv /\ EverySuffixBounded(output) /\ [Next]_vars => EverySuffixBounded(output)'
<1> SUFFICES ASSUME IInv, EverySuffixBounded(output), [Next]_vars
             PROVE  EverySuffixBounded(output)'
  OBVIOUS
<1>1. output \in Seq(Unit) /\ screen_locked \in BOOLEAN
  BY DEF IInv, TypeOK
<1>2. ASSUME UNCHANGED output PROVE EverySuffixBounded(output)'
  BY <1>2 DEF EverySuffixBounded, TerminatorsAfter
<1>3. ASSUME SendHello PROVE EverySuffixBounded(output)'
  <2>1. /\ Hello(screen_locked) \in Message
        /\ Hello(screen_locked).verb \in Verb \ {"NOISE"}
    BY <1>1, SessionMessages DEF Hello, Verb
  <2>2. <<>> \in Seq(Unit)
    OBVIOUS
  <2> QED
    BY <1>3, <2>1, <2>2, EmptyIsBounded, QueueKeepsSuffixesBounded DEF SendHello
<1>4. CASE PortOpened
  BY <1>3, <1>4 DEF PortOpened
<1>5. CASE PortClosed
  <2>1. output' = <<>>
    BY <1>5 DEF PortClosed
  <2> QED
    BY <2>1, EmptyIsBounded DEF EverySuffixBounded, TerminatorsAfter
<1>6. CASE HostReceive
  BY <1>2, <1>6 DEF HostReceive, Receive
<1>7. CASE AppTick
  BY <1>2, <1>3, <1>7 DEF AppTick, Tick
<1>8. CASE AppReport
  <2>1. PICK press \in Press, foregrounded \in BOOLEAN : ReportEvent(press, foregrounded)
    BY <1>8 DEF AppReport
  <2>2. Button(press) \in Message /\ Button(press).verb \in Verb \ {"NOISE"}
    BY SessionMessages DEF Button, Verb
  <2>3. UNCHANGED output \/ QueueMessage(output, output_message_count, Button(press))
    BY <2>1 DEF ReportEvent
  <2> QED
    BY <1>1, <1>2, <2>2, <2>3, QueueKeepsSuffixesBounded
<1>9. CASE AppLock
  <2>1. PICK locked \in BOOLEAN : LockChanged(locked)
    BY <1>9 DEF AppLock
  <2>2. State(locked) \in Message /\ State(locked).verb \in Verb \ {"NOISE"}
    BY SessionMessages DEF State, Verb
  <2>3. UNCHANGED output \/ QueueMessage(output, output_message_count, State(locked))
    BY <2>1 DEF LockChanged
  <2> QED
    BY <1>1, <1>2, <2>2, <2>3, QueueKeepsSuffixesBounded
<1>10. CASE Drain
  <2>1. Taken(PacketUnits) \in 0 .. Len(output)
    BY <1>1, LenProperties, SessionAssumption DEF Taken
  <2>2. EverySuffixBounded(SubSeq(output, Taken(PacketUnits) + 1, Len(output)))
    BY <1>1, <2>1, DrainKeepsSuffixesBounded
  <2>3. output' = SubSeq(output, Taken(PacketUnits) + 1, Len(output))
    BY <1>10 DEF Drain, TakeOutput
  <2> QED
    BY <2>2, <2>3 DEF EverySuffixBounded, TerminatorsAfter
<1> QED
  BY <1>2, <1>4, <1>5, <1>6, <1>7, <1>8, <1>9, <1>10 DEF Next, vars

(* The whole buffer is a suffix: a buffer with a message to spare has room.*)
LEMMA SuffixesBoundTheBuffer ==
  IInv /\ EverySuffixBounded(output) => BackstopNeverBinds
<1> SUFFICES ASSUME IInv, EverySuffixBounded(output), output_message_count < QueueDepth
             PROVE  Len(output) + MaxLineUnits <= OutputCapacity
  BY DEF BackstopNeverBinds
<1>1. /\ output \in Seq(Unit) /\ Len(output) \in Nat
      /\ output_message_count \in Nat /\ MaxLineUnits \in Nat /\ QueueDepth \in Nat
  BY LenProperties, WireAssumption, SessionAssumption DEF IInv, TypeOK
<1>2. Len(output) <= MaxLineUnits * output_message_count
  <2>1. 0 \in 0 .. Len(output) /\ Len(output) - 0 = Len(output)
    BY <1>1
  <2>2. Len(output) - 0 <= MaxLineUnits * Cardinality(TerminatorsAfter(output, 0))
    BY <2>1 DEF EverySuffixBounded
  <2>3. TerminatorsAfter(output, 0) = Terminators(output)
    BY <1>1, TerminatorsAfterFinite
  <2> QED
    BY <2>1, <2>2, <2>3 DEF IInv, HonestCount
<1>3. MaxLineUnits * output_message_count + MaxLineUnits <= MaxLineUnits * QueueDepth
  <2>1. ASSUME NEW a \in Nat, NEW b \in Nat, NEW k \in Nat, a < b
        PROVE  k * a + k <= k * b
    <3>1. a + 1 <= b /\ k * (a + 1) = k * a + k
      BY <2>1
    <3>2. k * (a + 1) <= k * b
      BY <3>1
    <3> QED
      BY <3>1, <3>2
  <2> QED
    BY <1>1, <2>1
<1>4. /\ MaxLineUnits * output_message_count \in Nat
      /\ MaxLineUnits * QueueDepth \in Nat
  BY <1>1
<1> QED
  BY <1>1, <1>2, <1>3, <1>4 DEF OutputCapacity

(* The byte test of remote_session.c:50 is what its comment says, a        *)
(* backstop: a message is only ever dropped for the message count.         *)
THEOREM BackstopIsIdle == Spec => []BackstopNeverBinds
<1>1. Init => EverySuffixBounded(output)
  BY EmptyIsBounded DEF Init
<1> QED
  BY <1>1, StepKeepsSuffixesBounded, SuffixesBoundTheBuffer, Invariance, PTL DEF Spec

-----------------------------------------------------------------------------
(* The refinement.                                                         *)

(* The messages of the promise are those of the session.                   *)

LEMMA MirrorMessages ==
  /\ Mirror!BlankRecord = BlankRecord
  /\ Mirror!DisplayMessage = DisplayMessage
  /\ \A x : Mirror!Hello(x) = Hello(x) /\ Mirror!State(x) = State(x) /\ Mirror!Button(x) = Button(x)
BY DEF Mirror!BlankRecord, BlankRecord, Mirror!Display, Display,
   Mirror!DisplayMessage, DisplayMessage, Mirror!Error, Error,
   Mirror!Hello, Hello, Mirror!State, State, Mirror!Button, Button

LEMMA HelloIsOnItsWay ==
  ASSUME screen_locked \in BOOLEAN, SendHello
  PROVE  MessagesEnding(output') = <<Hello(screen_locked)>>
BY HelloIsSaid, SessionMessages, AMessageEndsOnce

(* A message of the session is queued exactly while the depth allows it.   *)
LEMMA MessageIsQueued ==
  ASSUME IInv, BackstopNeverBinds, NEW m \in Message, m.verb \in Verb \ {"NOISE"},
         QueueMessage(output, output_message_count, m)
  PROVE  MessagesEnding(output') = IF Len(MessagesEnding(output)) < QueueDepth
                                   THEN Append(MessagesEnding(output), m)
                                   ELSE MessagesEnding(output)
<1>1. /\ output \in Seq(Unit) /\ Len(output) \in Nat
      /\ output_message_count = Len(MessagesEnding(output))
  BY LenProperties, EndingsAreCounted DEF IInv, TypeOK, HonestCount
<1>2. MessageUnits[m.verb] \in Nat /\ MessageUnits[m.verb] <= MaxLineUnits /\ MaxLineUnits \in Nat
  BY WireAssumption
<1>3. OutputCapacity \in Nat
  BY WireAssumption, SessionAssumption DEF OutputCapacity
<1>4. Fits(output, output_message_count, m) <=> output_message_count < QueueDepth
  BY <1>1, <1>2, <1>3 DEF Fits, BackstopNeverBinds
<1>5. CASE output_message_count < QueueDepth
  BY <1>1, <1>4, <1>5, EndingGoesBehind DEF QueueMessage
<1>6. CASE ~(output_message_count < QueueDepth)
  BY <1>1, <1>4, <1>6 DEF QueueMessage
<1> QED
  BY <1>1, <1>4, <1>5, <1>6

(* It begins as the promise does.                                          *)
LEMMA MirrorBegins == Init => Mirror!Init
BY EndingIsStepwise, MirrorMessages DEF Init, Mirror!Init

(* The appliance reads the messages whose line feeds leave.                *)
LEMMA DrainIsRead ==
  IInv /\ Drain => Mirror!Read \/ UNCHANGED Mirror!mirror
<1> SUFFICES ASSUME IInv, Drain PROVE Mirror!Read \/ UNCHANGED Mirror!mirror
  OBVIOUS
<1> DEFINE t == Taken(PacketUnits)
           front == SubSeq(output, 1, t)
           back == SubSeq(output, t + 1, Len(output))
           n == Len(MessagesEnding(front))
<1>1. output \in Seq(Unit) /\ t \in 0 .. Len(output)
  BY LenProperties, SessionAssumption DEF Taken, IInv, TypeOK
<1>2. output' = back /\ UNCHANGED <<link_state, current_display, screen_locked>>
  BY DEF Drain, TakeOutput
<1> HIDE DEF t
<1>3. front \in Seq(Unit) /\ back \in Seq(Unit) /\ front \o back = output
  BY <1>1, CutInTwo
<1> HIDE DEF front, back
<1>4. /\ MessagesEnding(front) \in Seq(Message) /\ MessagesEnding(back) \in Seq(Message)
      /\ MessagesEnding(output) = MessagesEnding(front) \o MessagesEnding(back)
  <2>1. MessagesEnding(front) \in Seq(Message) /\ MessagesEnding(back) \in Seq(Message)
    BY <1>3, EndingIsStepwise
  <2>2. MessagesEnding(front \o back) = MessagesEnding(front) \o MessagesEnding(back)
    BY <1>3, EndingsJoin
  <2> QED
    BY <1>3, <2>1, <2>2
<1>5. SubSeq(MessagesEnding(output), n + 1, Len(MessagesEnding(output))) = MessagesEnding(back)
  BY <1>4, TheRestOfAJoin
<1>6. n \in Nat /\ Len(MessagesEnding(output)) = n + Len(MessagesEnding(back))
      /\ Len(MessagesEnding(back)) \in Nat
  BY <1>4, LenProperties, ConcatProperties
<1>7. CASE n = 0
  <2>1. MessagesEnding(front) = <<>>
    BY <1>4, <1>7, EmptySeq
  <2>2. MessagesEnding(output) = MessagesEnding(back)
    BY <1>4, <2>1, ConcatEmptySeq
  <2> QED
    BY <1>2, <2>2 DEF Mirror!mirror
<1>8. CASE n # 0
  <2>1. n \in 1 .. Len(MessagesEnding(output))
    BY <1>6, <1>8
  <2>2. MessagesEnding(output') = SubSeq(MessagesEnding(output), n + 1, Len(MessagesEnding(output)))
    BY <1>2, <1>5
  <2> HIDE DEF n
  <2> QED
    BY <1>2, <2>1, <2>2 DEF Mirror!Read
<1> QED
  BY <1>7, <1>8

(* Every call is a step of the promise, or changes nothing it speaks of.   *)
LEMMA MirrorSteps ==
  IInv /\ BackstopNeverBinds /\ [Next]_vars => [Mirror!Next]_(Mirror!mirror)
<1> SUFFICES ASSUME IInv, BackstopNeverBinds, [Next]_vars
             PROVE  Mirror!Next \/ UNCHANGED Mirror!mirror
  OBVIOUS
<1>1. /\ output \in Seq(Unit) /\ screen_locked \in BOOLEAN /\ link_state \in LinkState
      /\ inbound \in Assembler
  BY DEF IInv, TypeOK
<1>2. ASSUME UNCHANGED <<link_state, current_display, screen_locked, output>>
      PROVE  UNCHANGED Mirror!mirror
  BY <1>2 DEF Mirror!mirror
<1>3. CASE PortOpened
  <2>1. /\ link_state' = "Handshaking" /\ current_display' = BlankRecord
        /\ UNCHANGED screen_locked /\ MessagesEnding(output') = <<Hello(screen_locked)>>
    BY <1>1, <1>3, HelloIsOnItsWay DEF PortOpened
  <2>2. Mirror!Open
    BY <2>1, MirrorMessages DEF Mirror!Open
  <2> QED
    BY <2>2 DEF Mirror!Next
<1>4. CASE PortClosed
  <2>1. /\ link_state' = "LinkDown" /\ current_display' = BlankRecord
        /\ UNCHANGED screen_locked /\ MessagesEnding(output') = <<>>
    BY <1>4, EndingIsStepwise DEF PortClosed
  <2>2. Mirror!Drop
    BY <2>1, MirrorMessages DEF Mirror!Drop
  <2> QED
    BY <2>2 DEF Mirror!Next
<1>5. CASE HostReceive
  <2>1. PICK m \in Inbound : \E i \in DOMAIN Units(m) : Receive(Units(m)[i])
    BY <1>5 DEF HostReceive
  <2>6. m \in Message
    BY SessionAssumption
  <2>2. PICK u \in Unit : Receive(u)
    BY <2>1, <2>6, UnitsFacts, ElementOfSeq
  <2> DEFINE outcome == FeedOutcome(inbound, u)
  <2>3. link_state # "LinkDown" /\ UNCHANGED <<screen_locked, output>>
    BY <1>5, <2>2 DEF HostReceive, Receive
  <2>4. CASE UNCHANGED <<link_state, current_display>>
    BY <1>2, <2>3, <2>4
  <2>5. CASE /\ outcome.kind = "MESSAGE" /\ outcome.message.verb = "DISPLAY"
             /\ HandleDisplay(outcome.message)
    <3>1. outcome.message \in DisplayMessage
      <4>1. outcome.message \in Message
        BY <1>1, <2>2, <2>5, FeedFacts
      <4> QED
        BY <2>5, <4>1 DEF Message, HelloMessage, ButtonMessage, StateMessage, NoiseMessage
    <3> HIDE DEF outcome
    <3>2. CASE link_state # "Connected" /\ link_state' = "Incompatible"
               /\ UNCHANGED current_display
      <4>1. Mirror!Refuse
        BY <1>1, <2>3, <3>2 DEF Mirror!Refuse, LinkState
      <4> QED
        BY <4>1 DEF Mirror!Next
    <3>3. CASE /\ link_state = "Connected" \/ outcome.message.error # "BAD_VERSION"
               /\ link_state' = "Connected" /\ current_display' = outcome.message
      <4>1. Mirror!Show
        BY <2>3, <3>1, <3>3, MirrorMessages DEF Mirror!Show
      <4> QED
        BY <4>1 DEF Mirror!Next
    <3> QED
      BY <2>5, <3>2, <3>3 DEF HandleDisplay
  <2> QED
    BY <2>2, <2>4, <2>5 DEF Receive
<1>6. CASE AppTick
  <2>1. UNCHANGED <<link_state, current_display, screen_locked>>
    BY <1>6 DEF AppTick, Tick
  <2>2. CASE UNCHANGED output
    BY <1>2, <2>1, <2>2
  <2>3. CASE link_state = "Handshaking" /\ SendHello
    <3>1. Mirror!Retry
      BY <1>1, <2>1, <2>3, HelloIsOnItsWay, MirrorMessages DEF Mirror!Retry
    <3> QED
      BY <3>1 DEF Mirror!Next
  <2> QED
    BY <1>6, <2>2, <2>3 DEF AppTick, Tick
<1>7. CASE AppReport
  <2>1. PICK press \in Press, foregrounded \in BOOLEAN : ReportEvent(press, foregrounded)
    BY <1>7 DEF AppReport
  <2>2. UNCHANGED <<link_state, current_display, screen_locked>>
    BY <2>1 DEF ReportEvent
  <2>3. CASE UNCHANGED output
    BY <1>2, <2>2, <2>3
  <2>4. CASE /\ link_state = "Connected" /\ ~screen_locked
             /\ QueueMessage(output, output_message_count, Button(press))
    <3>1. Button(press) \in Message /\ Button(press).verb \in Verb \ {"NOISE"}
      BY SessionMessages DEF Button, Verb
    <3>2. MessagesEnding(output') = IF Len(MessagesEnding(output)) < QueueDepth
                                    THEN Append(MessagesEnding(output), Button(press))
                                    ELSE MessagesEnding(output)
      BY <2>4, <3>1, MessageIsQueued
    <3>3. CASE Len(MessagesEnding(output)) < QueueDepth
      <4>1. Mirror!SendPress
        BY <2>2, <2>4, <3>2, <3>3, MirrorMessages DEF Mirror!SendPress, Mirror!Room
      <4> QED
        BY <4>1 DEF Mirror!Next
    <3>4. CASE ~(Len(MessagesEnding(output)) < QueueDepth)
      BY <2>2, <3>2, <3>4 DEF Mirror!mirror
    <3> QED
      BY <3>3, <3>4
  <2> QED
    BY <2>1, <2>3, <2>4 DEF ReportEvent
<1>8. CASE AppLock
  <2>1. PICK locked \in BOOLEAN : LockChanged(locked)
    BY <1>8 DEF AppLock
  <2>2. /\ UNCHANGED <<link_state, current_display>>
        /\ screen_locked' = locked
    BY <2>1 DEF LockChanged
  <2>3. CASE link_state # "Connected" /\ UNCHANGED output
    <3>1. Mirror!SetLock
      BY <2>2, <2>3 DEF Mirror!SetLock, Mirror!Room
    <3> QED
      BY <3>1 DEF Mirror!Next
  <2>4. CASE /\ link_state = "Connected"
             /\ QueueMessage(output, output_message_count, State(locked))
    <3>1. State(locked) \in Message /\ State(locked).verb \in Verb \ {"NOISE"}
      BY SessionMessages DEF State, Verb
    <3>2. MessagesEnding(output') = IF Len(MessagesEnding(output)) < QueueDepth
                                    THEN Append(MessagesEnding(output), State(locked))
                                    ELSE MessagesEnding(output)
      BY <2>4, <3>1, MessageIsQueued
    <3>3. Mirror!SetLock
      BY <2>2, <2>4, <3>2, MirrorMessages DEF Mirror!SetLock, Mirror!Room
    <3> QED
      BY <3>3 DEF Mirror!Next
  <2> QED
    BY <2>1, <2>3, <2>4 DEF LockChanged
<1>9. CASE Drain
  BY <1>9, DrainIsRead DEF Mirror!Next
<1>10. CASE UNCHANGED vars
  BY <1>2, <1>10 DEF vars
<1> QED
  BY <1>3, <1>4, <1>5, <1>6, <1>7, <1>8, <1>9, <1>10 DEF Next

(* The session implements AbstractSession: under the mapping of Mirror it   *)
(* starts where the promise starts, and every call is a step of it or none.*)
THEOREM SessionKeepsItsPromise == Spec => ImplementsMirror
<1>1. Init => Mirror!Init
  BY MirrorBegins
<1>2. IInv /\ BackstopNeverBinds /\ [Next]_vars => [Mirror!Next]_(Mirror!mirror)
  BY MirrorSteps
<1> QED
  BY <1>1, <1>2, Invariance, BackstopIsIdle, PTL DEF Spec, ImplementsMirror, Mirror!Spec
=============================================================================
