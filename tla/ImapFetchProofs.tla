-------------------------- MODULE ImapFetchProofs --------------------------
(***************************************************************************)
(* Theorems about ImapFetch, for every batch, all octets of the messages,  *)
(* every mailbox, every number of lines in an answer and every number of   *)
(* attempts: what fetchMessages() and fetchMessage() hand out is what the  *)
(* server said of the messages that were asked for, and what               *)
(* listMessages() returns is the listing the lines spell.  The proofs      *)
(* follow the octets through splitLines(), parseFetchBodies() and          *)
(* parseFetchResponse(), loop by loop.                                     *)
(***************************************************************************)
EXTENDS ImapFetch, NatLemmas, TLAPS

----------------------------------------------------------------------------
(* Sequences.                                                              *)

\* The elements of a concatenation.
LEMMA Concat ==
  ASSUME NEW D, NEW a \in Seq(D), NEW b \in Seq(D)
  PROVE  /\ a \o b \in Seq(D) /\ Len(a \o b) = Len(a) + Len(b)
         /\ \A i \in 1 .. Len(a) : (a \o b)[i] = a[i]
         /\ \A i \in 1 .. Len(b) : (a \o b)[Len(a) + i] = b[i]
  OBVIOUS

\* Sequences with the same elements are the same.
LEMMA SameSeq ==
  ASSUME NEW D, NEW a \in Seq(D), NEW b \in Seq(D), Len(a) = Len(b),
         \A i \in 1 .. Len(a) : a[i] = b[i]
  PROVE  a = b
  OBVIOUS

\* The elements of a part of a sequence.
LEMMA Part ==
  ASSUME NEW D, NEW s \in Seq(D), NEW i \in Nat \ {0}, NEW j \in Int, j <= Len(s), i <= j + 1
  PROVE  /\ SubSeq(s, i, j) \in Seq(D) /\ Len(SubSeq(s, i, j)) = j - i + 1
         /\ \A k \in 1 .. (j - i + 1) : SubSeq(s, i, j)[k] = s[i + k - 1]
  OBVIOUS

----------------------------------------------------------------------------
(* Loops over a text.                                                      *)

\* The turns of a loop with output in D: each goes on at a later position.
Turns(turn, n, D) ==
  \A i \in 1 .. n : turn[i].out \in Seq(D) /\ turn[i].i \in (i + 1) .. (n + 2)

\* The outputs that a loop collects from every position on.
Collected(h, turn, n) ==
  \A i \in DOMAIN h : h[i] = IF i > n THEN <<>> ELSE turn[i].out \o h[turn[i].i]

\* They exist, whatever the turns are.
LEMMA CollectedExists ==
  ASSUME NEW n \in Nat, NEW D, NEW turn, Turns(turn, n, D)
  PROVE  \E h \in [1 .. (n + 2) -> Seq(D)] : Collected(h, turn, n)
<1> DEFINE m == n + 1
           Good(k, h) == h \in [(k + 1) .. (n + 2) -> Seq(D)] /\ Collected(h, turn, n)
           S == {k \in 0 .. m : \E h : Good(k, h)}
<1>1. m \in S
  <2> DEFINE h == [i \in (m + 1) .. (n + 2) |-> <<>>]
  <2>1. <<>> \in Seq(D)
    OBVIOUS
  <2>2. h \in [(m + 1) .. (n + 2) -> Seq(D)]
    BY <2>1
  <2>3. \A i \in (m + 1) .. (n + 2) : i > n /\ h[i] = <<>>
    OBVIOUS
  <2> HIDE DEF h
  <2>4. Good(m, h)
    BY <2>2, <2>3 DEF Collected
  <2>5. m \in 0 .. m
    OBVIOUS
  <2> HIDE DEF Good
  <2> QED
    BY <2>4, <2>5
<1>2. ASSUME NEW k \in 0 .. (m - 1), k + 1 \in S PROVE k \in S
  <2>1. PICK h : Good(k + 1, h)
    BY <1>2
  <2> DEFINE y == IF k + 1 > n THEN <<>> ELSE turn[k + 1].out \o h[turn[k + 1].i]
             g == [i \in (k + 1) .. (n + 2) |-> IF i = k + 1 THEN y ELSE h[i]]
  <2>2. y \in Seq(D)
    <3>1. CASE k + 1 > n
      BY <3>1
    <3>2. CASE k + 1 <= n
      <4>1. turn[k + 1].out \in Seq(D) /\ turn[k + 1].i \in (k + 1 + 1) .. (n + 2)
        BY <3>2 DEF Turns
      <4>2. h[turn[k + 1].i] \in Seq(D)
        BY <2>1, <4>1
      <4> QED
        BY <3>2, <4>1, <4>2
    <3> QED
      BY <3>1, <3>2
  <2> HIDE DEF y
  <2>3. \A i \in (k + 1) .. (n + 2) : i = k + 1 \/ i \in (k + 1 + 1) .. (n + 2)
    OBVIOUS
  <2>4. g \in [(k + 1) .. (n + 2) -> Seq(D)]
    BY <2>1, <2>2, <2>3
  <2>5. ASSUME NEW i \in (k + 1) .. (n + 2)
        PROVE  g[i] = IF i > n THEN <<>> ELSE turn[i].out \o g[turn[i].i]
    <3>1. CASE i > n
      <4>1. i = k + 1 => g[i] = <<>>
        BY <3>1 DEF y
      <4>2. i # k + 1 => g[i] = <<>>
        BY <2>1, <2>3, <3>1 DEF Collected
      <4> QED
        BY <3>1, <4>1, <4>2
    <3>2. CASE i <= n
      <4>1. turn[i].i \in (i + 1) .. (n + 2)
        BY <3>2 DEF Turns
      <4>2. turn[i].i # k + 1 /\ turn[i].i \in (k + 1) .. (n + 2)
        BY <4>1
      <4>3. g[turn[i].i] = h[turn[i].i]
        BY <4>2
      <4>4. CASE i = k + 1
        BY <3>2, <4>3, <4>4 DEF y
      <4>5. CASE i # k + 1
        <5>1. h[i] = turn[i].out \o h[turn[i].i]
          <6>1. i \in DOMAIN h /\ ~(i > n)
            BY <2>1, <2>3, <3>2, <4>5
          <6> QED
            BY <2>1, <6>1 DEF Collected
        <5>2. g[i] = h[i] /\ ~(i > n)
          BY <3>2, <4>5
        <5> QED
          BY <4>3, <5>1, <5>2
      <4> QED
        BY <4>4, <4>5
    <3> QED
      BY <3>1, <3>2
  <2> HIDE DEF g
  <2>6. Good(k, g)
    BY <2>4, <2>5 DEF Collected
  <2> QED
    BY <2>6
<1>3. m \in Nat
  OBVIOUS
<1> HIDE DEF S, m
<1>4. 0 .. m \subseteq S
  BY <1>1, <1>2, <1>3, DownTo
<1>5. 0 \in S
  BY <1>3, <1>4
<1> QED
  BY <1>5 DEF S

\* So a loop does what its code says, turn by turn.
LEMMA LoopTurn ==
  ASSUME NEW n \in Nat, NEW D, NEW turn, Turns(turn, n, D)
  PROVE  /\ \A i \in 1 .. n : Loop(turn, n, i) = turn[i].out \o Loop(turn, n, turn[i].i)
         /\ \A i \in (n + 1) .. (n + 2) : Loop(turn, n, i) = <<>>
<1> DEFINE F(g) == [i \in 1 .. (n + 2) |-> IF i > n THEN <<>> ELSE turn[i].out \o g[turn[i].i]]
           G == CHOOSE g : g = F(g)
<1>1. PICK h \in [1 .. (n + 2) -> Seq(D)] : Collected(h, turn, n)
  BY CollectedExists
<1>2. h = F(h)
  BY <1>1 DEF Collected
<1>3. G = F(G)
  BY <1>2
<1>4. \A i : Loop(turn, n, i) = G[i]
  BY DEF Loop
<1> HIDE DEF G
<1>5. \A i \in 1 .. (n + 2) : G[i] = IF i > n THEN <<>> ELSE turn[i].out \o G[turn[i].i]
  BY <1>3
<1>6. ASSUME NEW i \in 1 .. n PROVE Loop(turn, n, i) = turn[i].out \o Loop(turn, n, turn[i].i)
  <2>1. i \in 1 .. (n + 2) /\ ~(i > n)
    OBVIOUS
  <2>2. G[i] = turn[i].out \o G[turn[i].i]
    BY <1>5, <2>1
  <2> QED
    BY <1>4, <2>2
<1>7. ASSUME NEW i \in (n + 1) .. (n + 2) PROVE Loop(turn, n, i) = <<>>
  BY <1>4, <1>5
<1> QED
  BY <1>6, <1>7

\* What a loop collects is a sequence of what its turns yield.
LEMMA LoopTyped ==
  ASSUME NEW n \in Nat, NEW D, NEW turn, Turns(turn, n, D)
  PROVE  \A i \in 1 .. (n + 2) : Loop(turn, n, i) \in Seq(D)
<1> DEFINE L(i) == Loop(turn, n, i)
           m == n + 1
           S == {k \in 0 .. m : \A i \in (k + 1) .. (n + 2) : L(i) \in Seq(D)}
<1>0. <<>> \in Seq(D) /\ m \in Nat
  OBVIOUS
<1>1. /\ \A i \in 1 .. n : L(i) = turn[i].out \o L(turn[i].i)
      /\ \A i \in (n + 1) .. (n + 2) : L(i) = <<>>
  BY LoopTurn
<1> HIDE DEF L
<1>2. m \in S
  <2>1. \A i \in (m + 1) .. (n + 2) : i \in (n + 1) .. (n + 2)
    OBVIOUS
  <2>2. \A i \in (m + 1) .. (n + 2) : L(i) \in Seq(D)
    BY <1>0, <1>1, <2>1
  <2>3. m \in 0 .. m
    BY <1>0
  <2> QED
    BY <2>2, <2>3
<1>3. ASSUME NEW k \in 0 .. (m - 1), k + 1 \in S PROVE k \in S
  <2>1. \A i \in (k + 1) .. (n + 2) : i = k + 1 \/ i \in (k + 1 + 1) .. (n + 2)
    OBVIOUS
  <2>2. \A i \in (k + 1 + 1) .. (n + 2) : L(i) \in Seq(D)
    BY <1>3
  <2>3. L(k + 1) \in Seq(D)
    <3>1. CASE k + 1 > n
      <4>1. k + 1 \in (n + 1) .. (n + 2)
        BY <3>1
      <4> QED
        BY <1>0, <1>1, <4>1
    <3>2. CASE k + 1 <= n
      <4>0. k + 1 \in 1 .. n
        BY <3>2
      <4>1. turn[k + 1].out \in Seq(D) /\ turn[k + 1].i \in (k + 1 + 1) .. (n + 2)
        BY <3>2 DEF Turns
      <4>2. L(turn[k + 1].i) \in Seq(D)
        BY <2>2, <4>1
      <4>3. L(k + 1) = turn[k + 1].out \o L(turn[k + 1].i)
        BY <1>1, <4>0
      <4> QED
        BY <4>1, <4>2, <4>3, Concat
    <3> QED
      BY <3>1, <3>2
  <2> QED
    BY <2>1, <2>2, <2>3
<1> HIDE DEF S, m
<1>4. 0 .. m \subseteq S
  BY <1>0, <1>2, <1>3, DownTo
<1>5. 0 \in S /\ 0 + 1 = 1
  BY <1>0, <1>4
<1> QED
  BY <1>5 DEF S, L

----------------------------------------------------------------------------
(* Folds from the left.                                                    *)

\* Induction from 0 up to n.
LEMMA UpTo ==
  ASSUME NEW n \in Nat, NEW S, 0 \in S, \A l \in 0 .. (n - 1) : l \in S => l + 1 \in S
  PROVE  0 .. n \subseteq S
<1> DEFINE B == (0 .. n) \ S
<1> SUFFICES ASSUME B # {} PROVE FALSE
  OBVIOUS
<1>1. B \subseteq Nat
  OBVIOUS
<1> HIDE DEF B
<1>2. PICK x \in B : \A y \in B : x <= y
  BY <1>1, Least
<1>3. x \in 0 .. n /\ x \notin S
  BY <1>2 DEF B
<1>4. x # 0
  BY <1>3
<1>5. x - 1 \in 0 .. (n - 1) /\ x - 1 \in 0 .. n /\ ~(x <= x - 1) /\ (x - 1) + 1 = x
  BY <1>3, <1>4
<1>6. x - 1 \in S
  BY <1>2, <1>5 DEF B
<1> QED
  BY <1>3, <1>5, <1>6

\* h is an ascent of n steps through D from r.
IsAscent(h, n, D, r, f) ==
    /\ h \in [0 .. n -> D] /\ h[0] = r
    /\ \A k \in 1 .. n : h[k] = f[k][h[k - 1]]

\* Whatever the steps, they can be taken one after the other.
LEMMA AscentExists ==
  ASSUME NEW n \in Nat, NEW D, NEW r \in D, NEW f \in [1 .. n -> [D -> D]]
  PROVE  \E h : IsAscent(h, n, D, r, f)
<1> DEFINE e == [l \in 0 .. n |-> IF l = n THEN [x \in D |-> x] ELSE f[n - l]]
<1>1. e \in [0 .. n -> [D -> D]]
  <2>1. ASSUME NEW l \in 0 .. n PROVE e[l] \in [D -> D]
    <3>1. l # n => n - l \in 1 .. n
      OBVIOUS
    <3> QED
      BY <3>1
  <2> QED
    BY <2>1
<1>2. PICK d : IsDescent(d, n, D, r, e)
  <2> HIDE DEF e
  <2> QED
    BY <1>1, DescentExists
<1> DEFINE h == [k \in 0 .. n |-> d[n - k]]
<1>3. h \in [0 .. n -> D]
  <2>1. \A k \in 0 .. n : n - k \in 0 .. n
    OBVIOUS
  <2> QED
    BY <1>2, <2>1 DEF IsDescent
<1>4. h[0] = r
  BY <1>2 DEF IsDescent
<1>5. ASSUME NEW k \in 1 .. n PROVE h[k] = f[k][h[k - 1]]
  <2> DEFINE l == n - k
  <2>1. l \in 0 .. (n - 1) /\ l \in 0 .. n /\ l # n /\ n - l = k /\ l + 1 = n - (k - 1)
        /\ k \in 0 .. n /\ k - 1 \in 0 .. n
    OBVIOUS
  <2>2. d[l] = e[l][d[l + 1]]
    BY <1>2, <2>1 DEF IsDescent
  <2>3. e[l] = f[k]
    BY <2>1
  <2>4. h[k] = d[l] /\ h[k - 1] = d[l + 1]
    BY <2>1
  <2> QED
    BY <2>2, <2>3, <2>4
<1> HIDE DEF h
<1> QED
  BY <1>3, <1>4, <1>5 DEF IsAscent

\* What FlattenSeq() has put together after each of its parts.
Partial(h, seqs, D) ==
  /\ h \in [0 .. Len(seqs) -> Seq(D)] /\ h[0] = <<>>
  /\ \A k \in 1 .. Len(seqs) : h[k] = h[k - 1] \o seqs[k]

\* Flattening a sequence of sequences appends one after the other.
LEMMA Flattened ==
  ASSUME NEW D, NEW seqs \in Seq(Seq(D))
  PROVE  \E h : Partial(h, seqs, D) /\ FlattenSeq(seqs) = h[Len(seqs)]
<1> DEFINE n == Len(seqs)
           f == [k \in 1 .. n |-> [x \in Seq(D) |-> x \o seqs[k]]]
<1>0. n \in Nat /\ \A k \in 1 .. n : seqs[k] \in Seq(D)
  OBVIOUS
<1>1. f \in [1 .. n -> [Seq(D) -> Seq(D)]]
  <2>1. ASSUME NEW k \in 1 .. n, NEW x \in Seq(D) PROVE x \o seqs[k] \in Seq(D)
    BY <1>0
  <2> HIDE DEF n
  <2> QED
    BY <2>1
<1>2. <<>> \in Seq(D)
  OBVIOUS
<1>3. PICK h \in [0 .. n -> Seq(D)] : h[0] = <<>> /\ \A k \in 1 .. n : h[k] = f[k][h[k - 1]]
  <2> DEFINE X == Seq(D)
             z == <<>>
  <2>1. f \in [1 .. n -> [X -> X]] /\ z \in X /\ n \in Nat
    BY <1>0, <1>1, <1>2
  <2> HIDE DEF f, n, X, z
  <2>2. \E h : IsAscent(h, n, X, z, f)
    BY <2>1, AscentExists
  <2> QED
    BY <2>2 DEF X, z, IsAscent
<1>4. ASSUME NEW k \in 1 .. n PROVE h[k] = h[k - 1] \o seqs[k]
  <2>1. k - 1 \in 0 .. n
    BY <1>0
  <2>2. h[k - 1] \in Seq(D)
    BY <1>3, <2>1
  <2>3. f[k][h[k - 1]] = h[k - 1] \o seqs[k]
    BY <2>2
  <2> QED
    BY <1>3, <2>3
<1>5. Partial(h, seqs, D)
  BY <1>3, <1>4 DEF Partial
<1>6. CASE n = 0
  <2>1. seqs = <<>> /\ h[n] = <<>>
    BY <1>3, <1>6
  <2>2. FlattenSeq(seqs) = <<>>
    BY <1>6, <2>1 DEF FlattenSeq
  <2> QED
    BY <1>5, <2>1, <2>2
<1>7. CASE n # 0
  <2> DEFINE F(g) == [i \in 1 .. n |-> IF i = 1 THEN seqs[i] ELSE g[i - 1] \o seqs[i]]
             G == CHOOSE g : g = F(g)
             p == [i \in 1 .. n |-> h[i]]
  <2>1. p = F(p)
    <3>1. ASSUME NEW i \in 1 .. n PROVE p[i] = F(p)[i]
      <4>1. CASE i = 1
        <5>0. 1 \in 1 .. n /\ 1 - 1 = 0
          BY <4>1
        <5>1. h[1] = h[0] \o seqs[1]
          BY <1>4, <5>0
        <5>2. h[0] \o seqs[1] = seqs[1]
          BY <1>0, <1>3, <4>1
        <5> QED
          BY <4>1, <5>1, <5>2
      <4>2. CASE i # 1
        <5>1. i - 1 \in 1 .. n
          BY <1>0, <4>2
        <5> QED
          BY <1>4, <4>2, <5>1
      <4> QED
        BY <4>1, <4>2
    <3> QED
      BY <3>1
  <2>2. G = F(G)
    BY <2>1
  <2>3. FlattenSeq(seqs) = G[n]
    BY <1>7 DEF FlattenSeq
  <2> HIDE DEF G
  <2>4. \A i \in 1 .. n : G[i] = IF i = 1 THEN seqs[i] ELSE G[i - 1] \o seqs[i]
    BY <2>2
  <2> DEFINE S == {k \in 0 .. n : k = 0 \/ G[k] = h[k]}
  <2>5. 0 \in S
    BY <1>0
  <2>6. ASSUME NEW l \in 0 .. (n - 1), l \in S PROVE l + 1 \in S
    <3> DEFINE k == l + 1
    <3>1. k \in 1 .. n /\ k - 1 = l
      BY <1>0
    <3>2. CASE l = 0
      <4>1. G[1] = seqs[1]
        BY <2>4, <3>1, <3>2
      <4>0. 1 \in 1 .. n /\ 1 - 1 = 0
        BY <3>1, <3>2
      <4>2. h[1] = h[0] \o seqs[1]
        BY <1>4, <4>0
      <4>3. h[0] \o seqs[1] = seqs[1]
        BY <1>0, <1>3, <3>1, <3>2
      <4> QED
        BY <3>1, <3>2, <4>1, <4>2, <4>3
    <3>3. CASE l # 0
      <4>0. k # 1
        BY <3>1, <3>3
      <4>1. G[k] = G[l] \o seqs[k]
        BY <2>4, <3>1, <4>0
      <4>2. G[l] = h[l]
        BY <2>6, <3>3
      <4>3. h[k] = h[l] \o seqs[k]
        BY <1>4, <3>1
      <4>4. G[k] = h[k] /\ k \in 0 .. n
        BY <3>1, <4>1, <4>2, <4>3
      <4> QED
        BY <4>4
    <3> QED
      BY <3>2, <3>3
  <2>7. 0 .. n \subseteq S
    <3> HIDE DEF S, n
    <3> QED
      BY <1>0, <2>5, <2>6, UpTo
  <2>8. G[n] = h[n]
    BY <1>0, <1>7, <2>7
  <2> QED
    BY <1>5, <2>3, <2>8
<1> QED
  BY <1>6, <1>7

\* The elements that are kept, and no others.
LEMMA KeepHas ==
  ASSUME NEW D, NEW s \in Seq(D), NEW K
  PROVE  /\ Keep(s, K) \in Seq(D)
         /\ \A j \in DOMAIN Keep(s, K) : \E k \in DOMAIN s : k \in K /\ Keep(s, K)[j] = s[k]
         /\ \A k \in DOMAIN s : k \in K => \E j \in DOMAIN Keep(s, K) : Keep(s, K)[j] = s[k]
<1> DEFINE n == Len(s)
           seqs == [k \in DOMAIN s |-> IF k \in K THEN <<s[k]>> ELSE <<>>]
<1>0. n \in Nat /\ DOMAIN s = 1 .. n
  OBVIOUS
<1>1. seqs \in Seq(Seq(D)) /\ Len(seqs) = n /\ \A k \in 1 .. n : seqs[k] = IF k \in K THEN <<s[k]>> ELSE <<>>
  <2>1. \A k \in DOMAIN s : (IF k \in K THEN <<s[k]>> ELSE <<>>) \in Seq(D)
    OBVIOUS
  <2>2. seqs \in [1 .. n -> Seq(D)]
    BY <2>1
  <2> QED
    BY <2>2
<1>2. Keep(s, K) = FlattenSeq(seqs)
  BY DEF Keep
<1> HIDE DEF seqs
<1>3. PICK h : Partial(h, seqs, D) /\ FlattenSeq(seqs) = h[n]
  BY <1>1, Flattened
<1> HIDE DEF n
<1>4. h \in [0 .. n -> Seq(D)] /\ h[0] = <<>> /\ \A k \in 1 .. n : h[k] = h[k - 1] \o seqs[k]
  BY <1>1, <1>3 DEF Partial
<1> DEFINE Good(m) == /\ \A j \in DOMAIN h[m] : \E k \in 1 .. m : k \in K /\ h[m][j] = s[k]
                      /\ \A k \in 1 .. m : k \in K => \E j \in DOMAIN h[m] : h[m][j] = s[k]
           S == {m \in 0 .. n : Good(m)}
<1>5. 0 \in S
  BY <1>0, <1>4
<1>6. ASSUME NEW l \in 0 .. (n - 1), l \in S PROVE l + 1 \in S
  <2> DEFINE m == l + 1
             a == h[l]
             b == seqs[m]
             c == h[m]
  <2>1. m \in 1 .. n /\ m - 1 = l /\ l \in 0 .. n /\ m \in 0 .. n
    BY <1>0
  <2>2. a \in Seq(D) /\ c = a \o b /\ s[m] \in D
    <3>1. h[m] = h[m - 1] \o seqs[m]
      BY <1>4, <2>1
    <3>2. s[m] \in D
      BY <2>1 DEF n
    <3> QED
      BY <1>4, <2>1, <3>1, <3>2
  <2>3. b = IF m \in K THEN <<s[m]>> ELSE <<>>
    BY <1>1, <2>1
  <2>4. Good(l)
    BY <1>6
  <2>5. \A k \in 1 .. m : k = m \/ k \in 1 .. l
    BY <2>1
  <2>6. \A k \in 1 .. l : k \in 1 .. m
    BY <2>1
  <2> HIDE DEF m, a, b, c
  <2>7. CASE m \in K
    <3>1. c = Append(a, s[m])
      BY <2>2, <2>3, <2>7
    <3>2. DOMAIN c = 1 .. (Len(a) + 1) /\ DOMAIN a = 1 .. Len(a) /\ Len(a) \in Nat
      BY <2>2, <3>1
    <3>3. c[Len(a) + 1] = s[m] /\ \A j \in 1 .. Len(a) : c[j] = a[j]
      BY <2>2, <3>1
    <3>4. ASSUME NEW j \in DOMAIN c PROVE \E k \in 1 .. m : k \in K /\ c[j] = s[k]
      <4>1. CASE j = Len(a) + 1
        BY <2>1, <2>7, <3>3, <4>1
      <4>2. CASE j \in DOMAIN a
        <5>1. PICK k \in 1 .. l : k \in K /\ a[j] = s[k]
          BY <2>4, <4>2 DEF a
        <5> QED
          BY <2>6, <3>2, <3>3, <4>2, <5>1
      <4> QED
        BY <3>2, <4>1, <4>2
    <3>5. ASSUME NEW k \in 1 .. m, k \in K PROVE \E j \in DOMAIN c : c[j] = s[k]
      <4>1. CASE k = m
        <5>1. Len(a) + 1 \in DOMAIN c
          BY <3>2
        <5> QED
          BY <3>3, <4>1, <5>1
      <4>2. CASE k \in 1 .. l
        <5>1. PICK j \in DOMAIN a : a[j] = s[k]
          BY <2>4, <3>5, <4>2 DEF a
        <5>2. j \in DOMAIN c
          BY <3>2
        <5> QED
          BY <3>2, <3>3, <5>1, <5>2
      <4> QED
        BY <2>5, <4>1, <4>2
    <3> QED
      BY <2>1, <3>4, <3>5 DEF m, c
  <2>8. CASE m \notin K
    <3>1. c = a
      BY <2>2, <2>3, <2>8
    <3>2. ASSUME NEW j \in DOMAIN c PROVE \E k \in 1 .. m : k \in K /\ c[j] = s[k]
      BY <2>4, <2>6, <3>1 DEF a
    <3>3. ASSUME NEW k \in 1 .. m, k \in K PROVE \E j \in DOMAIN c : c[j] = s[k]
      BY <2>4, <2>5, <2>8, <3>1, <3>3 DEF a
    <3> QED
      BY <2>1, <3>2, <3>3 DEF m, c
  <2> QED
    BY <2>7, <2>8
<1>7. 0 .. n \subseteq S
  <2> HIDE DEF S
  <2> QED
    BY <1>0, <1>5, <1>6, UpTo
<1>8. Good(n) /\ n \in 0 .. n
  BY <1>0, <1>7
<1>9. Keep(s, K) = h[n] /\ h[n] \in Seq(D)
  BY <1>2, <1>3, <1>4, <1>8
<1> QED
  BY <1>0, <1>8, <1>9, ZenonT(30)

----------------------------------------------------------------------------
(* Positions in a text.                                                    *)

Text == Seq(Nat)

\* FirstAt() finds a position with one of the octets, before which there is
\* none, or comes to the end.
LEMMA FirstAtRange ==
  ASSUME NEW s \in Text, NEW i \in Nat \ {0}, NEW C
  PROVE  /\ FirstAt(s, i, C) \in Nat
         /\ \/ FirstAt(s, i, C) \in i .. Len(s) /\ s[FirstAt(s, i, C)] \in C
            \/ FirstAt(s, i, C) = Len(s) + 1
         /\ \A j \in i .. Len(s) : j < FirstAt(s, i, C) => s[j] \notin C
<1> DEFINE hits == {j \in i .. Len(s) : s[j] \in C}
<1>1. FirstAt(s, i, C) = IF hits = {} THEN Len(s) + 1 ELSE Min(hits)
  BY DEF FirstAt
<1>2. CASE hits = {}
  BY <1>1, <1>2 DEF Text
<1>3. CASE hits # {}
  <2>1. hits \subseteq Nat
    BY DEF Text
  <2> HIDE DEF hits
  <2>2. \E x \in hits : \A y \in hits : x <= y
    BY <1>3, <2>1, Least
  <2>3. Min(hits) \in hits /\ \A y \in hits : Min(hits) <= y
    BY <2>2 DEF Min
  <2> DEFINE q == FirstAt(s, i, C)
  <2>4. q \in hits /\ \A y \in hits : q <= y
    BY <1>1, <1>3, <2>3
  <2> HIDE DEF q
  <2>5. q \in i .. Len(s) /\ s[q] \in C /\ q \in Nat
    BY <2>1, <2>4 DEF hits
  <2>6. ASSUME NEW j \in i .. Len(s), j < q PROVE s[j] \notin C
    BY <2>4, <2>5, <2>6 DEF hits
  <2> QED
    BY <2>5, <2>6 DEF q
<1> QED
  BY <1>2, <1>3

\* The position it finds is the first.
LEMMA FirstAtIs ==
  ASSUME NEW s \in Text, NEW i \in Nat \ {0}, NEW C, NEW p \in i .. Len(s), s[p] \in C,
         \A j \in i .. (p - 1) : s[j] \notin C
  PROVE  FirstAt(s, i, C) = p
<1> DEFINE q == FirstAt(s, i, C)
<1>1. /\ q \in Nat /\ ((q \in i .. Len(s) /\ s[q] \in C) \/ q = Len(s) + 1)
      /\ \A j \in i .. Len(s) : j < q => s[j] \notin C
  BY FirstAtRange
<1>2. Len(s) \in Nat
  BY DEF Text
<1> HIDE DEF q
<1>3. q <= p
  BY <1>1, <1>2
<1>4. p <= q
  BY <1>1, <1>2, <1>3
<1> QED
  BY <1>1, <1>2, <1>3, <1>4 DEF q

\* skipSpace() stays where there is no space, and passes over one.
LEMMA NoSpace ==
  ASSUME NEW s \in Text, NEW i \in 1 .. Len(s), s[i] # SP
  PROVE  skipSpace(s, i) = i
<1>1. i \in i .. Len(s) /\ s[i] \in Nat \ {SP} /\ i \in Nat \ {0} /\ \A j \in i .. (i - 1) : FALSE
  BY DEF Text
<1> QED
  BY <1>1, FirstAtIs DEF skipSpace

\* Over one space skipSpace() goes to the octet after it.
LEMMA OneSpace ==
  ASSUME NEW s \in Text, NEW i \in Nat \ {0}, i + 1 <= Len(s), s[i] = SP, s[i + 1] # SP
  PROVE  skipSpace(s, i) = i + 1
<1>1. i + 1 \in i .. Len(s) /\ s[i + 1] \in Nat \ {SP} /\ \A j \in i .. ((i + 1) - 1) : s[j] = SP
  BY DEF Text
<1>2. \A j \in i .. ((i + 1) - 1) : s[j] \notin Nat \ {SP}
  BY <1>1
<1> QED
  BY <1>1, <1>2, FirstAtIs DEF skipSpace

\* skipSpace() stays within the text, at an octet that is no space.
LEMMA SkipRange ==
  ASSUME NEW s \in Text, NEW i \in Nat \ {0}, i <= Len(s) + 1
  PROVE  /\ skipSpace(s, i) \in i .. (Len(s) + 1)
         /\ skipSpace(s, i) <= Len(s) => s[skipSpace(s, i)] # SP
<1>1. Len(s) \in Nat
  BY DEF Text
<1> QED
  BY <1>1, FirstAtRange DEF skipSpace

\* w stands in s at p.
At(s, p, w) == p + Len(w) <= Len(s) + 1 /\ \A j \in 1 .. Len(w) : s[p + j - 1] = w[j]

\* Where a concatenation stands, its parts do.
LEMMA AtConcat ==
  ASSUME NEW s \in Text, NEW p \in Nat \ {0}, NEW a \in Text, NEW b \in Text, At(s, p, a \o b)
  PROVE  At(s, p, a) /\ At(s, p + Len(a), b)
<1> DEFINE w == a \o b
<1>1. /\ Len(a) \in Nat /\ Len(b) \in Nat /\ Len(s) \in Nat /\ Len(w) = Len(a) + Len(b)
      /\ \A i \in 1 .. Len(a) : w[i] = a[i]
      /\ \A i \in 1 .. Len(b) : w[Len(a) + i] = b[i]
  BY Concat DEF Text
<1>2. p + Len(w) <= Len(s) + 1 /\ \A j \in 1 .. Len(w) : s[p + j - 1] = w[j]
  BY DEF At
<1> HIDE DEF w
<1>3. \A j \in 1 .. Len(a) : s[p + j - 1] = a[j]
  BY <1>1, <1>2
<1>4. ASSUME NEW j \in 1 .. Len(b) PROVE s[(p + Len(a)) + j - 1] = b[j]
  <2>1. Len(a) + j \in 1 .. Len(w) /\ p + (Len(a) + j) - 1 = (p + Len(a)) + j - 1
    BY <1>1
  <2> QED
    BY <1>1, <1>2, <2>1
<1> QED
  BY <1>1, <1>2, <1>3, <1>4 DEF At

\* What stands at a position is the part of the text from there.
LEMMA AtPart ==
  ASSUME NEW s \in Text, NEW p \in Nat \ {0}, NEW w \in Text, At(s, p, w)
  PROVE  SubSeq(s, p, p + Len(w) - 1) = w
<1> DEFINE x == SubSeq(s, p, p + Len(w) - 1)
<1>0. Len(w) \in Nat /\ Len(s) \in Nat /\ p + Len(w) - 1 \in Int
      /\ p + Len(w) - 1 <= Len(s) /\ p <= (p + Len(w) - 1) + 1
  BY DEF Text, At
<1>1. /\ x \in Text /\ Len(x) = (p + Len(w) - 1) - p + 1
      /\ \A k \in 1 .. ((p + Len(w) - 1) - p + 1) : x[k] = s[p + k - 1]
  BY <1>0, Part DEF Text
<1>2. (p + Len(w) - 1) - p + 1 = Len(w)
  BY <1>0
<1>3. \A k \in 1 .. Len(w) : x[k] = w[k]
  BY <1>1, <1>2 DEF At
<1> HIDE DEF x
<1>4. x = w
  BY <1>1, <1>2, <1>3, SameSeq DEF Text
<1> QED
  BY <1>4 DEF x

\* A text stands in itself.
LEMMA AtSelf ==
  ASSUME NEW s \in Text
  PROVE  At(s, 1, s)
  BY DEF At, Text

----------------------------------------------------------------------------
(* Words and literals, as readAstring() finds them.                        *)

Stops == {SP, CR, LF, LP, RP}
Plain(c) == c \in Nat /\ c \notin Stops \cup {QT, LB}

\* A part of one octet.
LEMMA OneOctet ==
  ASSUME NEW s \in Text, NEW p \in 1 .. Len(s)
  PROVE  SubSeq(s, p, p) = <<s[p]>>
<1>0. Len(s) \in Nat /\ s[p] \in Nat
  BY DEF Text
<1>1. /\ SubSeq(s, p, p) \in Seq(Nat) /\ Len(SubSeq(s, p, p)) = p - p + 1
      /\ \A k \in 1 .. (p - p + 1) : SubSeq(s, p, p)[k] = s[p + k - 1]
  BY <1>0, Part DEF Text
<1>2. p - p + 1 = 1 /\ p + 1 - 1 = p
  BY <1>0
<1>3. Len(SubSeq(s, p, p)) = 1 /\ SubSeq(s, p, p)[1] = s[p]
  BY <1>1, <1>2
<1> DEFINE x == SubSeq(s, p, p)
           y == <<s[p]>>
<1>4. x \in Seq(Nat) /\ y \in Seq(Nat) /\ Len(x) = Len(y) /\ \A i \in 1 .. Len(x) : x[i] = y[i]
  BY <1>0, <1>1, <1>3
<1> HIDE DEF x, y
<1>5. x = y
  BY <1>4, SameSeq
<1> QED
  BY <1>5 DEF x, y

\* One plain octet before a stop is a word, here or after a space.
LEMMA ReadWord ==
  ASSUME NEW s \in Text, NEW p \in Nat \ {0}, p + 1 <= Len(s), Plain(s[p]), s[p + 1] \in Stops
  PROVE  /\ readAstring(s, p) = [ok |-> TRUE, i |-> p + 1, v |-> <<s[p]>>]
         /\ p > 1 /\ s[p - 1] = SP => readAstring(s, p - 1) = [ok |-> TRUE, i |-> p + 1, v |-> <<s[p]>>]
<1>0. Len(s) \in Nat /\ p \in 1 .. Len(s) /\ s[p] # SP /\ s[p] # QT /\ s[p] # LB /\ s[p] \notin Stops
  BY DEF Text, Plain, Stops
<1>1. FirstAt(s, p, Stops) = p + 1
  <2>1. p + 1 \in p .. Len(s) /\ \A j \in p .. ((p + 1) - 1) : s[j] \notin Stops
    BY <1>0
  <2> QED
    BY <2>1, FirstAtIs
<1>2. SubSeq(s, p, (p + 1) - 1) = <<s[p]>>
  <2>1. (p + 1) - 1 = p
    OBVIOUS
  <2> QED
    BY <1>0, <2>1, OneOctet
<1>3. ReadAt(s, p) = [ok |-> TRUE, i |-> p + 1, v |-> <<s[p]>>]
  <2>1. ~(p > Len(s)) /\ p + 1 # p /\ FirstAt(s, p, {SP, CR, LF, LP, RP}) = p + 1
    BY <1>0, <1>1 DEF Stops
  <2> QED
    BY <1>0, <1>2, <2>1 DEF ReadAt, ReadAtom
<1>4. skipSpace(s, p) = p
  BY <1>0, NoSpace
<1>5. ASSUME p > 1, s[p - 1] = SP PROVE skipSpace(s, p - 1) = p
  <2>1. p - 1 \in Nat \ {0} /\ (p - 1) + 1 = p
    BY <1>5
  <2> QED
    BY <1>0, <1>5, <2>1, OneSpace
<1> QED
  BY <1>3, <1>4, <1>5 DEF readAstring

\* Where there is a parenthesis no word can be read.
LEMMA ReadParen ==
  ASSUME NEW s \in Text, NEW p \in Nat \ {0}, p + 1 <= Len(s), s[p] = SP, s[p + 1] = LP
  PROVE  ~readAstring(s, p).ok /\ readAstring(s, p).i = p + 1
<1>0. Len(s) \in Nat /\ p + 1 \in Nat \ {0}
  BY DEF Text
<1>1. skipSpace(s, p) = p + 1
  BY OneSpace DEF SP, LP
<1>2. FirstAt(s, p + 1, Stops) = p + 1
  <2>1. p + 1 \in (p + 1) .. Len(s) /\ s[p + 1] \in Stops /\ \A j \in (p + 1) .. ((p + 1) - 1) : FALSE
    BY <1>0 DEF Stops
  <2> QED
    BY <1>0, <2>1, FirstAtIs
<1>3. ReadAt(s, p + 1) = Failed(p + 1)
  BY <1>0, <1>2 DEF ReadAt, ReadAtom, Stops, LP, QT, LB
<1> QED
  BY <1>1, <1>3 DEF readAstring, Failed

\* The octets of a literal, whatever they are.
LEMMA ReadLiteralAt ==
  ASSUME NEW s \in Text, NEW p \in Nat \ {0}, NEW v \in Text, s[p] = SP, At(s, p + 1, Literal(v))
  PROVE  readAstring(s, p) = [ok |-> TRUE, i |-> p + 1 + Len(Literal(v)), v |-> v]
<1> DEFINE q == p + 1
           n == Len(v)
           a == <<LB, Number(n), RB>>
<1>0. Len(s) \in Nat /\ q \in Nat \ {0} /\ n \in Nat
  BY DEF Text
<1>1. a \in Text /\ EOL \in Text /\ Len(a) = 3 /\ Len(EOL) = 2 /\ a \o EOL \in Text /\ Len(a \o EOL) = 5
      /\ a[1] = LB /\ a[2] = Number(n) /\ a[3] = RB /\ EOL[1] = CR /\ EOL[2] = LF
  BY <1>0 DEF Text, EOL, LB, RB, Number, CR, LF
<1>2. Literal(v) = (a \o EOL) \o v /\ Literal(v) \in Text /\ Len(Literal(v)) = 5 + n
  BY <1>1, Concat DEF Literal, Text
<1> HIDE DEF a, n, q
<1>3. At(s, q, a) /\ At(s, q + 3, EOL) /\ At(s, q + 5, v)
  <2>1. At(s, q, (a \o EOL) \o v)
    BY <1>2 DEF q
  <2>2. At(s, q, a \o EOL) /\ At(s, q + 5, v)
    BY <1>0, <1>1, <2>1, AtConcat
  <2> QED
    BY <1>0, <1>1, <2>2, AtConcat
<1>4. s[q] = LB /\ s[q + 1] = Number(n) /\ s[q + 2] = RB /\ s[q + 3] = CR /\ s[q + 4] = LF
  <2>1. q + 1 - 1 = q /\ q + 2 - 1 = q + 1 /\ q + 3 - 1 = q + 2 /\ q + 3 + 1 - 1 = q + 3 /\ q + 3 + 2 - 1 = q + 4
    BY <1>0
  <2>2. \A j \in 1 .. 3 : s[q + j - 1] = a[j]
    BY <1>1, <1>3 DEF At
  <2>3. \A j \in 1 .. 2 : s[q + 3 + j - 1] = EOL[j]
    BY <1>1, <1>3 DEF At
  <2>4. s[q + 1 - 1] = a[1] /\ s[q + 2 - 1] = a[2] /\ s[q + 3 - 1] = a[3]
    BY <2>2
  <2>5. s[q + 3 + 1 - 1] = EOL[1] /\ s[q + 3 + 2 - 1] = EOL[2]
    BY <2>3
  <2> QED
    BY <1>1, <2>1, <2>4, <2>5
<1>5. q + 5 + n <= Len(s) + 1
  BY <1>0, <1>3 DEF At, n
<1>6. skipSpace(s, p) = q
  BY <1>0, <1>4, <1>5, OneSpace DEF q, SP, LB
<1>7. FirstAt(s, q, {RB}) = q + 2
  <2>1. q + 2 \in q .. Len(s)
    BY <1>0, <1>5
  <2>2. \A j \in q .. ((q + 2) - 1) : j = q \/ j = q + 1
    BY <1>0
  <2>3. LB # RB /\ Number(n) # RB
    BY <1>0 DEF LB, RB, Number
  <2> QED
    BY <1>0, <1>4, <2>1, <2>2, <2>3, FirstAtIs
<1>8. strtoul(SubSeq(s, q + 1, (q + 2) - 1)) = n
  <2>1. q + 1 \in 1 .. Len(s) /\ (q + 2) - 1 = q + 1
    BY <1>0, <1>5
  <2>2. SubSeq(s, q + 1, (q + 2) - 1) = <<Number(n)>>
    BY <1>4, <2>1, OneOctet
  <2>3. strtoul(<<Number(n)>>) = n
    BY <1>0 DEF strtoul, IsNumber, Number
  <2> QED
    BY <2>2, <2>3
<1>9. AfterEol(s, (q + 2) + 1) = q + 5
  <2>1. (q + 2) + 1 = q + 3 /\ q + 3 <= Len(s) /\ q + 4 <= Len(s) /\ (q + 3) + 1 = q + 4 /\ (q + 4) + 1 = q + 5
    BY <1>0, <1>5
  <2> QED
    BY <1>4, <2>1 DEF AfterEol
<1>10. ReadLiteral(s, q) = [ok |-> TRUE, i |-> (q + 5) + n, v |-> v]
  <2>1. SubSeq(s, q + 5, (q + 5) + n - 1) = v
    BY <1>0, <1>3, AtPart DEF n
  <2>2. ~(q + 2 > Len(s)) /\ ~((q + 5) + n > Len(s) + 1)
    BY <1>0, <1>5
  <2> QED
    BY <1>7, <1>8, <1>9, <2>1, <2>2 DEF ReadLiteral, Octets
<1>11. ReadAt(s, q) = [ok |-> TRUE, i |-> (q + 5) + n, v |-> v]
  <2>1. ~(q > Len(s)) /\ LB # QT
    BY <1>0, <1>5 DEF LB, QT
  <2> QED
    BY <1>4, <1>10, <2>1 DEF ReadAt
<1>12. (q + 5) + n = p + 1 + Len(Literal(v))
  BY <1>0, <1>2 DEF q
<1> QED
  BY <1>6, <1>11, <1>12 DEF readAstring

----------------------------------------------------------------------------
(* readAstring() always moves on.                                          *)

\* A sequence over a set is one over a larger set.
LEMMA Wider ==
  ASSUME NEW C, NEW D, C \subseteq D, NEW x \in Seq(C)
  PROVE  x \in Seq(D)
<1>1. x \in [1 .. Len(x) -> C] /\ Len(x) \in Nat
  OBVIOUS
<1>2. x \in [1 .. Len(x) -> D]
  BY <1>1
<1> QED
  BY <1>1, <1>2

QuotedTurns(s) == [j \in DOMAIN s |-> QuotedTurn(s, j)]

\* One turn of the loop over a quoted string keeps one position or ends it.
LEMMA QuotedTurnsGo ==
  ASSUME NEW s \in Text
  PROVE  /\ \A j \in 1 .. Len(s) :
              \/ QuotedTurns(s)[j].out = <<>> /\ QuotedTurns(s)[j].i = Len(s) + 1
              \/ \E k \in j .. Len(s) : QuotedTurns(s)[j].out = <<k>> /\ QuotedTurns(s)[j].i = k + 1
         /\ Turns(QuotedTurns(s), Len(s), Nat)
<1> DEFINE n == Len(s)
           turn == QuotedTurns(s)
<1>0. n \in Nat /\ DOMAIN s = 1 .. n
  BY DEF Text
<1>1. ASSUME NEW j \in 1 .. n
      PROVE  \/ turn[j].out = <<>> /\ turn[j].i = n + 1
             \/ \E k \in j .. n : turn[j].out = <<k>> /\ turn[j].i = k + 1
  <2>1. turn[j] = QuotedTurn(s, j)
    BY <1>0 DEF QuotedTurns
  <2>2. CASE s[j] = QT
    BY <2>1, <2>2 DEF QuotedTurn, Skip, Yield
  <2>3. CASE s[j] # QT
    <3> DEFINE k == IF s[j] = BS /\ j < Len(s) THEN j + 1 ELSE j
    <3>1. k \in j .. n
      BY <1>0
    <3>2. turn[j] = Yield(<<k>>, k + 1)
      BY <2>1, <2>3 DEF QuotedTurn
    <3> HIDE DEF k
    <3> QED
      BY <3>1, <3>2 DEF Yield
  <2> QED
    BY <2>2, <2>3
<1>2. Turns(turn, n, Nat)
  <2>1. ASSUME NEW j \in 1 .. n PROVE turn[j].out \in Seq(Nat) /\ turn[j].i \in (j + 1) .. (n + 2)
    <3>1. CASE turn[j].out = <<>> /\ turn[j].i = n + 1
      <4>1. <<>> \in Seq(Nat) /\ n + 1 \in (j + 1) .. (n + 2)
        BY <1>0
      <4> QED
        BY <3>1, <4>1
    <3>2. CASE \E k \in j .. n : turn[j].out = <<k>> /\ turn[j].i = k + 1
      <4>1. PICK k \in j .. n : turn[j].out = <<k>> /\ turn[j].i = k + 1
        BY <3>2
      <4>2. <<k>> \in Seq(Nat) /\ k + 1 \in (j + 1) .. (n + 2)
        BY <1>0
      <4> QED
        BY <4>1, <4>2
    <3> QED
      BY <1>1, <3>1, <3>2
  <2> QED
    BY <2>1 DEF Turns
<1> QED
  BY <1>1, <1>2

\* The loop over a quoted string, turn by turn.
LEMMA QuotedStep ==
  ASSUME NEW s \in Text
  PROVE  /\ \A j \in 1 .. Len(s) : Loop(QuotedTurns(s), Len(s), j)
                                  = QuotedTurns(s)[j].out \o Loop(QuotedTurns(s), Len(s), QuotedTurns(s)[j].i)
         /\ \A j \in (Len(s) + 1) .. (Len(s) + 2) : Loop(QuotedTurns(s), Len(s), j) = <<>>
<1> DEFINE n == Len(s)
           turn == QuotedTurns(s)
<1>0. n \in Nat /\ Turns(turn, n, Nat)
  BY QuotedTurnsGo DEF Text
<1> HIDE DEF turn
<1>1. /\ \A j \in 1 .. n : Loop(turn, n, j) = turn[j].out \o Loop(turn, n, turn[j].i)
      /\ \A j \in (n + 1) .. (n + 2) : Loop(turn, n, j) = <<>>
  BY <1>0, LoopTurn
<1> QED
  BY <1>1 DEF turn

\* The positions a quoted string is read from.
LEMMA QuotedKept ==
  ASSUME NEW s \in Text, NEW i \in 1 .. (Len(s) + 1)
  PROVE  Loop([j \in DOMAIN s |-> QuotedTurn(s, j)], Len(s), i) \in Seq(i .. Len(s))
<1> DEFINE n == Len(s)
           turn == [j \in DOMAIN s |-> QuotedTurn(s, j)]
           L(k) == Loop(turn, n, k)
<1>0. n \in Nat /\ DOMAIN s = 1 .. n
  BY DEF Text
<1>1. ASSUME NEW j \in 1 .. n
      PROVE  \/ turn[j].out = <<>> /\ turn[j].i = n + 1
             \/ \E k \in j .. n : turn[j].out = <<k>> /\ turn[j].i = k + 1
  BY QuotedTurnsGo DEF QuotedTurns
<1> HIDE DEF turn
<1>3. /\ \A j \in 1 .. n : L(j) = turn[j].out \o L(turn[j].i)
      /\ \A j \in (n + 1) .. (n + 2) : L(j) = <<>>
  BY QuotedStep DEF turn, QuotedTurns
<1> HIDE DEF L, n
<1> DEFINE S == {k \in 0 .. n : \A j \in (k + 1) .. (n + 1) : L(j) \in Seq(j .. n)}
<1>4. n \in S
  <2>1. \A j \in (n + 1) .. (n + 1) : L(j) = <<>>
    BY <1>0, <1>3
  <2>2. \A j : <<>> \in Seq(j .. n)
    OBVIOUS
  <2>3. \A j \in (n + 1) .. (n + 1) : L(j) \in Seq(j .. n)
    BY <2>1, <2>2
  <2> QED
    BY <1>0, <2>3
<1>5. ASSUME NEW k \in 0 .. (n - 1), k + 1 \in S PROVE k \in S
  <2> DEFINE m == k + 1
  <2>1. m \in 1 .. n /\ k \in 0 .. n /\ \A j \in (k + 1) .. (n + 1) : j = m \/ j \in (m + 1) .. (n + 1)
    BY <1>0
  <2>2. \A j \in (m + 1) .. (n + 1) : L(j) \in Seq(j .. n)
    BY <1>5
  <2> HIDE DEF m
  <2>3. L(m) \in Seq(m .. n)
    <3>1. L(m) = turn[m].out \o L(turn[m].i)
      BY <1>3, <2>1
    <3>2. CASE turn[m].out = <<>> /\ turn[m].i = n + 1
      <4>1. L(n + 1) = <<>>
        BY <1>0, <1>3
      <4>2. L(m) = <<>> \o <<>>
        BY <3>1, <3>2, <4>1
      <4> QED
        BY <4>2
    <3>3. ASSUME NEW q \in m .. n, turn[m].out = <<q>> /\ turn[m].i = q + 1 PROVE L(m) \in Seq(m .. n)
      <4>1. q + 1 \in (m + 1) .. (n + 1)
        BY <1>0, <2>1
      <4>2. L(q + 1) \in Seq((q + 1) .. n)
        BY <2>2, <4>1
      <4>3. (q + 1) .. n \subseteq m .. n
        BY <1>0, <2>1
      <4>4. L(q + 1) \in Seq(m .. n)
        BY <4>2, <4>3, Wider, ZenonT(30)
      <4>5. L(m) = <<q>> \o L(q + 1)
        BY <3>1, <3>3
      <4>6. <<q>> \in Seq(m .. n)
        OBVIOUS
      <4> QED
        BY <4>4, <4>5, <4>6, Concat
    <3> QED
      BY <1>1, <2>1, <3>2, <3>3
  <2> QED
    BY <2>1, <2>2, <2>3
<1>6. 0 .. n \subseteq S
  <2> HIDE DEF S
  <2> QED
    BY <1>0, <1>4, <1>5, DownTo
<1>7. \A j \in 1 .. (n + 1) : L(j) \in Seq(j .. n)
  <2>1. 0 \in S /\ 0 + 1 = 1
    BY <1>0, <1>6
  <2> QED
    BY <2>1
<1> QED
  BY <1>7 DEF L, n, turn

\* What readAstring() returns: a text, and a position that is past what it read.
LEMMA ReadAtRange ==
  ASSUME NEW s \in Text, NEW i \in 1 .. (Len(s) + 1)
  PROVE  /\ ReadAt(s, i).ok \in BOOLEAN /\ ReadAt(s, i).v \in Text
         /\ ReadAt(s, i).i \in i .. (Len(s) + 1)
         /\ ReadAt(s, i).ok => ReadAt(s, i).i > i
<1>0. Len(s) \in Nat /\ <<>> \in Text /\ DOMAIN s = 1 .. Len(s)
  BY DEF Text
<1> DEFINE Good(r) == r.ok \in BOOLEAN /\ r.v \in Text /\ r.i \in i .. (Len(s) + 1) /\ (r.ok => r.i > i)
<1>1. Good(Failed(i))
  BY <1>0 DEF Failed
<1>2. CASE i > Len(s)
  BY <1>1, <1>2 DEF ReadAt
<1>3. CASE i <= Len(s) /\ s[i] = QT
  <2> DEFINE kept == Loop([j \in DOMAIN s |-> QuotedTurn(s, j)], Len(s), i + 1)
             end == IF kept = <<>> THEN i + 1 ELSE Last(kept) + 1
             v == [k \in DOMAIN kept |-> s[kept[k]]]
  <2>1. kept \in Seq((i + 1) .. Len(s))
    BY <1>0, <1>3, QuotedKept
  <2> HIDE DEF kept
  <2>2. end \in (i + 1) .. (Len(s) + 1)
    <3>1. CASE kept = <<>>
      BY <1>0, <1>3, <3>1
    <3>2. CASE kept # <<>>
      <4>1. Last(kept) \in (i + 1) .. Len(s)
        BY <2>1, <3>2 DEF Last
      <4> QED
        BY <1>0, <3>2, <4>1
    <3> QED
      BY <3>1, <3>2
  <2>3. v \in Text
    <3>1. \A k \in 1 .. Len(kept) : s[kept[k]] \in Nat
      BY <1>0, <2>1, SMTT(30) DEF Text
    <3>2. DOMAIN kept = 1 .. Len(kept) /\ Len(kept) \in Nat
      BY <2>1
    <3>3. v \in [1 .. Len(kept) -> Nat]
      BY <3>1, <3>2
    <3> HIDE DEF v
    <3> QED
      BY <3>2, <3>3, SMTT(30) DEF Text
  <2>4. ReadQuoted(s, i + 1) = [ok |-> TRUE, i |-> IF end <= Len(s) THEN end + 1 ELSE end, v |-> v]
    BY DEF ReadQuoted, kept
  <2>5. ReadAt(s, i) = ReadQuoted(s, i + 1)
    BY <1>0, <1>3 DEF ReadAt
  <2> HIDE DEF end, v
  <2> DEFINE e == IF end <= Len(s) THEN end + 1 ELSE end
  <2>6. e \in i .. (Len(s) + 1) /\ e > i
    BY <1>0, <2>2
  <2> HIDE DEF e
  <2>7. ReadAt(s, i) = [ok |-> TRUE, i |-> e, v |-> v]
    BY <2>4, <2>5 DEF e
  <2> QED
    BY <2>3, <2>6, <2>7
<1>4. CASE i <= Len(s) /\ s[i] = LB
  <2> DEFINE close == FirstAt(s, i, {RB})
             start == AfterEol(s, close + 1)
             n == strtoul(SubSeq(s, i + 1, close - 1))
  <2>0. ReadAt(s, i) = ReadLiteral(s, i)
    BY <1>0, <1>4 DEF ReadAt, LB, QT
  <2>1. close \in i .. Len(s) \/ close = Len(s) + 1
    BY <1>0, FirstAtRange
  <2>2. CASE close > Len(s)
    BY <1>1, <2>0, <2>2 DEF ReadLiteral
  <2>3. CASE close <= Len(s)
    <3>0. close \in i .. Len(s) /\ close # i
      BY <1>0, <1>4, <2>1, <2>3, FirstAtRange DEF LB, RB
    <3>1. start \in Nat /\ start >= close + 1
      <4> HIDE DEF close
      <4> QED
        BY <1>0, <3>0 DEF AfterEol
    <3>2. n \in Nat
      <4>1. SubSeq(s, i + 1, close - 1) \in Text
        <5> HIDE DEF close
        <5>1. i + 1 \in Nat \ {0} /\ close - 1 \in Int /\ close - 1 <= Len(s) /\ i + 1 <= (close - 1) + 1
          BY <1>0, <3>0
        <5> QED
          BY <5>1, Part DEF Text
      <4> DEFINE w == SubSeq(s, i + 1, close - 1)
      <4> HIDE DEF w
      <4>2. w \in Text
        BY <4>1 DEF w
      <4>3. strtoul(w) \in Nat
        <5>1. w # <<>> => w[1] \in Nat
          BY <4>2 DEF Text
        <5> QED
          BY <5>1 DEF strtoul, IsNumber
      <4> QED
        BY <4>3 DEF w
    <3>3. ReadLiteral(s, i) = IF start + n > Len(s) + 1 THEN Failed(i)
                              ELSE [ok |-> TRUE, i |-> start + n, v |-> SubSeq(s, start, start + n - 1)]
      <4>0. ~(close > Len(s))
        <5> HIDE DEF close
        <5> QED
          BY <1>0, <3>0
      <4>1. ReadLiteral(s, i) = Octets(s, i, start, n)
        BY <4>0, Zenon DEF ReadLiteral
      <4> HIDE DEF start, n
      <4> QED
        BY <4>1 DEF Octets
    <3> HIDE DEF start, n, close
    <3>4. ASSUME start + n <= Len(s) + 1 PROVE SubSeq(s, start, start + n - 1) \in Text
      <4>1. start \in Nat \ {0} /\ start + n - 1 \in Int /\ start + n - 1 <= Len(s) /\ start <= (start + n - 1) + 1
        BY <1>0, <3>0, <3>1, <3>2, <3>4
      <4> QED
        BY <4>1, Part DEF Text
    <3>5. CASE start + n > Len(s) + 1
      BY <1>1, <2>0, <3>3, <3>5
    <3>6. CASE start + n <= Len(s) + 1
      <4>1. ReadAt(s, i) = [ok |-> TRUE, i |-> start + n, v |-> SubSeq(s, start, start + n - 1)]
        BY <1>0, <2>0, <3>1, <3>2, <3>3, <3>6
      <4>2. start + n \in i .. (Len(s) + 1) /\ start + n > i
        BY <1>0, <3>0, <3>1, <3>2, <3>6
      <4> QED
        BY <3>4, <3>6, <4>1, <4>2
    <3> QED
      BY <1>0, <3>1, <3>2, <3>5, <3>6
  <2> QED
    BY <1>0, <2>1, <2>2, <2>3
<1>5. CASE i <= Len(s) /\ s[i] # QT /\ s[i] # LB
  <2> DEFINE end == FirstAt(s, i, {SP, CR, LF, LP, RP})
  <2>0. ReadAt(s, i) = ReadAtom(s, i, end)
    BY <1>0, <1>5 DEF ReadAt
  <2>1. end \in i .. (Len(s) + 1)
    BY <1>0, FirstAtRange
  <2> HIDE DEF end
  <2>2. CASE end = i
    BY <1>1, <2>0, <2>2 DEF ReadAtom
  <2>3. CASE end # i
    <3>1. ReadAt(s, i) = [ok |-> TRUE, i |-> end, v |-> SubSeq(s, i, end - 1)]
      BY <2>0, <2>3 DEF ReadAtom
    <3>2. end - 1 \in Int /\ end - 1 <= Len(s) /\ i <= (end - 1) + 1 /\ i \in Nat \ {0} /\ end > i
      BY <1>0, <2>1, <2>3
    <3>3. SubSeq(s, i, end - 1) \in Text
      BY <3>2, Part DEF Text
    <3> QED
      BY <2>1, <3>1, <3>2, <3>3
  <2> QED
    BY <2>2, <2>3
<1> QED
  BY <1>0, <1>2, <1>3, <1>4, <1>5

\* readAstring() goes forward within the text, and reads a text.
LEMMA ReadRange ==
  ASSUME NEW s \in Text, NEW at \in 1 .. (Len(s) + 1)
  PROVE  /\ readAstring(s, at).ok \in BOOLEAN /\ readAstring(s, at).v \in Text
         /\ readAstring(s, at).i \in at .. (Len(s) + 1)
         /\ readAstring(s, at).ok => readAstring(s, at).i > at
<1> DEFINE i == skipSpace(s, at)
<1>0. Len(s) \in Nat
  BY DEF Text
<1>1. i \in at .. (Len(s) + 1)
  BY <1>0, SkipRange
<1>2. readAstring(s, at) = ReadAt(s, i)
  BY DEF readAstring
<1> HIDE DEF i
<1>3. i \in 1 .. (Len(s) + 1)
  BY <1>0, <1>1
<1> DEFINE r == ReadAt(s, i)
<1>4. r.ok \in BOOLEAN /\ r.v \in Text /\ r.i \in i .. (Len(s) + 1) /\ (r.ok => r.i > i)
  BY <1>3, ReadAtRange
<1> HIDE DEF r
<1>5. r.i \in at .. (Len(s) + 1) /\ (r.ok => r.i > at)
  BY <1>0, <1>1, <1>4
<1> QED
  BY <1>2, <1>4, <1>5 DEF r

----------------------------------------------------------------------------
(* The items parseFetchBodies() finds in a line.                           *)

Value == [ok : BOOLEAN, i : Nat, v : Text]
Item == [key : Text, val : Value]

\* What readAstring() returns is a value.
LEMMA ReadIsValue ==
  ASSUME NEW s \in Text, NEW at \in 1 .. (Len(s) + 1)
  PROVE  readAstring(s, at) \in Value
<1> DEFINE r == readAstring(s, at)
<1>0. Len(s) \in Nat /\ \A i : Failed(i) = [ok |-> FALSE, i |-> i, v |-> <<>>]
  BY DEF Text, Failed
<1>1. r.ok \in BOOLEAN /\ r.v \in Text /\ r.i \in at .. (Len(s) + 1)
  BY ReadRange
<1>2. \E ok, i, v : r = [ok |-> ok, i |-> i, v |-> v]
  <2> DEFINE i == skipSpace(s, at)
             Rec(x) == \E ok, k, v : x = [ok |-> ok, i |-> k, v |-> v]
  <2>1. r = ReadAt(s, i)
    BY DEF readAstring
  <2> HIDE DEF i, r
  <2>2. Rec(Failed(i))
    BY <1>0
  <2>3. Rec(ReadQuoted(s, i + 1))
    BY DEF ReadQuoted
  <2>4. \A start, n : Rec(Octets(s, i, start, n))
    BY <2>2 DEF Octets
  <2>5. Rec(ReadLiteral(s, i))
    <3> HIDE DEF Rec
    <3> QED
      BY <2>2, <2>4 DEF ReadLiteral
  <2>6. \A end : Rec(ReadAtom(s, i, end))
    BY <2>2 DEF ReadAtom
  <2> HIDE DEF Rec
  <2>7. Rec(r)
    BY <2>1, <2>2, <2>3, <2>5, <2>6 DEF ReadAt
  <2> QED
    BY <2>7 DEF Rec
<1>3. r.i \in Nat
  BY <1>0, <1>1
<1> HIDE DEF r
<1>4. PICK ok, i, v : r = [ok |-> ok, i |-> i, v |-> v]
  BY <1>2
<1>5. r \in Value
  BY <1>1, <1>3, <1>4 DEF Value
<1> QED
  BY <1>5 DEF r

BodyTurns(line) == [at \in DOMAIN line |-> BodyTurn(line, at)]
BodyFrom(line, p) == Loop(BodyTurns(line), Len(line), p)

\* Every turn of the loop of parseFetchBodies() goes forward and yields items.
LEMMA BodyTurnsGo ==
  ASSUME NEW line \in Text
  PROVE  Turns(BodyTurns(line), Len(line), Item)
<1> DEFINE n == Len(line)
<1>0. n \in Nat /\ DOMAIN line = 1 .. n /\ <<>> \in Seq(Item)
  BY DEF Text
<1> SUFFICES ASSUME NEW at \in 1 .. n
             PROVE  BodyTurn(line, at).out \in Seq(Item) /\ BodyTurn(line, at).i \in (at + 1) .. (n + 2)
  <2>1. \A at \in 1 .. n : BodyTurns(line)[at] = BodyTurn(line, at)
    BY <1>0 DEF BodyTurns
  <2> QED
    BY <2>1 DEF Turns
<1> DEFINE i == skipSpace(line, at)
           key == readAstring(line, i)
           val == readAstring(line, key.i)
           t == BodyTurn(line, at)
<1>1. t = IF i > n THEN Skip(i)
          ELSE IF line[i] \in {LP, RP} THEN Skip(i + 1)
          ELSE IF key.ok /\ (val.ok \/ key.v \in {<<Keyword.uid>>, <<Keyword.body>>})
          THEN Yield(<<[key |-> key.v, val |-> val]>>, val.i)
          ELSE Skip(n + 1)
  BY Zenon DEF BodyTurn
<1>2. i \in at .. (n + 1)
  BY <1>0, SkipRange
<1>3. key.ok \in BOOLEAN /\ key.v \in Text /\ key.i \in i .. (n + 1) /\ (key.ok => key.i > i)
  <2>1. i \in 1 .. (n + 1)
    <3> HIDE DEF i
    <3> QED
      BY <1>0, <1>2
  <2> QED
    BY <2>1, ReadRange
<1>4. val \in Value /\ val.i \in key.i .. (n + 1)
  <2>1. key.i \in 1 .. (n + 1)
    <3> HIDE DEF i, key
    <3> QED
      BY <1>0, <1>2, <1>3
  <2> QED
    BY <2>1, ReadRange, ReadIsValue
<1> HIDE DEF i, key, val, t
<1>5. Skip(i).out = <<>> /\ Skip(i).i = i /\ Skip(i + 1).out = <<>> /\ Skip(i + 1).i = i + 1
      /\ Skip(n + 1).out = <<>> /\ Skip(n + 1).i = n + 1
  BY DEF Skip, Yield
<1>6. CASE i > n
  <2>1. t = Skip(i)
    BY <1>1, <1>6
  <2>2. i \in (at + 1) .. (n + 2)
    BY <1>0, <1>2, <1>6
  <2> QED
    BY <1>0, <1>5, <2>1, <2>2 DEF t
<1>7. CASE i <= n /\ line[i] \in {LP, RP}
  <2>0. ~(i > n)
    BY <1>0, <1>2, <1>7
  <2>1. t = Skip(i + 1)
    BY <1>1, <1>7, <2>0
  <2>2. i + 1 \in (at + 1) .. (n + 2)
    BY <1>0, <1>2, <1>7
  <2> QED
    BY <1>0, <1>5, <2>1, <2>2 DEF t
<1>8. CASE i <= n /\ line[i] \notin {LP, RP} /\ key.ok /\ (val.ok \/ key.v \in {<<Keyword.uid>>, <<Keyword.body>>})
  <2>0. ~(i > n)
    BY <1>0, <1>2, <1>8
  <2>1. t = Yield(<<[key |-> key.v, val |-> val]>>, val.i)
    BY <1>1, <1>8, <2>0
  <2>2. val.i \in (at + 1) .. (n + 2)
    BY <1>0, <1>2, <1>3, <1>4, <1>8
  <2>3. [key |-> key.v, val |-> val] \in Item
    BY <1>3, <1>4 DEF Item
  <2>4. <<[key |-> key.v, val |-> val]>> \in Seq(Item)
    BY <2>3
  <2> QED
    BY <2>1, <2>2, <2>4 DEF t, Yield
<1>9. CASE i <= n /\ line[i] \notin {LP, RP} /\ ~(key.ok /\ (val.ok \/ key.v \in {<<Keyword.uid>>, <<Keyword.body>>}))
  <2>0. ~(i > n)
    BY <1>0, <1>2, <1>9
  <2>1. t = Skip(n + 1)
    BY <1>1, <1>9, <2>0
  <2>2. n + 1 \in (at + 1) .. (n + 2)
    BY <1>0
  <2> QED
    BY <1>0, <1>5, <2>1, <2>2 DEF t
<1> QED
  BY <1>0, <1>2, <1>6, <1>7, <1>8, <1>9

\* The loop, turn by turn.
LEMMA BodyStep ==
  ASSUME NEW line \in Text
  PROVE  /\ \A p \in 1 .. Len(line) : BodyFrom(line, p) = BodyTurn(line, p).out \o BodyFrom(line, BodyTurn(line, p).i)
         /\ \A p \in 1 .. (Len(line) + 2) : BodyFrom(line, p) \in Seq(Item)
         /\ BodyFrom(line, Len(line) + 1) = <<>>
<1> DEFINE n == Len(line)
           turn == BodyTurns(line)
           L(p) == Loop(turn, n, p)
<1>0. n \in Nat /\ DOMAIN line = 1 .. n /\ Turns(turn, n, Item)
  BY BodyTurnsGo DEF Text
<1>1. \A p \in 1 .. n : turn[p] = BodyTurn(line, p)
  BY <1>0 DEF BodyTurns
<1> HIDE DEF turn
<1>2. /\ \A p \in 1 .. n : L(p) = turn[p].out \o L(turn[p].i)
      /\ \A p \in (n + 1) .. (n + 2) : L(p) = <<>>
  BY <1>0, LoopTurn
<1>3. \A p : BodyFrom(line, p) = L(p)
  BY DEF BodyFrom, turn
<1> HIDE DEF L
<1>4. \A p \in 1 .. (n + 2) : L(p) \in Seq(Item)
  BY <1>0, <1>2, LoopTyped DEF L
<1> HIDE DEF n
<1>5. n + 1 \in (n + 1) .. (n + 2)
  BY <1>0
<1> QED
  BY <1>1, <1>2, <1>3, <1>4, <1>5, ZenonT(30) DEF n

\* A position from which the next item starts at p.
Reaches(line, at, p) == at = p \/ (at \in Nat \ {0} /\ at + 1 = p /\ line[at] = SP)

\* From such a position the loop comes to the item.
LEMMA ReachesItem ==
  ASSUME NEW line \in Text, NEW p \in 1 .. Len(line), line[p] # SP, NEW at, Reaches(line, at, p)
  PROVE  at \in 1 .. Len(line) /\ skipSpace(line, at) = p
<1>0. Len(line) \in Nat
  BY DEF Text
<1>1. CASE at = p
  BY <1>1, NoSpace
<1>2. CASE at \in Nat \ {0} /\ at + 1 = p /\ line[at] = SP
  BY <1>0, <1>2, OneSpace
<1> QED
  BY <1>1, <1>2 DEF Reaches

\* A turn that finds a key at p.
LEMMA ItemTurn ==
  ASSUME NEW line \in Text, NEW p \in 1 .. Len(line), Plain(line[p]), NEW at, Reaches(line, at, p),
         NEW key, key = readAstring(line, p), NEW val, val = readAstring(line, key.i), key.ok
  PROVE  /\ val.ok \/ key.v \in {<<Keyword.uid>>, <<Keyword.body>>} =>
            BodyFrom(line, at) = <<[key |-> key.v, val |-> val]>> \o BodyFrom(line, val.i)
         /\ ~(val.ok \/ key.v \in {<<Keyword.uid>>, <<Keyword.body>>}) => BodyFrom(line, at) = <<>>
<1>0. Len(line) \in Nat /\ ~(p > Len(line)) /\ line[p] \notin {LP, RP} /\ line[p] # SP
  BY DEF Text, Plain, Stops
<1>1. at \in 1 .. Len(line) /\ skipSpace(line, at) = p
  BY <1>0, ReachesItem
<1> DEFINE i == skipSpace(line, at)
           k == readAstring(line, i)
           v == readAstring(line, k.i)
           t == BodyTurn(line, at)
<1>2. t = IF i > Len(line) THEN Skip(i)
          ELSE IF line[i] \in {LP, RP} THEN Skip(i + 1)
          ELSE IF k.ok /\ (v.ok \/ k.v \in {<<Keyword.uid>>, <<Keyword.body>>})
          THEN Yield(<<[key |-> k.v, val |-> v]>>, v.i)
          ELSE Skip(Len(line) + 1)
  BY Zenon DEF BodyTurn
<1>3. i = p /\ k = key /\ v = val
  BY <1>1
<1>4. BodyFrom(line, at) = t.out \o BodyFrom(line, t.i)
  BY <1>1, BodyStep
<1> HIDE DEF i, k, v, t
<1>5. ASSUME val.ok \/ key.v \in {<<Keyword.uid>>, <<Keyword.body>>}
      PROVE  BodyFrom(line, at) = <<[key |-> key.v, val |-> val]>> \o BodyFrom(line, val.i)
  <2>1. t = Yield(<<[key |-> key.v, val |-> val]>>, val.i)
    BY <1>0, <1>2, <1>3, <1>5
  <2> QED
    BY <1>4, <2>1 DEF Yield
<1>6. ASSUME ~(val.ok \/ key.v \in {<<Keyword.uid>>, <<Keyword.body>>}) PROVE BodyFrom(line, at) = <<>>
  <2>1. t = Skip(Len(line) + 1)
    BY <1>0, <1>2, <1>3, <1>6
  <2>2. BodyFrom(line, at) = <<>> \o BodyFrom(line, Len(line) + 1)
    BY <1>4, <2>1 DEF Skip, Yield
  <2>3. BodyFrom(line, Len(line) + 1) = <<>>
    BY BodyStep
  <2> QED
    BY <2>2, <2>3
<1> QED
  BY <1>5, <1>6

\* What a turn finds: a key with a word, a key with a literal, and a key with a
\* list, which ends the line.
LEMMA WordItem ==
  ASSUME NEW line \in Text, NEW p \in Nat \ {0}, p + 3 <= Len(line), Plain(line[p]), line[p + 1] = SP,
         Plain(line[p + 2]), line[p + 3] \in Stops, NEW at, Reaches(line, at, p)
  PROVE  BodyFrom(line, at) = <<[key |-> <<line[p]>>, val |-> [ok |-> TRUE, i |-> p + 3, v |-> <<line[p + 2]>>]]>>
                              \o BodyFrom(line, p + 3)
<1> DEFINE key == [ok |-> TRUE, i |-> p + 1, v |-> <<line[p]>>]
           val == [ok |-> TRUE, i |-> p + 3, v |-> <<line[p + 2]>>]
<1>0. Len(line) \in Nat /\ p + 1 <= Len(line) /\ p + 2 \in Nat \ {0} /\ (p + 2) + 1 = p + 3 /\ (p + 2) - 1 = p + 1
      /\ p \in 1 .. Len(line) /\ SP \in Stops /\ p + 2 > 1
  BY DEF Text, Stops
<1>1. readAstring(line, p) = key
  BY <1>0, ReadWord
<1>2. readAstring(line, p + 1) = val
  BY <1>0, ReadWord
<1>3. key.i = p + 1 /\ key.ok /\ val.ok /\ key.v = <<line[p]>> /\ val.i = p + 3
  OBVIOUS
<1> HIDE DEF key, val
<1>4. BodyFrom(line, at) = <<[key |-> key.v, val |-> val]>> \o BodyFrom(line, val.i)
  BY <1>0, <1>1, <1>2, <1>3, ItemTurn, SMTT(30)
<1> QED
  BY <1>3, <1>4 DEF val

\* A key with a literal.
LEMMA LiteralItem ==
  ASSUME NEW line \in Text, NEW p \in Nat \ {0}, Plain(line[p]), line[p + 1] = SP,
         NEW v \in Text, At(line, p + 2, Literal(v)), NEW at, Reaches(line, at, p)
  PROVE  LET end == p + 2 + Len(Literal(v))
         IN  BodyFrom(line, at) = <<[key |-> <<line[p]>>, val |-> [ok |-> TRUE, i |-> end, v |-> v]]>>
                                  \o BodyFrom(line, end)
<1> DEFINE end == p + 2 + Len(Literal(v))
           key == [ok |-> TRUE, i |-> p + 1, v |-> <<line[p]>>]
           val == [ok |-> TRUE, i |-> end, v |-> v]
<1>a. Literal(v) \in Text
  <2>1. <<LB, Number(Len(v)), RB>> \in Seq(Nat) /\ EOL \in Seq(Nat) /\ v \in Seq(Nat)
    BY DEF Text, LB, Number, RB, EOL, CR, LF
  <2> QED
    BY <2>1, Concat DEF Literal, Text
<1>0. Len(line) \in Nat /\ p + 1 <= Len(line) /\ (p + 1) + 1 = p + 2 /\ p + 1 \in Nat \ {0}
      /\ p \in 1 .. Len(line) /\ SP \in Stops
  BY <1>a DEF Text, Stops, At
<1>1. readAstring(line, p) = key
  BY <1>0, ReadWord
<1>2. readAstring(line, p + 1) = val
  <2>1. readAstring(line, p + 1) = [ok |-> TRUE, i |-> (p + 1) + 1 + Len(Literal(v)), v |-> v]
    BY <1>0, ReadLiteralAt
  <2> QED
    BY <1>0, <2>1
<1>3. key.i = p + 1 /\ key.ok /\ val.ok /\ key.v = <<line[p]>> /\ val.i = end
  OBVIOUS
<1> HIDE DEF key, val, end
<1>4. BodyFrom(line, at) = <<[key |-> key.v, val |-> val]>> \o BodyFrom(line, val.i)
  BY <1>0, <1>1, <1>2, <1>3, ItemTurn
<1> QED
  BY <1>3, <1>4 DEF val, end

\* A key with a list, which ends the line.
LEMMA ListItem ==
  ASSUME NEW line \in Text, NEW p \in Nat \ {0}, p + 2 <= Len(line), Plain(line[p]), line[p + 1] = SP,
         line[p + 2] = LP, line[p] \notin {Keyword.uid, Keyword.body}, NEW at, Reaches(line, at, p)
  PROVE  BodyFrom(line, at) = <<>>
<1> DEFINE key == [ok |-> TRUE, i |-> p + 1, v |-> <<line[p]>>]
           val == readAstring(line, p + 1)
<1>0. Len(line) \in Nat /\ p + 1 <= Len(line) /\ p + 1 \in Nat \ {0} /\ (p + 1) + 1 = p + 2
      /\ p \in 1 .. Len(line) /\ SP \in Stops
  BY DEF Text, Stops
<1>1. readAstring(line, p) = key
  BY <1>0, ReadWord
<1>2. ~val.ok
  BY <1>0, ReadParen
<1>3. key.i = p + 1 /\ key.ok /\ key.v = <<line[p]>>
  OBVIOUS
<1>4. key.v \notin {<<Keyword.uid>>, <<Keyword.body>>}
  BY <1>3
<1> HIDE DEF key, val
<1>5. val = readAstring(line, key.i)
  BY <1>3 DEF val
<1> QED
  BY <1>0, <1>1, <1>2, <1>3, <1>4, <1>5, ItemTurn

\* A parenthesis is passed over.
LEMMA ParenItem ==
  ASSUME NEW line \in Text, NEW p \in 1 .. Len(line), line[p] \in {LP, RP}
  PROVE  BodyFrom(line, p) = BodyFrom(line, p + 1)
<1>0. Len(line) \in Nat /\ ~(p > Len(line)) /\ line[p] # SP /\ p + 1 \in 1 .. (Len(line) + 2)
  BY DEF Text, LP, RP, SP
<1>1. skipSpace(line, p) = p
  BY <1>0, NoSpace
<1>2. BodyTurn(line, p) = Skip(p + 1)
  BY <1>0, <1>1 DEF BodyTurn
<1>3. BodyFrom(line, p) = <<>> \o BodyFrom(line, p + 1)
  <2>1. BodyFrom(line, p) = BodyTurn(line, p).out \o BodyFrom(line, BodyTurn(line, p).i)
    BY BodyStep
  <2>2. BodyTurn(line, p).out = <<>> /\ BodyTurn(line, p).i = p + 1
    BY <1>2 DEF Skip, Yield
  <2> QED
    BY <2>1, <2>2
<1>4. BodyFrom(line, p + 1) \in Seq(Item)
  BY <1>0, BodyStep
<1> QED
  BY <1>3, <1>4

\* The parenthesis at the end of a line.
LEMMA LineEnds ==
  ASSUME NEW line \in Text, line # <<>>, line[Len(line)] = RP
  PROVE  BodyFrom(line, Len(line)) = <<>>
<1>1. Len(line) \in 1 .. Len(line)
  BY DEF Text
<1>2. BodyFrom(line, Len(line)) = BodyFrom(line, Len(line) + 1)
  BY <1>1, ParenItem
<1> QED
  BY <1>2, BodyStep

----------------------------------------------------------------------------
(* What is made of the items.                                              *)

\* The value under a key that only one item has.
LEMMA LatestIs ==
  ASSUME NEW items \in Seq(Item), NEW j \in DOMAIN items, NEW key, items[j].key = key, items[j].val.ok,
         \A k \in DOMAIN items : k # j => items[k].key # key
  PROVE  Under(items, key) # {} /\ Latest(items, key) = items[j].val.v
<1>1. Under(items, key) = {j}
  BY DEF Under
<1>2. Max({j}) = j
  <2>1. j \in Int /\ \E x \in {j} : \A y \in {j} : x >= y
    OBVIOUS
  <2> QED
    BY <2>1 DEF Max
<1> QED
  BY <1>1, <1>2 DEF Latest

\* Where the items of a FETCH line start.
Opening == <<STAR, SP, Number(1), SP, Keyword.fetch, SP, LP>>

\* The items of a line that opens as a FETCH response.
LEMMA FetchItemsAt ==
  ASSUME NEW line \in Text, At(line, 1, Opening)
  PROVE  /\ FetchItems(line) = 7 /\ 7 <= Len(line) /\ line[7] = LP /\ line[6] = SP
         /\ BodyItems(line) = BodyFrom(line, 8)
<1> DEFINE T(j) == SubSeq(line, j, j + 2)
           want == <<SP, Keyword.fetch, SP>>
           hits == {j \in 1 .. (Len(line) - 2) : T(j) = want}
<1>0. Len(line) \in Nat /\ 7 <= Len(line) /\ line[1] = STAR /\ line[2] = SP /\ line[3] = Number(1) /\ line[4] = SP
      /\ line[5] = Keyword.fetch /\ line[6] = SP /\ line[7] = LP
  <2>1. Len(Opening) = 7 /\ Len(line) \in Nat
    BY DEF Opening, Text
  <2>2. 7 <= Len(line) /\ \A j \in 1 .. 7 : line[1 + j - 1] = Opening[j]
    BY <2>1 DEF At
  <2>3. \A j \in 1 .. 7 : line[j] = Opening[j]
    BY <2>2
  <2>4. line[1] = Opening[1] /\ line[2] = Opening[2] /\ line[3] = Opening[3] /\ line[4] = Opening[4] /\ line[5] = Opening[5]
        /\ line[6] = Opening[6] /\ line[7] = Opening[7]
    BY <2>3
  <2> QED
    BY <2>1, <2>2, <2>4 DEF Opening
<1>1. ASSUME NEW j \in 1 .. (Len(line) - 2)
      PROVE  T(j) \in Text /\ Len(T(j)) = 3 /\ T(j)[1] = line[j] /\ T(j)[2] = line[j + 1] /\ T(j)[3] = line[j + 2]
  <2>1. j \in Nat \ {0} /\ j + 2 \in Int /\ j + 2 <= Len(line) /\ j <= (j + 2) + 1 /\ (j + 2) - j + 1 = 3
    BY <1>0
  <2>2. /\ T(j) \in Seq(Nat) /\ Len(T(j)) = (j + 2) - j + 1
        /\ \A k \in 1 .. ((j + 2) - j + 1) : T(j)[k] = line[j + k - 1]
    BY <2>1, Part DEF Text
  <2>3. \A k \in 1 .. 3 : T(j)[k] = line[j + k - 1]
    BY <2>1, <2>2
  <2> HIDE DEF T
  <2>4. T(j)[1] = line[j + 1 - 1] /\ T(j)[2] = line[j + 2 - 1] /\ T(j)[3] = line[j + 3 - 1]
    BY <2>3
  <2>5. j + 1 - 1 = j /\ j + 2 - 1 = j + 1 /\ j + 3 - 1 = j + 2
    BY <2>1
  <2>6. T(j)[1] = line[j] /\ T(j)[2] = line[j + 1] /\ T(j)[3] = line[j + 2]
    BY <2>4, <2>5
  <2>7. T(j) \in Text /\ Len(T(j)) = 3
    BY <2>1, <2>2 DEF Text
  <2> QED
    BY <2>6, <2>7
<1>2. want \in Text /\ Len(want) = 3 /\ want[1] = SP /\ want[2] = Keyword.fetch /\ want[3] = SP
  BY DEF Text, SP, Keyword
<1> HIDE DEF T, want
<1>3. 4 \in hits
  <2>1. 4 \in 1 .. (Len(line) - 2)
    BY <1>0
  <2>2. \A k \in 1 .. 3 : T(4)[k] = want[k]
    BY <1>0, <1>1, <1>2, <2>1
  <2>a. T(4) \in Text /\ Len(T(4)) = 3
    BY <1>1, <2>1
  <2>b. \A k \in 1 .. Len(T(4)) : T(4)[k] = want[k]
    BY <2>2, <2>a
  <2>3. T(4) = want
    BY <1>2, <2>a, <2>b, SameSeq DEF Text
  <2> QED
    BY <2>1, <2>3
<1>4. ASSUME NEW j \in hits PROVE 4 <= j
  <2>1. j \in 1 .. (Len(line) - 2) /\ line[j] = SP /\ line[j + 1] = Keyword.fetch
    BY <1>1, <1>2
  <2>2. j # 1 /\ j # 2 /\ j # 3
    BY <1>0, <2>1, SMTT(30) DEF STAR, SP, Number, Keyword
  <2> QED
    BY <1>0, <2>1, <2>2
<1>5. Min(hits) = 4
  <2>1. hits \subseteq Int
    OBVIOUS
  <2> HIDE DEF hits
  <2>2. Min(hits) \in hits /\ \A y \in hits : Min(hits) <= y
    BY <1>3, <1>4 DEF Min
  <2>3. Min(hits) \in Int /\ Min(hits) <= 4 /\ 4 <= Min(hits)
    BY <1>3, <1>4, <2>1, <2>2
  <2> QED
    BY <2>3
<1>6. FetchItems(line) = 7
  <2>1. hits # {} /\ line # <<>>
    BY <1>0, <1>3
  <2>2. hits = {j \in 1 .. (Len(line) - 2) : SubSeq(line, j, j + 2) = <<SP, Keyword.fetch, SP>>}
    BY DEF T, want
  <2> HIDE DEF hits
  <2> QED
    BY <1>0, <1>5, <2>1, <2>2 DEF FetchItems
<1>7. BodyItems(line) = BodyFrom(line, 7)
  BY <1>6 DEF BodyItems, Items, BodyFrom, BodyTurns
<1>8. BodyFrom(line, 7) = BodyFrom(line, 8)
  BY <1>0, ParenItem
<1> QED
  BY <1>0, <1>6, <1>7, <1>8

----------------------------------------------------------------------------
(* splitLines().                                                           *)

\* The lines that can be read from p on in n octets.
LineFrom(p, n) == [text : Text, i : (p + 1) .. (n + 2)]

\* The text up to the next line feed, and the position after it.
LEMMA UptoRange ==
  ASSUME NEW s \in Text, NEW p \in 1 .. (Len(s) + 1)
  PROVE  Upto(s, p) \in LineFrom(p, Len(s))
<1> DEFINE eol == FirstAt(s, p, {LF})
           cut == IF eol > p /\ s[eol - 1] = CR THEN eol - 2 ELSE eol - 1
<1>0. Len(s) \in Nat /\ p \in Nat \ {0}
  BY DEF Text
<1>1. eol \in p .. (Len(s) + 1)
  BY <1>0, FirstAtRange
<1>2. Upto(s, p) = [text |-> SubSeq(s, p, cut), i |-> eol + 1]
  BY DEF Upto
<1> HIDE DEF eol
<1>3. cut \in Int /\ cut <= Len(s) /\ p <= cut + 1
  BY <1>0, <1>1
<1> HIDE DEF cut
<1>4. SubSeq(s, p, cut) \in Text
  BY <1>0, <1>3, Part DEF Text
<1>5. eol + 1 \in (p + 1) .. (Len(s) + 2)
  BY <1>0, <1>1
<1> QED
  BY <1>2, <1>4, <1>5 DEF LineFrom

\* The length a line announces, if it does.
LEMMA LiteralLenRange ==
  ASSUME NEW line \in Text
  PROVE  LiteralLen(line) \in Nat \cup {-1}
<1>1. CASE LiteralLen(line) = -1
  BY <1>1
<1>2. CASE LiteralLen(line) # -1
  <2> DEFINE brace == Len(line) - 2
  <2>0. Len(line) \in Nat
    BY DEF Text
  <2>1. brace > 0 /\ IsNumber(line[brace + 1]) /\ LiteralLen(line) = line[brace + 1] - 2000
    BY <1>2 DEF LiteralLen
  <2>2. line[brace + 1] \in Nat
    <3>1. brace + 1 \in 1 .. Len(line)
      BY <2>0, <2>1
    <3> QED
      BY <3>1 DEF Text
  <2> QED
    BY <2>1, <2>2 DEF IsNumber
<1> QED
  BY <1>1, <1>2

\* A line that goes on still ends within the text.
LEMMA LongerRange ==
  ASSUME NEW s \in Text, NEW p \in 1 .. (Len(s) + 1), NEW line \in LineFrom(p, Len(s))
  PROVE  Longer(s, line) \in LineFrom(p, Len(s))
<1> DEFINE n == LiteralLen(line.text)
           rest == Upto(s, line.i + n)
           mid == SubSeq(s, line.i, line.i + n - 1)
<1>0. Len(s) \in Nat /\ line.text \in Text /\ line.i \in (p + 1) .. (Len(s) + 2) /\ p \in Nat \ {0}
  BY DEF Text, LineFrom
<1>1. n \in Nat \cup {-1}
  BY <1>0, LiteralLenRange
<1>2. CASE n < 0 \/ line.i + n > Len(s) + 1
  BY <1>2 DEF Longer
<1>3. CASE ~(n < 0 \/ line.i + n > Len(s) + 1)
  <2>1. Longer(s, line) = [text |-> line.text \o <<CR, LF>> \o mid \o rest.text, i |-> rest.i]
    BY <1>3 DEF Longer
  <2> HIDE DEF n
  <2>2. n \in Nat /\ line.i + n \in 1 .. (Len(s) + 1)
    BY <1>0, <1>1, <1>3
  <2>3. rest \in LineFrom(line.i + n, Len(s))
    BY <2>2, UptoRange
  <2> HIDE DEF rest
  <2>4. rest.text \in Text /\ rest.i \in (line.i + n + 1) .. (Len(s) + 2)
    BY <2>3 DEF LineFrom
  <2>5. mid \in Text
    <3>1. line.i \in Nat \ {0} /\ line.i + n - 1 \in Int /\ line.i + n - 1 <= Len(s) /\ line.i <= (line.i + n - 1) + 1
      BY <1>0, <2>2
    <3> QED
      BY <3>1, Part DEF Text
  <2> HIDE DEF mid
  <2>6. line.text \o <<CR, LF>> \o mid \o rest.text \in Text
    <3>1. <<CR, LF>> \in Seq(Nat)
      BY DEF CR, LF
    <3> QED
      BY <1>0, <2>4, <2>5, <3>1, Concat DEF Text
  <2>7. rest.i \in (p + 1) .. (Len(s) + 2)
    BY <1>0, <2>2, <2>4
  <2> QED
    BY <2>1, <2>6, <2>7 DEF LineFrom
<1> QED
  BY <1>2, <1>3

\* The turns that make one line.
Lengthened(h, s, p, turns) ==
  /\ h \in [0 .. turns -> LineFrom(p, Len(s))] /\ h[0] = Upto(s, p)
  /\ \A k \in 1 .. turns : h[k] = Longer(s, h[k - 1])

Braces(s) == Cardinality({j \in DOMAIN s : s[j] = LB})

\* The number of turns is at least one where there is a brace.
LEMMA BracesNat ==
  ASSUME NEW s \in Text
  PROVE  Braces(s) \in Nat /\ ((\E j \in DOMAIN s : s[j] = LB) => Braces(s) >= 1)
<1> DEFINE B == {j \in DOMAIN s : s[j] = LB}
<1>1. IsFiniteSet(B)
  <2>1. IsFiniteSet(1 .. Len(s)) /\ B \subseteq 1 .. Len(s)
    <3>1. Len(s) \in Nat /\ DOMAIN s = 1 .. Len(s)
      BY DEF Text
    <3> QED
      BY <3>1, FS_Interval
  <2> QED
    BY <2>1, FS_Subset
<1>2. Cardinality(B) \in Nat /\ (Cardinality(B) = 0 <=> B = {})
  <2> HIDE DEF B
  <2> QED
    BY <1>1, FS_CardinalityType, FS_EmptySet
<1>3. (\E j \in DOMAIN s : s[j] = LB) => B # {}
  OBVIOUS
<1>4. Braces(s) = Cardinality(B)
  BY DEF Braces
<1> HIDE DEF B
<1> QED
  BY <1>2, <1>3, <1>4

\* Line() is the last of its turns.
LEMMA LineTurns ==
  ASSUME NEW s \in Text, NEW p \in 1 .. (Len(s) + 1)
  PROVE  \E h : Lengthened(h, s, p, Braces(s)) /\ Line(s, p) = h[Braces(s)]
<1> DEFINE D == LineFrom(p, Len(s))
           turns == Braces(s)
           f == [k \in 1 .. turns |-> [x \in D |-> Longer(s, x)]]
           r == Upto(s, p)
<1>0. turns \in Nat
  BY BracesNat
<1>1. r \in D
  BY UptoRange
<1>2. \A x \in D : Longer(s, x) \in D
  BY LongerRange
<1>3. f \in [1 .. turns -> [D -> D]]
  <2> HIDE DEF D, turns
  <2> QED
    BY <1>2
<1>4. \A k \in 1 .. turns, x \in D : f[k][x] = Longer(s, x)
  <2> HIDE DEF D, turns
  <2> QED
    OBVIOUS
<1>5. PICK h : IsAscent(h, turns, D, r, f)
  <2> HIDE DEF f, turns, D, r
  <2> QED
    BY <1>0, <1>1, <1>3, AscentExists
<1>6. h \in [0 .. turns -> D] /\ h[0] = r /\ \A k \in 1 .. turns : h[k] = Longer(s, h[k - 1])
  <2> HIDE DEF f, turns, D, r
  <2>1. h \in [0 .. turns -> D] /\ h[0] = r /\ \A k \in 1 .. turns : h[k] = f[k][h[k - 1]]
    BY <1>5 DEF IsAscent
  <2>2. \A k \in 1 .. turns : k - 1 \in 0 .. turns
    BY <1>0
  <2> QED
    BY <1>4, <2>1, <2>2
<1> HIDE DEF f
<1> DEFINE F(g) == [k \in 0 .. turns |-> IF k = 0 THEN Upto(s, p) ELSE Longer(s, g[k - 1])]
           G == CHOOSE g : g = F(g)
<1>7. Line(s, p) = G[turns]
  BY DEF Line, Braces
<1> HIDE DEF turns, D
<1>8. h = F(h)
  <2>1. \A k \in 0 .. turns : h[k] = F(h)[k]
    <3>1. \A k \in 0 .. turns : k = 0 \/ k \in 1 .. turns
      BY <1>0
    <3> QED
      BY <1>6, <3>1
  <2> QED
    BY <1>6, <2>1
<1>9. G = F(G)
  BY <1>8
<1> HIDE DEF G
<1>10. G[0] = Upto(s, p) /\ \A k \in 1 .. turns : G[k] = Longer(s, G[k - 1])
  <2>1. \A k \in 0 .. turns : G[k] = IF k = 0 THEN Upto(s, p) ELSE Longer(s, G[k - 1])
    BY <1>9
  <2>2. 0 \in 0 .. turns /\ \A k \in 1 .. turns : k \in 0 .. turns /\ k # 0
    BY <1>0
  <2> QED
    BY <2>1, <2>2
<1> DEFINE S == {k \in 0 .. turns : G[k] = h[k]}
<1>11. 0 \in S
  BY <1>0, <1>6, <1>10
<1>12. ASSUME NEW l \in 0 .. (turns - 1), l \in S PROVE l + 1 \in S
  <2>1. l + 1 \in 1 .. turns /\ (l + 1) - 1 = l /\ l + 1 \in 0 .. turns
    BY <1>0
  <2>2. G[l + 1] = Longer(s, G[l]) /\ h[l + 1] = Longer(s, h[l])
    BY <1>6, <1>10, <2>1
  <2> QED
    BY <1>12, <2>1, <2>2
<1>13. 0 .. turns \subseteq S
  <2> HIDE DEF S
  <2> QED
    BY <1>0, <1>11, <1>12, UpTo
<1>14. G[turns] = h[turns]
  BY <1>0, <1>13
<1>15. Lengthened(h, s, p, turns)
  BY <1>6 DEF Lengthened, D
<1> QED
  BY <1>7, <1>14, <1>15 DEF turns

\* Line() ends within the text.
LEMMA LineRange ==
  ASSUME NEW s \in Text, NEW p \in 1 .. (Len(s) + 1)
  PROVE  Line(s, p) \in LineFrom(p, Len(s))
<1>1. PICK h : Lengthened(h, s, p, Braces(s)) /\ Line(s, p) = h[Braces(s)]
  BY LineTurns
<1>2. Braces(s) \in 0 .. Braces(s)
  BY BracesNat
<1> QED
  BY <1>1, <1>2 DEF Lengthened

\* A line that no brace continues stays as it is.
LEMMA Complete1 ==
  ASSUME NEW s \in Text, NEW p \in 1 .. (Len(s) + 1), NEW h, NEW k \in 0 .. Braces(s),
         Lengthened(h, s, p, Braces(s)), LiteralLen(h[k].text) = -1
  PROVE  h[Braces(s)] = h[k]
<1> DEFINE n == Braces(s) - k
           S == {l \in 0 .. n : h[k + l] = h[k]}
<1>0. Braces(s) \in Nat /\ n \in Nat /\ k + n = Braces(s) /\ k + 0 = k
  BY BracesNat
<1>1. 0 \in S
  BY <1>0
<1>2. ASSUME NEW l \in 0 .. (n - 1), l \in S PROVE l + 1 \in S
  <2>1. k + l + 1 \in 1 .. Braces(s) /\ (k + l + 1) - 1 = k + l /\ k + (l + 1) = k + l + 1 /\ l + 1 \in 0 .. n
    BY <1>0
  <2>2. h[k + l + 1] = Longer(s, h[k + l])
    BY <2>1 DEF Lengthened
  <2>3. h[k + l] = h[k]
    BY <1>2
  <2>4. Longer(s, h[k]) = h[k]
    BY DEF Longer
  <2> QED
    BY <2>1, <2>2, <2>3, <2>4
<1>3. 0 .. n \subseteq S
  <2> HIDE DEF S, n
  <2> QED
    BY <1>0, <1>1, <1>2, UpTo
<1>4. n \in S
  <2> HIDE DEF S
  <2> QED
    BY <1>0, <1>3
<1> QED
  BY <1>0, <1>4

\* A piece of s up to a line feed with a carriage return before it.
LEMMA UptoIs ==
  ASSUME NEW s \in Text, NEW p \in Nat \ {0}, NEW e \in Nat, p < e, e <= Len(s), s[e] = LF, s[e - 1] = CR,
         \A j \in p .. (e - 1) : s[j] # LF
  PROVE  Upto(s, p) = [text |-> SubSeq(s, p, e - 2), i |-> e + 1]
<1>0. Len(s) \in Nat /\ e \in p .. Len(s)
  BY DEF Text
<1>1. FirstAt(s, p, {LF}) = e
  BY <1>0, FirstAtIs, ZenonT(30)
<1> QED
  BY <1>1 DEF Upto

\* A line that splitLines() reads whole: one without a line feed, or one in which
\* the only line feeds are those of one literal; nothing after it looks like
\* the start of another.
PlainLine(T) == T # <<>> /\ T[Len(T)] # RB /\ \A j \in 1 .. Len(T) : T[j] # LF
LiteralLine(T, c, n) ==
  /\ c \in Nat \ {0} /\ n \in Nat /\ c + 5 + n <= Len(T)
  /\ T[c] = LB /\ T[c + 1] = Number(n) /\ T[c + 2] = RB /\ T[c + 3] = CR /\ T[c + 4] = LF
  /\ \A j \in 1 .. (c + 3) : T[j] # LF
  /\ \A j \in (c + 5 + n) .. Len(T) : T[j] # LF
  /\ T[Len(T)] # RB
Whole(T) == PlainLine(T) \/ \E c, n : LiteralLine(T, c, n)

\* A line that does not end in a brace announces no literal.
LEMMA NoLiteral ==
  ASSUME NEW T \in Text, T # <<>>, T[Len(T)] # RB
  PROVE  LiteralLen(T) = -1
  BY DEF LiteralLen, Last, Text

\* The octets of a line and its end, where they stand.
LEMMA LineAt ==
  ASSUME NEW s \in Text, NEW p \in Nat \ {0}, NEW T \in Text, At(s, p, T \o EOL)
  PROVE  /\ p + Len(T) + 2 <= Len(s) + 1 /\ At(s, p, T)
         /\ \A j \in 1 .. Len(T) : s[p + j - 1] = T[j]
         /\ s[p + Len(T)] = CR /\ s[p + Len(T) + 1] = LF
<1>0. EOL \in Text /\ Len(EOL) = 2 /\ EOL[1] = CR /\ EOL[2] = LF /\ Len(T) \in Nat /\ Len(s) \in Nat
  BY DEF EOL, Text, CR, LF
<1>1. At(s, p, T) /\ At(s, p + Len(T), EOL)
  BY <1>0, AtConcat
<1>2. p + Len(T) + 2 <= Len(s) + 1 /\ \A j \in 1 .. 2 : s[p + Len(T) + j - 1] = EOL[j]
  BY <1>0, <1>1 DEF At
<1>3. s[p + Len(T) + 1 - 1] = CR /\ s[p + Len(T) + 2 - 1] = LF
  BY <1>0, <1>2
<1>4. p + Len(T) + 1 - 1 = p + Len(T) /\ p + Len(T) + 2 - 1 = p + Len(T) + 1
  BY <1>0
<1>5. \A j \in 1 .. Len(T) : s[p + j - 1] = T[j]
  BY <1>1 DEF At
<1> QED
  BY <1>1, <1>2, <1>3, <1>4, <1>5

\* A line without a line feed is found as it is.
LEMMA PlainLineIs ==
  ASSUME NEW s \in Text, NEW p \in Nat \ {0}, NEW T \in Text, At(s, p, T \o EOL), PlainLine(T)
  PROVE  Line(s, p) = [text |-> T, i |-> p + Len(T) + 2]
<1> DEFINE n == Len(T)
           e == p + n + 1
<1>0. n \in Nat /\ Len(s) \in Nat /\ p + n + 2 <= Len(s) + 1 /\ At(s, p, T) /\ p \in 1 .. (Len(s) + 1)
      /\ (\A j \in 1 .. n : s[p + j - 1] = T[j]) /\ s[p + n] = CR /\ s[p + n + 1] = LF
  BY LineAt DEF Text
<1>1. e \in Nat /\ p < e /\ e <= Len(s) /\ s[e] = LF /\ s[e - 1] = CR /\ e - 2 = p + n - 1 /\ e + 1 = p + n + 2
  <2>1. e - 1 = p + n
    BY <1>0
  <2> QED
    BY <1>0, <2>1
<1>2. ASSUME NEW j \in p .. (e - 1) PROVE s[j] # LF
  <2>1. CASE j = p + n
    BY <1>0, <2>1 DEF CR, LF
  <2>2. CASE j < p + n
    <3>1. (j - p + 1) \in 1 .. n /\ p + (j - p + 1) - 1 = j
      BY <1>0, <2>2
    <3>2. s[j] = T[j - p + 1]
      BY <1>0, <3>1
    <3> QED
      BY <3>1, <3>2 DEF PlainLine
  <2> QED
    BY <1>0, <2>1, <2>2
<1>3. Upto(s, p) = [text |-> SubSeq(s, p, e - 2), i |-> e + 1]
  <2> HIDE DEF e
  <2> QED
    BY <1>1, <1>2, UptoIs
<1>4. SubSeq(s, p, p + n - 1) = T
  BY <1>0, AtPart
<1> HIDE DEF e, n
<1>5. Upto(s, p) = [text |-> T, i |-> p + n + 2]
  BY <1>1, <1>3, <1>4
<1>6. PICK h : Lengthened(h, s, p, Braces(s)) /\ Line(s, p) = h[Braces(s)]
  BY <1>0, LineTurns
<1>7. h[0] = [text |-> T, i |-> p + n + 2] /\ 0 \in 0 .. Braces(s)
  BY <1>5, <1>6, BracesNat DEF Lengthened
<1>8. LiteralLen(h[0].text) = -1
  BY <1>7, NoLiteral DEF PlainLine
<1>9. h[Braces(s)] = h[0]
  BY <1>0, <1>6, <1>7, <1>8, Complete1
<1> QED
  BY <1>6, <1>7, <1>9 DEF n

\* A line with a literal is found whole, whatever the octets of the literal.
LEMMA LiteralLineIs ==
  ASSUME NEW s \in Text, NEW p \in Nat \ {0}, NEW T \in Text, At(s, p, T \o EOL),
         NEW c, NEW n, LiteralLine(T, c, n)
  PROVE  Line(s, p) = [text |-> T, i |-> p + Len(T) + 2]
<1> DEFINE m == Len(T)
<1>0. m \in Nat /\ Len(s) \in Nat /\ p + m + 2 <= Len(s) + 1 /\ At(s, p, T) /\ p \in 1 .. (Len(s) + 1)
      /\ (\A j \in 1 .. m : s[p + j - 1] = T[j]) /\ s[p + m] = CR /\ s[p + m + 1] = LF
  BY LineAt DEF Text
<1>c. c \in Nat \ {0} /\ n \in Nat /\ c + 5 + n <= m
  BY DEF LiteralLine
<1> HIDE DEF m
<1> DEFINE a == SubSeq(s, p, p + c + 1)
           q == p + c + 4
           b == SubSeq(s, q, q + n - 1)
           r == q + n
           d == SubSeq(s, r, p + m - 1)
           first == [text |-> a, i |-> q]
\* the line up to the brace
<1>1. Upto(s, p) = first
  <2> DEFINE e == p + c + 3
  <2>1. e \in Nat /\ p < e /\ e <= Len(s) /\ e - 2 = p + c + 1 /\ e + 1 = q
    BY <1>0, <1>c
  <2>2. s[e] = LF /\ s[e - 1] = CR
    <3>1. c + 4 \in 1 .. m /\ c + 3 \in 1 .. m /\ p + (c + 4) - 1 = e /\ p + (c + 3) - 1 = e - 1
      BY <1>0, <1>c
    <3>2. s[p + (c + 4) - 1] = T[c + 4] /\ s[p + (c + 3) - 1] = T[c + 3]
      BY <1>0, <3>1
    <3> QED
      BY <3>1, <3>2 DEF LiteralLine
  <2>3. ASSUME NEW j \in p .. (e - 1) PROVE s[j] # LF
    <3>1. (j - p + 1) \in 1 .. (c + 3) /\ (j - p + 1) \in 1 .. m /\ p + (j - p + 1) - 1 = j
      BY <1>0, <1>c
    <3>2. s[j] = T[j - p + 1]
      BY <1>0, <3>1
    <3> QED
      BY <3>1, <3>2 DEF LiteralLine
  <2> HIDE DEF e
  <2>4. Upto(s, p) = [text |-> SubSeq(s, p, e - 2), i |-> e + 1]
    BY <2>1, <2>2, <2>3, UptoIs
  <2> QED
    BY <2>1, <2>4
<1>2. a \in Text /\ Len(a) = c + 2 /\ \A k \in 1 .. (c + 2) : a[k] = T[k]
  <2>1. p + c + 1 \in Int /\ p + c + 1 <= Len(s) /\ p <= (p + c + 1) + 1 /\ (p + c + 1) - p + 1 = c + 2
    BY <1>0, <1>c
  <2>2. a \in Seq(Nat) /\ Len(a) = (p + c + 1) - p + 1 /\ \A k \in 1 .. ((p + c + 1) - p + 1) : a[k] = s[p + k - 1]
    BY <2>1, Part DEF Text
  <2> HIDE DEF a
  <2>3. \A k \in 1 .. (c + 2) : k \in 1 .. m
    BY <1>0, <1>c
  <2> QED
    BY <1>0, <2>1, <2>2, <2>3 DEF Text
<1>3. b \in Text /\ Len(b) = n /\ \A k \in 1 .. n : b[k] = T[c + 4 + k]
  <2>1. q \in Nat \ {0} /\ q + n - 1 \in Int /\ q + n - 1 <= Len(s) /\ q <= (q + n - 1) + 1 /\ (q + n - 1) - q + 1 = n
    BY <1>0, <1>c
  <2>2. b \in Seq(Nat) /\ Len(b) = (q + n - 1) - q + 1 /\ \A k \in 1 .. ((q + n - 1) - q + 1) : b[k] = s[q + k - 1]
    <3> DEFINE e == q + n - 1
    <3>1. q \in Nat \ {0} /\ e \in Int /\ e <= Len(s) /\ q <= e + 1 /\ s \in Seq(Nat)
      BY <2>1 DEF Text
    <3>2. b = SubSeq(s, q, e)
      OBVIOUS
    <3> HIDE DEF q, e, b
    <3>3. SubSeq(s, q, e) \in Seq(Nat) /\ Len(SubSeq(s, q, e)) = e - q + 1
          /\ \A k \in 1 .. (e - q + 1) : SubSeq(s, q, e)[k] = s[q + k - 1]
      BY <3>1, Part
    <3> QED
      BY <3>2, <3>3 DEF e
  <2> HIDE DEF b
  <2>3. ASSUME NEW k \in 1 .. n PROVE b[k] = T[c + 4 + k]
    <3>1. c + 4 + k \in 1 .. m /\ p + (c + 4 + k) - 1 = q + k - 1
      BY <1>0, <1>c
    <3>2. s[p + (c + 4 + k) - 1] = T[c + 4 + k]
      BY <1>0, <3>1
    <3> QED
      BY <2>1, <2>2, <3>1, <3>2
  <2> QED
    BY <2>1, <2>2, <2>3 DEF Text
<1>4. d \in Text /\ Len(d) = m - (c + 4 + n) /\ \A k \in 1 .. (m - (c + 4 + n)) : d[k] = T[c + 4 + n + k]
  <2>1. r \in Nat \ {0} /\ p + m - 1 \in Int /\ p + m - 1 <= Len(s) /\ r <= (p + m - 1) + 1
        /\ (p + m - 1) - r + 1 = m - (c + 4 + n)
    BY <1>0, <1>c
  <2>2. d \in Seq(Nat) /\ Len(d) = (p + m - 1) - r + 1 /\ \A k \in 1 .. ((p + m - 1) - r + 1) : d[k] = s[r + k - 1]
    <3> DEFINE e == p + m - 1
    <3>1. r \in Nat \ {0} /\ e \in Int /\ e <= Len(s) /\ r <= e + 1 /\ s \in Seq(Nat)
      BY <2>1 DEF Text
    <3>2. d = SubSeq(s, r, e)
      OBVIOUS
    <3> HIDE DEF r, e, d
    <3>3. SubSeq(s, r, e) \in Seq(Nat) /\ Len(SubSeq(s, r, e)) = e - r + 1
          /\ \A k \in 1 .. (e - r + 1) : SubSeq(s, r, e)[k] = s[r + k - 1]
      BY <3>1, Part
    <3> QED
      BY <3>2, <3>3 DEF e
  <2> HIDE DEF d
  <2>3. ASSUME NEW k \in 1 .. (m - (c + 4 + n)) PROVE d[k] = T[c + 4 + n + k]
    <3>1. c + 4 + n + k \in 1 .. m /\ p + (c + 4 + n + k) - 1 = r + k - 1
      BY <1>0, <1>c
    <3>2. s[p + (c + 4 + n + k) - 1] = T[c + 4 + n + k]
      BY <1>0, <3>1
    <3> QED
      BY <2>1, <2>2, <3>1, <3>2
  <2> QED
    BY <2>1, <2>2, <2>3 DEF Text
<1>5. Upto(s, r) = [text |-> d, i |-> p + m + 2]
  <2> DEFINE e == p + m + 1
  <2>1. e \in Nat /\ r < e /\ e <= Len(s) /\ e - 2 = p + m - 1 /\ e + 1 = p + m + 2 /\ e - 1 = p + m /\ r \in Nat \ {0}
    BY <1>0, <1>c
  <2>2. s[e] = LF /\ s[e - 1] = CR
    BY <1>0, <2>1
  <2>3. ASSUME NEW j \in r .. (e - 1) PROVE s[j] # LF
    <3>1. CASE j = p + m
      BY <1>0, <3>1 DEF CR, LF
    <3>2. CASE j # p + m
      <4>1. (j - p + 1) \in (c + 5 + n) .. m /\ (j - p + 1) \in 1 .. m /\ p + (j - p + 1) - 1 = j
        BY <1>0, <1>c, <3>2
      <4>2. s[j] = T[j - p + 1]
        BY <1>0, <4>1
      <4> QED
        BY <4>1, <4>2 DEF LiteralLine, m
    <3> QED
      BY <3>1, <3>2
  <2> HIDE DEF e, r
  <2>4. Upto(s, r) = [text |-> SubSeq(s, r, e - 2), i |-> e + 1]
    BY <2>1, <2>2, <2>3, UptoIs
  <2> QED
    BY <2>1, <2>4
<1> HIDE DEF a, b, d
<1>6. LiteralLen(a) = n
  <2>1. Len(a) - 2 = c /\ c > 0 /\ a[c] = LB /\ a[c + 1] = Number(n) /\ a[c + 2] = RB
    BY <1>2, <1>c DEF LiteralLine
  <2>2. Last(a) = RB
    BY <1>2, <2>1 DEF Last
  <2>3. IsNumber(Number(n)) /\ Number(n) - 2000 = n
    BY <1>c DEF IsNumber, Number
  <2> QED
    BY <2>1, <2>2, <2>3 DEF LiteralLen
<1> DEFINE x == a \o <<CR, LF>> \o b \o d
<1>7. Longer(s, first) = [text |-> x, i |-> p + m + 2]
  <2>1. ~(n < 0) /\ ~(q + n > Len(s) + 1) /\ first.i = q /\ first.text = a
    BY <1>0, <1>c
  <2>2. Upto(s, first.i + n) = [text |-> d, i |-> p + m + 2]
    BY <1>5, <2>1
  <2>3. SubSeq(s, first.i, first.i + n - 1) = b
    BY <2>1 DEF b
  <2> DEFINE k == LiteralLen(first.text)
             rest == Upto(s, first.i + k)
  <2>4. Longer(s, first) =
          IF k < 0 \/ first.i + k > Len(s) + 1 THEN first
          ELSE [text |-> first.text \o <<CR, LF>> \o SubSeq(s, first.i, first.i + k - 1) \o rest.text, i |-> rest.i]
    BY Zenon DEF Longer
  <2>5. k = n /\ rest = [text |-> d, i |-> p + m + 2]
    BY <1>6, <2>1, <2>2
  <2> HIDE DEF first, k, rest
  <2>6. ~(k < 0 \/ first.i + k > Len(s) + 1) /\ SubSeq(s, first.i, first.i + k - 1) = b
    BY <2>1, <2>3, <2>5
  <2> QED
    BY <2>1, <2>4, <2>5, <2>6
<1>8. x = T
  <2> DEFINE y == a \o <<CR, LF>>
             z == y \o b
  <2>1. y \in Text /\ Len(y) = c + 4 /\ \A k \in 1 .. (c + 4) : y[k] = T[k]
    <3>1. <<CR, LF>> \in Seq(Nat) /\ Len(<<CR, LF>>) = 2 /\ <<CR, LF>>[1] = CR /\ <<CR, LF>>[2] = LF
      BY DEF CR, LF
    <3>2. y \in Seq(Nat) /\ Len(y) = Len(a) + 2 /\ (\A k \in 1 .. Len(a) : y[k] = a[k])
          /\ \A k \in 1 .. 2 : y[Len(a) + k] = <<CR, LF>>[k]
      BY <1>2, <3>1, Concat, SMTT(30) DEF Text
    <3>3. y[Len(a) + 1] = CR /\ y[Len(a) + 2] = LF
      BY <3>1, <3>2
    <3> HIDE DEF y
    <3>4. y[c + 3] = T[c + 3] /\ y[c + 4] = T[c + 4]
      <4>1. Len(a) + 1 = c + 3 /\ Len(a) + 2 = c + 4
        BY <1>2, <1>c
      <4> QED
        BY <3>3, <4>1 DEF LiteralLine
    <3>5. \A k \in 1 .. (c + 4) : k \in 1 .. (c + 2) \/ k = c + 3 \/ k = c + 4
      BY <1>c
    <3>6. \A k \in 1 .. (c + 2) : y[k] = T[k]
      BY <1>2, <3>2
    <3>7. \A k \in 1 .. (c + 4) : y[k] = T[k]
      BY <3>4, <3>5, <3>6
    <3>8. Len(y) = c + 4
      BY <1>2, <1>c, <3>2
    <3> QED
      BY <3>2, <3>7, <3>8 DEF Text
  <2> HIDE DEF y
  <2>2. z \in Text /\ Len(z) = c + 4 + n /\ \A k \in 1 .. (c + 4 + n) : z[k] = T[k]
    <3>1. z \in Seq(Nat) /\ Len(z) = Len(y) + Len(b) /\ (\A k \in 1 .. Len(y) : z[k] = y[k])
          /\ \A k \in 1 .. Len(b) : z[Len(y) + k] = b[k]
      <4>1. y \in Seq(Nat) /\ b \in Seq(Nat)
        BY <1>3, <2>1 DEF Text
      <4> QED
        BY <4>1, Concat
    <3> HIDE DEF z
    <3>2. ASSUME NEW k \in 1 .. (c + 4 + n) PROVE z[k] = T[k]
      <4>1. CASE k <= c + 4
        BY <1>c, <2>1, <3>1, <4>1
      <4>2. CASE k > c + 4
        <5>1. k - (c + 4) \in 1 .. n /\ (c + 4) + (k - (c + 4)) = k
          BY <1>c, <4>2
        <5>2. z[(c + 4) + (k - (c + 4))] = b[k - (c + 4)]
          BY <1>3, <2>1, <3>1, <5>1
        <5>3. b[k - (c + 4)] = T[c + 4 + (k - (c + 4))]
          BY <1>3, <5>1
        <5> QED
          BY <5>1, <5>2, <5>3
      <4> QED
        BY <1>c, <4>1, <4>2
    <3> QED
      BY <1>3, <2>1, <3>1, <3>2 DEF Text
  <2>3. x = z \o d
    BY DEF y
  <2> HIDE DEF z, x
  <2>4. x \in Seq(Nat) /\ Len(x) = Len(z) + Len(d) /\ (\A k \in 1 .. Len(z) : x[k] = z[k])
        /\ \A k \in 1 .. Len(d) : x[Len(z) + k] = d[k]
    <3>1. z \in Seq(Nat) /\ d \in Seq(Nat)
      BY <1>4, <2>2 DEF Text
    <3> QED
      BY <2>3, <3>1, Concat
  <2>5. Len(x) = m
    BY <1>0, <1>c, <1>4, <2>2, <2>4
  <2>6. ASSUME NEW k \in 1 .. m PROVE x[k] = T[k]
    <3> DEFINE w == c + 4 + n
    <3>0. w \in Nat /\ Len(z) = w /\ Len(d) = m - w
      BY <1>c, <1>4, <2>2
    <3>1. CASE k <= w
      BY <1>c, <2>2, <2>4, <3>0, <3>1
    <3>2. CASE k > w
      <4>0. m \in Nat /\ w \in Nat
        BY <1>0, <3>0
      <4>1. k - w \in 1 .. (m - w) /\ w + (k - w) = k
        <5> HIDE DEF w
        <5> QED
          BY <3>2, <4>0
      <4>2. x[w + (k - w)] = d[k - w]
        BY <2>4, <3>0, <4>1
      <4>3. d[k - w] = T[w + (k - w)]
        BY <1>4, <4>1
      <4> HIDE DEF w
      <4> QED
        BY <4>1, <4>2, <4>3
    <3> QED
      BY <3>0, <3>1, <3>2
  <2> QED
    BY <2>4, <2>5, <2>6, SameSeq DEF Text, m
<1>9. Longer(s, first) = [text |-> T, i |-> p + m + 2]
  BY <1>7, <1>8
<1>10. PICK h : Lengthened(h, s, p, Braces(s)) /\ Line(s, p) = h[Braces(s)]
  BY <1>0, LineTurns
<1>11. Braces(s) \in Nat /\ Braces(s) >= 1
  <2>1. p + c - 1 \in DOMAIN s /\ c \in 1 .. m
    <3>1. DOMAIN s = 1 .. Len(s)
      BY DEF Text
    <3> QED
      BY <1>0, <1>c, <3>1
  <2>2. s[p + c - 1] = LB
    BY <1>0, <2>1 DEF LiteralLine
  <2> QED
    BY <2>1, <2>2, BracesNat
<1>12. h[1] = [text |-> T, i |-> p + m + 2] /\ 1 \in 0 .. Braces(s)
  <2>1. 1 \in 1 .. Braces(s) /\ 1 - 1 = 0 /\ 1 \in 0 .. Braces(s)
    BY <1>11
  <2>2. h[1] = Longer(s, h[0]) /\ h[0] = first
    BY <1>1, <1>10, <2>1 DEF Lengthened
  <2> QED
    BY <1>9, <2>1, <2>2
<1>13. LiteralLen(h[1].text) = -1
  <2>1. T # <<>> /\ T[Len(T)] # RB
    BY <1>0, <1>c DEF LiteralLine, m
  <2> QED
    BY <1>12, <2>1, NoLiteral
<1>14. h[Braces(s)] = h[1]
  BY <1>0, <1>10, <1>12, <1>13, Complete1, SMTT(30)
<1> QED
  BY <1>10, <1>12, <1>14 DEF m

\* What stands in a text stands in a longer one.
LEMMA AtLonger ==
  ASSUME NEW a \in Text, NEW b \in Text
  PROVE  /\ \A p \in Nat \ {0}, w \in Text : At(a, p, w) => At(a \o b, p, w)
         /\ At(a \o b, Len(a) + 1, b)
<1> DEFINE c == a \o b
<1>0. Len(a) \in Nat /\ Len(b) \in Nat /\ a \in Seq(Nat) /\ b \in Seq(Nat)
  BY DEF Text
<1>1. Len(c) = Len(a) + Len(b) /\ (\A i \in 1 .. Len(a) : c[i] = a[i]) /\ \A i \in 1 .. Len(b) : c[Len(a) + i] = b[i]
  BY <1>0, Concat
<1> HIDE DEF c
<1>2. ASSUME NEW p \in Nat \ {0}, NEW w \in Text, At(a, p, w) PROVE At(c, p, w)
  <2>0. Len(w) \in Nat /\ p + Len(w) <= Len(a) + 1 /\ \A j \in 1 .. Len(w) : a[p + j - 1] = w[j]
    BY <1>2 DEF At, Text
  <2>1. \A j \in 1 .. Len(w) : p + j - 1 \in 1 .. Len(a)
    BY <1>0, <2>0
  <2>2. p + Len(w) <= Len(c) + 1
    BY <1>0, <1>1, <2>0
  <2>3. \A j \in 1 .. Len(w) : c[p + j - 1] = w[j]
    BY <1>1, <2>0, <2>1
  <2> QED
    BY <2>2, <2>3 DEF At
<1>3. At(c, Len(a) + 1, b)
  <2>1. ASSUME NEW j \in 1 .. Len(b) PROVE c[Len(a) + 1 + j - 1] = b[j]
    <3>1. Len(a) + 1 + j - 1 = Len(a) + j
      BY <1>0
    <3> QED
      BY <1>1, <3>1
  <2> QED
    BY <1>0, <1>1, <2>1 DEF At
<1> QED
  BY <1>2, <1>3 DEF c

\* Every part of a flattened sequence stands where the ones before it end.
LEMMA PartsAt ==
  ASSUME NEW seqs \in Seq(Text), NEW h, Partial(h, seqs, Nat)
  PROVE  \A k \in 1 .. Len(seqs) : /\ At(h[Len(seqs)], Len(h[k - 1]) + 1, seqs[k])
                                   /\ Len(h[k]) = Len(h[k - 1]) + Len(seqs[k])
<1> DEFINE n == Len(seqs)
           Good(m) == \A k \in 1 .. m : At(h[m], Len(h[k - 1]) + 1, seqs[k])
           S == {m \in 0 .. n : Good(m)}
<1>0. n \in Nat /\ h \in [0 .. n -> Text] /\ (\A k \in 1 .. n : h[k] = h[k - 1] \o seqs[k] /\ seqs[k] \in Text)
  <2>1. n \in Nat /\ \A k \in 1 .. n : seqs[k] \in Text
    OBVIOUS
  <2>2. h \in [0 .. n -> Text] /\ \A k \in 1 .. n : h[k] = h[k - 1] \o seqs[k]
    BY DEF Partial, Text
  <2> QED
    BY <2>1, <2>2
<1>1. \A k \in 1 .. n : k - 1 \in 0 .. n /\ h[k - 1] \in Text /\ Len(h[k - 1]) + 1 \in Nat \ {0}
  <2>1. \A x \in Text : Len(x) + 1 \in Nat \ {0}
    BY DEF Text
  <2>2. \A k \in 1 .. n : k - 1 \in 0 .. n
    BY <1>0
  <2> QED
    BY <1>0, <2>1, <2>2
<1> HIDE DEF n
<1>2. 0 \in S
  BY <1>0
<1>3. ASSUME NEW l \in 0 .. (n - 1), l \in S PROVE l + 1 \in S
  <2>1. l + 1 \in 1 .. n /\ (l + 1) - 1 = l /\ l + 1 \in 0 .. n
    BY <1>0
  <2>2. h[l + 1] = h[l] \o seqs[l + 1] /\ h[l] \in Text /\ seqs[l + 1] \in Text
    BY <1>0, <1>1, <2>1
  <2>3. ASSUME NEW k \in 1 .. (l + 1) PROVE At(h[l + 1], Len(h[k - 1]) + 1, seqs[k])
    <3>1. CASE k = l + 1
      BY <2>1, <2>2, <3>1, AtLonger
    <3>2. CASE k # l + 1
      <4>1. k \in 1 .. l /\ k \in 1 .. n
        BY <1>0, <2>1, <3>2
      <4>2. At(h[l], Len(h[k - 1]) + 1, seqs[k])
        BY <1>3, <4>1
      <4>3. Len(h[k - 1]) + 1 \in Nat \ {0} /\ seqs[k] \in Text
        BY <1>0, <1>1, <4>1
      <4> QED
        BY <2>2, <4>2, <4>3, AtLonger
    <3> QED
      BY <3>1, <3>2
  <2> QED
    BY <2>1, <2>3
<1>4. 0 .. n \subseteq S
  <2> HIDE DEF S
  <2> QED
    BY <1>0, <1>2, <1>3, UpTo
<1>5. Good(n)
  <2>1. n \in 0 .. n
    BY <1>0
  <2> QED
    BY <1>4, <2>1
<1>6. ASSUME NEW k \in 1 .. n PROVE Len(h[k]) = Len(h[k - 1]) + Len(seqs[k])
  <2>1. h[k - 1] \in Seq(Nat) /\ seqs[k] \in Seq(Nat) /\ h[k] = h[k - 1] \o seqs[k]
    BY <1>0, <1>1 DEF Text
  <2> QED
    BY <2>1, Concat
<1> QED
  BY <1>5, <1>6 DEF n

\* An element and the ones after it.
LEMMA FirstThenRest ==
  ASSUME NEW D, NEW s \in Seq(D), NEW k \in 1 .. Len(s)
  PROVE  <<s[k]>> \o SubSeq(s, k + 1, Len(s)) = SubSeq(s, k, Len(s))
<1> DEFINE n == Len(s)
           a == <<s[k]>>
           b == SubSeq(s, k + 1, n)
           c == SubSeq(s, k, n)
<1>0. n \in Nat /\ a \in Seq(D) /\ Len(a) = 1 /\ a[1] = s[k]
  OBVIOUS
<1>1. k + 1 \in Nat \ {0} /\ k \in Nat \ {0} /\ n \in Int /\ n <= Len(s) /\ k + 1 <= n + 1 /\ k <= n + 1
      /\ n - (k + 1) + 1 = n - k
  BY <1>0
<1>2. b \in Seq(D) /\ Len(b) = n - (k + 1) + 1 /\ \A j \in 1 .. (n - (k + 1) + 1) : b[j] = s[(k + 1) + j - 1]
  BY <1>1, Part
<1>3. c \in Seq(D) /\ Len(c) = n - k + 1 /\ \A j \in 1 .. (n - k + 1) : c[j] = s[k + j - 1]
  BY <1>1, Part
<1> HIDE DEF a, b, c, n
<1> DEFINE x == a \o b
<1>4. x \in Seq(D) /\ Len(x) = 1 + Len(b) /\ (\A j \in 1 .. 1 : x[j] = a[j]) /\ \A j \in 1 .. Len(b) : x[1 + j] = b[j]
  <2>1. x \in Seq(D) /\ Len(x) = Len(a) + Len(b) /\ (\A j \in 1 .. Len(a) : x[j] = a[j])
        /\ \A j \in 1 .. Len(b) : x[Len(a) + j] = b[j]
    <3>1. a \in Seq(D) /\ b \in Seq(D)
      BY <1>0, <1>2
    <3> QED
      BY <3>1, Concat
  <2> HIDE DEF x
  <2> QED
    BY <1>0, <2>1
<1> HIDE DEF x
<1>5. Len(x) = Len(c)
  BY <1>0, <1>1, <1>2, <1>3, <1>4
<1>6. ASSUME NEW j \in 1 .. Len(x) PROVE x[j] = c[j]
  <2>1. CASE j = 1
    <3>1. k + 1 - 1 = k /\ 1 \in 1 .. (n - k + 1)
      BY <1>0, <1>1
    <3>2. x[1] = s[k] /\ c[1] = s[k + 1 - 1]
      BY <1>0, <1>3, <1>4, <3>1
    <3> QED
      BY <2>1, <3>1, <3>2
  <2>2. CASE j # 1
    <3>1. j - 1 \in 1 .. Len(b) /\ 1 + (j - 1) = j /\ (k + 1) + (j - 1) - 1 = k + j - 1 /\ j \in 1 .. (n - k + 1)
          /\ j - 1 \in 1 .. (n - (k + 1) + 1)
      BY <1>0, <1>1, <1>2, <1>4, <2>2
    <3>2. x[1 + (j - 1)] = b[j - 1] /\ b[j - 1] = s[(k + 1) + (j - 1) - 1] /\ c[j] = s[k + j - 1]
      BY <1>2, <1>3, <1>4, <3>1
    <3> QED
      BY <3>1, <3>2
  <2> QED
    BY <2>1, <2>2
<1>7. x = c
  BY <1>3, <1>4, <1>5, <1>6, SameSeq
<1> QED
  BY <1>7 DEF x, a, b, c, n

\* splitLines() finds the lines an answer is made of, whatever their literals
\* hold.
LEMMA SplitLines ==
  ASSUME NEW Ts \in Seq(Text), \A k \in DOMAIN Ts : Whole(Ts[k])
  PROVE  splitLines(FlattenSeq([k \in DOMAIN Ts |-> Ts[k] \o EOL])) = Ts
<1> DEFINE n == Len(Ts)
           seqs == [k \in DOMAIN Ts |-> Ts[k] \o EOL]
           A == FlattenSeq(seqs)
<1>0. n \in Nat /\ DOMAIN Ts = 1 .. n /\ (\A k \in 1 .. n : Ts[k] \in Text /\ Whole(Ts[k]))
  OBVIOUS
<1>e. EOL \in Text /\ Len(EOL) = 2
  BY DEF EOL, CR, LF, Text
<1>1. seqs \in Seq(Text) /\ Len(seqs) = n /\ \A k \in 1 .. n : seqs[k] = Ts[k] \o EOL
  <2>1. \A k \in 1 .. n : Ts[k] \o EOL \in Text
    BY <1>0, <1>e, Concat DEF Text
  <2> HIDE DEF n
  <2>2. seqs \in [1 .. n -> Text]
    BY <1>0, <2>1
  <2> QED
    BY <1>0, <2>2
<1> HIDE DEF seqs
<1>2. PICK h : Partial(h, seqs, Nat) /\ A = h[n]
  BY <1>1, Flattened DEF Text
<1> HIDE DEF A
<1>3. h \in [0 .. n -> Text] /\ h[0] = <<>> /\ n \in 0 .. n
  BY <1>0, <1>1, <1>2 DEF Partial, Text
<1>4. \A k \in 1 .. n : At(A, Len(h[k - 1]) + 1, Ts[k] \o EOL) /\ Len(h[k]) = Len(h[k - 1]) + Len(Ts[k]) + 2
  <2>1. \A k \in 1 .. n : At(A, Len(h[k - 1]) + 1, seqs[k]) /\ Len(h[k]) = Len(h[k - 1]) + Len(seqs[k])
    <3>1. \A k \in 1 .. Len(seqs) : At(h[Len(seqs)], Len(h[k - 1]) + 1, seqs[k]) /\ Len(h[k]) = Len(h[k - 1]) + Len(seqs[k])
      BY <1>1, <1>2, PartsAt
    <3> HIDE DEF n
    <3> QED
      BY <1>1, <1>2, <3>1
  <2>2. ASSUME NEW k \in 1 .. n PROVE Len(h[k - 1]) + Len(seqs[k]) = Len(h[k - 1]) + Len(Ts[k]) + 2
    <3>1. Ts[k] \in Seq(Nat) /\ EOL \in Seq(Nat) /\ k - 1 \in 0 .. n
      BY <1>0, <1>e DEF Text
    <3>a. Len(Ts[k] \o EOL) = Len(Ts[k]) + Len(EOL)
      BY <3>1, Concat
    <3>b. Len(Ts[k]) \in Nat /\ seqs[k] = Ts[k] \o EOL
      BY <1>1, <3>1
    <3>2. Len(seqs[k]) = Len(Ts[k]) + 2 /\ Len(Ts[k]) \in Nat
      BY <1>e, <3>a, <3>b
    <3>3. Len(h[k - 1]) \in Nat
      BY <1>3, <3>1 DEF Text
    <3> DEFINE x == Len(h[k - 1])
               y == Len(seqs[k])
               z == Len(Ts[k])
    <3>4. x \in Nat /\ z \in Nat /\ y = z + 2
      BY <3>2, <3>3
    <3> HIDE DEF x, y, z
    <3>5. x + y = x + z + 2
      BY <3>4
    <3> QED
      BY <3>5 DEF x, y, z
  <2> QED
    BY <1>1, <2>1, <2>2
<1>5. A \in Text /\ Len(A) \in Nat /\ DOMAIN A = 1 .. Len(A)
  BY <1>2, <1>3 DEF Text
<1> HIDE DEF n, A
<1> DEFINE turn == [i \in DOMAIN A |-> LineTurn(A, i)]
           L(i) == Loop(turn, Len(A), i)
<1>6. \A i \in 1 .. Len(A) : turn[i].out = <<Line(A, i).text>> /\ turn[i].i = Line(A, i).i
  BY <1>5 DEF LineTurn, Yield
<1>7. Turns(turn, Len(A), Text)
  <2>1. ASSUME NEW i \in 1 .. Len(A) PROVE turn[i].out \in Seq(Text) /\ turn[i].i \in (i + 1) .. (Len(A) + 2)
    <3>1. i \in 1 .. (Len(A) + 1)
      BY <1>5
    <3>2. Line(A, i) \in LineFrom(i, Len(A))
      BY <1>5, <3>1, LineRange
    <3>3. Line(A, i).text \in Text /\ Line(A, i).i \in (i + 1) .. (Len(A) + 2)
      BY <3>2 DEF LineFrom
    <3>4. <<Line(A, i).text>> \in Seq(Text)
      BY <3>3
    <3> QED
      BY <1>6, <3>3, <3>4
  <2> QED
    BY <2>1 DEF Turns
<1>8. splitLines(A) = L(1)
  BY DEF splitLines
<1> HIDE DEF turn
<1>9. (\A i \in 1 .. Len(A) : L(i) = turn[i].out \o L(turn[i].i)) /\ \A i \in (Len(A) + 1) .. (Len(A) + 2) : L(i) = <<>>
  BY <1>5, <1>7, LoopTurn
<1> HIDE DEF L
<1> DEFINE S == {k \in 0 .. n : L(Len(h[k]) + 1) = SubSeq(Ts, k + 1, n)}
<1>10. n \in S
  <2>1. L(Len(h[n]) + 1) = <<>>
    <3>1. Len(A) + 1 \in (Len(A) + 1) .. (Len(A) + 2)
      BY <1>5
    <3> QED
      BY <1>2, <1>9, <3>1
  <2>2. SubSeq(Ts, n + 1, n) = <<>>
    <3>1. n + 1 \in Nat \ {0} /\ n \in Int /\ n <= Len(Ts) /\ n + 1 <= n + 1 /\ n - (n + 1) + 1 = 0
      BY <1>0 DEF n
    <3>2. SubSeq(Ts, n + 1, n) \in Seq(Text) /\ Len(SubSeq(Ts, n + 1, n)) = n - (n + 1) + 1
      BY <3>1, Part
    <3> DEFINE x == SubSeq(Ts, n + 1, n)
    <3> HIDE DEF x
    <3>3. x \in Seq(Text) /\ Len(x) = 0
      BY <3>1, <3>2 DEF x
    <3>4. x = <<>>
      BY <3>3
    <3> QED
      BY <3>4 DEF x
  <2> QED
    BY <1>3, <2>1, <2>2
<1>11. ASSUME NEW k \in 0 .. (n - 1), k + 1 \in S PROVE k \in S
  <2> DEFINE p == Len(h[k]) + 1
             T == Ts[k + 1]
  <2>1. k + 1 \in 1 .. n /\ (k + 1) - 1 = k /\ k \in 0 .. n /\ (k + 1) + 1 = k + 2
    BY <1>0
  <2>2. h[k] \in Text /\ Len(h[k]) \in Nat /\ p \in Nat \ {0} /\ T \in Text /\ Len(T) \in Nat /\ Whole(T)
    <3>1. h[k] \in Text /\ T \in Text /\ Whole(T)
      BY <1>0, <1>3, <2>1
    <3> QED
      BY <3>1 DEF Text
  <2>3. At(A, p, T \o EOL) /\ Len(h[k + 1]) = Len(h[k]) + Len(T) + 2
    BY <1>4, <2>1
  <2> HIDE DEF p, T
  <2>4. Line(A, p) = [text |-> T, i |-> p + Len(T) + 2]
    <3>1. CASE PlainLine(T)
      BY <1>5, <2>2, <2>3, <3>1, PlainLineIs
    <3>2. CASE \E c, m : LiteralLine(T, c, m)
      BY <1>5, <2>2, <2>3, <3>2, LiteralLineIs
    <3> QED
      BY <2>2, <3>1, <3>2 DEF Whole
  <2>5. p \in 1 .. Len(A)
    <3>1. p + Len(T) + 2 <= Len(A) + 1
      BY <1>5, <2>2, <2>3, LineAt
    <3> QED
      BY <1>5, <2>2, <3>1
  <2>6. L(p) = <<T>> \o L(p + Len(T) + 2)
    <3>1. L(p) = turn[p].out \o L(turn[p].i)
      BY <1>9, <2>5
    <3>2. turn[p].out = <<Line(A, p).text>> /\ turn[p].i = Line(A, p).i
      BY <1>6, <2>5
    <3>3. turn[p].out = <<T>> /\ turn[p].i = p + Len(T) + 2
      BY <2>4, <3>2
    <3> QED
      BY <3>1, <3>3
  <2>7. p + Len(T) + 2 = Len(h[k + 1]) + 1
    BY <2>2, <2>3 DEF p
  <2>8. L(Len(h[k + 1]) + 1) = SubSeq(Ts, (k + 1) + 1, n)
    BY <1>11
  <2>9. <<T>> \o SubSeq(Ts, (k + 1) + 1, n) = SubSeq(Ts, k + 1, n)
    BY <2>1, FirstThenRest DEF n, T
  <2>10. L(p) = SubSeq(Ts, k + 1, n)
    BY <2>6, <2>7, <2>8, <2>9
  <2> QED
    BY <2>1, <2>10 DEF p
<1>12. 0 .. n \subseteq S
  <2> HIDE DEF S
  <2> QED
    BY <1>0, <1>10, <1>11, DownTo
<1>13. L(1) = SubSeq(Ts, 1, n)
  <2>0. 0 \in S
    <3>1. 0 \in 0 .. n
      BY <1>0
    <3> HIDE DEF S
    <3> QED
      BY <1>12, <3>1
  <2>1. 0 \in S /\ Len(h[0]) + 1 = 1 /\ 0 + 1 = 1
    <3>1. Len(h[0]) + 1 = 1
      BY <1>3
    <3> HIDE DEF S
    <3> QED
      BY <2>0, <3>1
  <2> QED
    BY <2>1
<1>14. SubSeq(Ts, 1, n) = Ts
  BY DEF n
<1> QED
  BY <1>8, <1>13, <1>14 DEF A, seqs

----------------------------------------------------------------------------
(* The lines of the server.                                                *)

\* Texts, one after the other.
LEMMA TextConcat ==
  ASSUME NEW a \in Text, NEW b \in Text
  PROVE  a \o b \in Text /\ Len(a \o b) = Len(a) + Len(b) /\ Len(a) \in Nat /\ Len(b) \in Nat
  BY Concat DEF Text

\* The octets of short texts, where they stand.
LEMMA At1 ==
  ASSUME NEW s \in Text, NEW p \in Nat \ {0}, NEW a \in Nat, At(s, p, <<a>>)
  PROVE  p <= Len(s) /\ s[p] = a
<1>1. Len(<<a>>) = 1 /\ <<a>>[1] = a /\ 1 \in 1 .. 1 /\ Len(s) \in Nat /\ p + 1 - 1 = p
  BY DEF Text
<1>2. p + 1 <= Len(s) + 1 /\ \A j \in 1 .. 1 : s[p + j - 1] = <<a>>[j]
  BY <1>1 DEF At
<1>3. s[p + 1 - 1] = a
  BY <1>1, <1>2
<1> QED
  BY <1>1, <1>2, <1>3

\* Two octets.
LEMMA At2 ==
  ASSUME NEW s \in Text, NEW p \in Nat \ {0}, NEW a \in Nat, NEW b \in Nat, At(s, p, <<a, b>>)
  PROVE  p + 1 <= Len(s) /\ s[p] = a /\ s[p + 1] = b
<1>1. Len(<<a, b>>) = 2 /\ <<a, b>>[1] = a /\ <<a, b>>[2] = b /\ 1 \in 1 .. 2 /\ 2 \in 1 .. 2 /\ Len(s) \in Nat
      /\ p + 1 - 1 = p /\ p + 2 - 1 = p + 1
  BY DEF Text
<1>2. p + 2 <= Len(s) + 1 /\ \A j \in 1 .. 2 : s[p + j - 1] = <<a, b>>[j]
  BY <1>1 DEF At
<1>3. s[p + 1 - 1] = a /\ s[p + 2 - 1] = b
  BY <1>1, <1>2
<1> QED
  BY <1>1, <1>2, <1>3

\* Three octets.
LEMMA At3 ==
  ASSUME NEW s \in Text, NEW p \in Nat \ {0}, NEW a \in Nat, NEW b \in Nat, NEW c \in Nat, At(s, p, <<a, b, c>>)
  PROVE  p + 2 <= Len(s) /\ s[p] = a /\ s[p + 1] = b /\ s[p + 2] = c
<1> DEFINE w == <<a, b, c>>
<1>1. Len(w) = 3 /\ w[1] = a /\ w[2] = b /\ w[3] = c /\ 1 \in 1 .. 3 /\ 2 \in 1 .. 3 /\ 3 \in 1 .. 3 /\ Len(s) \in Nat
      /\ p + 1 - 1 = p /\ p + 2 - 1 = p + 1 /\ p + 3 - 1 = p + 2
  BY DEF Text
<1>2. p + 3 <= Len(s) + 1 /\ \A j \in 1 .. 3 : s[p + j - 1] = w[j]
  BY <1>1 DEF At
<1> HIDE DEF w
<1>3. s[p + 1 - 1] = a /\ s[p + 2 - 1] = b /\ s[p + 3 - 1] = c
  BY <1>1, <1>2
<1> QED
  BY <1>1, <1>2, <1>3

\* The octets of a literal.
LEMMA LiteralIs ==
  ASSUME NEW v \in Text
  PROVE  /\ Literal(v) \in Text /\ Len(Literal(v)) = 5 + Len(v)
         /\ \A s \in Text, p \in Nat \ {0} : At(s, p, Literal(v)) =>
              s[p] = LB /\ s[p + 1] = Number(Len(v)) /\ s[p + 2] = RB /\ s[p + 3] = CR /\ s[p + 4] = LF
<1> DEFINE a == <<LB, Number(Len(v)), RB>>
<1>0. a \in Text /\ EOL \in Text /\ v \in Text /\ Len(a) = 3 /\ Len(EOL) = 2 /\ Len(v) \in Nat
      /\ LB \in Nat /\ Number(Len(v)) \in Nat /\ RB \in Nat /\ CR \in Nat /\ LF \in Nat
  BY DEF Text, LB, Number, RB, EOL, CR, LF
<1>1. a \o EOL \in Text /\ Len(a \o EOL) = 5 /\ Literal(v) = (a \o EOL) \o v
  <2>1. Literal(v) = (a \o EOL) \o v
    BY DEF Literal
  <2> HIDE DEF a
  <2>2. a \o EOL \in Text /\ Len(a \o EOL) = Len(a) + Len(EOL)
    BY <1>0, TextConcat
  <2> QED
    BY <1>0, <2>1, <2>2
<1>2. Literal(v) \in Text /\ Len(Literal(v)) = 5 + Len(v)
  <2> HIDE DEF a
  <2>1. (a \o EOL) \o v \in Text /\ Len((a \o EOL) \o v) = Len(a \o EOL) + Len(v)
    BY <1>0, <1>1, TextConcat
  <2> QED
    BY <1>1, <2>1
<1>3. ASSUME NEW s \in Text, NEW p \in Nat \ {0}, At(s, p, Literal(v))
      PROVE  s[p] = LB /\ s[p + 1] = Number(Len(v)) /\ s[p + 2] = RB /\ s[p + 3] = CR /\ s[p + 4] = LF
  <2>1. At(s, p, a \o EOL)
    <3> HIDE DEF a
    <3> QED
      BY <1>0, <1>1, <1>3, AtConcat
  <2>2. At(s, p, a) /\ At(s, p + 3, EOL)
    <3> HIDE DEF a
    <3> QED
      BY <1>0, <2>1, AtConcat
  <2>3. s[p] = LB /\ s[p + 1] = Number(Len(v)) /\ s[p + 2] = RB
    BY <1>0, <2>2, At3, SMTT(30)
  <2>4. s[p + 3] = CR /\ s[(p + 3) + 1] = LF
    <3>1. At(s, p + 3, <<CR, LF>>) /\ p + 3 \in Nat \ {0}
      BY <2>2 DEF EOL
    <3> QED
      BY <1>0, <3>1, At2
  <2>5. (p + 3) + 1 = p + 4
    OBVIOUS
  <2> QED
    BY <2>3, <2>4, <2>5
<1> QED
  BY <1>2, <1>3

\* The octets of a UID item.
LEMMA UidItemIs ==
  ASSUME NEW u \in Nat
  PROVE  /\ UidItem(u) \in Text /\ Len(UidItem(u)) = 3
         /\ \A s \in Text, p \in Nat \ {0} : At(s, p, UidItem(u)) =>
              s[p] = Keyword.uid /\ s[p + 1] = SP /\ s[p + 2] = Number(u)
<1>1. Keyword.uid \in Nat /\ SP \in Nat /\ Number(u) \in Nat
  BY DEF Keyword, SP, Number
<1>2. UidItem(u) = <<Keyword.uid, SP, Number(u)>>
  BY DEF UidItem
<1>3. UidItem(u) \in Text /\ Len(UidItem(u)) = 3
  BY <1>1, <1>2 DEF Text
<1>4. ASSUME NEW s \in Text, NEW p \in Nat \ {0}, At(s, p, UidItem(u))
      PROVE  s[p] = Keyword.uid /\ s[p + 1] = SP /\ s[p + 2] = Number(u)
  <2> DEFINE a == Keyword.uid
             b == SP
             c == Number(u)
  <2>1. a \in Nat /\ b \in Nat /\ c \in Nat /\ At(s, p, <<a, b, c>>)
    BY <1>1, <1>2, <1>4
  <2> HIDE DEF a, b, c
  <2>2. s[p] = a /\ s[p + 1] = b /\ s[p + 2] = c
    BY <2>1, At3
  <2> QED
    BY <2>2 DEF a, b, c
<1> QED
  BY <1>3, <1>4

BodyItem(v) == <<Keyword.body, SP>> \o Literal(v)

\* The octets of a body item.
LEMMA BodyItemIs ==
  ASSUME NEW v \in Text
  PROVE  /\ BodyItem(v) \in Text /\ Len(BodyItem(v)) = 7 + Len(v)
         /\ \A s \in Text, p \in Nat \ {0} : At(s, p, BodyItem(v)) =>
              /\ s[p] = Keyword.body /\ s[p + 1] = SP /\ At(s, p + 2, Literal(v))
              /\ s[p + 2] = LB /\ s[p + 3] = Number(Len(v)) /\ s[p + 4] = RB /\ s[p + 5] = CR /\ s[p + 6] = LF
<1> DEFINE a == <<Keyword.body, SP>>
<1>0. a \in Text /\ Len(a) = 2 /\ Keyword.body \in Nat /\ SP \in Nat /\ Len(v) \in Nat
  BY DEF Text, Keyword, SP
<1>1. Literal(v) \in Text /\ Len(Literal(v)) = 5 + Len(v)
  BY LiteralIs
<1>2. BodyItem(v) \in Text /\ Len(BodyItem(v)) = 7 + Len(v)
  <2>1. a \in Seq(Nat) /\ Literal(v) \in Seq(Nat)
    BY <1>0, <1>1 DEF Text
  <2>2. BodyItem(v) \in Seq(Nat) /\ Len(BodyItem(v)) = Len(a) + Len(Literal(v))
    BY <2>1, Concat DEF BodyItem
  <2> QED
    BY <1>0, <1>1, <2>2 DEF Text
<1>3. ASSUME NEW s \in Text, NEW p \in Nat \ {0}, At(s, p, BodyItem(v))
      PROVE  /\ s[p] = Keyword.body /\ s[p + 1] = SP /\ At(s, p + 2, Literal(v))
             /\ s[p + 2] = LB /\ s[p + 3] = Number(Len(v)) /\ s[p + 4] = RB /\ s[p + 5] = CR /\ s[p + 6] = LF
  <2>1. At(s, p, a) /\ At(s, p + 2, Literal(v))
    <3>1. At(s, p, a \o Literal(v))
      BY <1>3 DEF BodyItem
    <3> HIDE DEF a
    <3> QED
      BY <1>0, <1>1, <3>1, AtConcat
  <2>2. s[p] = Keyword.body /\ s[p + 1] = SP
    BY <1>0, <2>1, At2
  <2> DEFINE q == p + 2
  <2>3. q \in Nat \ {0} /\ q + 1 = p + 3 /\ q + 2 = p + 4 /\ q + 3 = p + 5 /\ q + 4 = p + 6
    OBVIOUS
  <2>4. At(s, q, Literal(v))
    BY <2>1
  <2> HIDE DEF q
  <2>5. s[q] = LB /\ s[q + 1] = Number(Len(v)) /\ s[q + 2] = RB /\ s[q + 3] = CR /\ s[q + 4] = LF
    BY <2>3, <2>4, LiteralIs
  <2>6. s[p + 2] = LB
    BY <2>5 DEF q
  <2> QED
    BY <2>1, <2>2, <2>3, <2>5, <2>6
<1> QED
  BY <1>2, <1>3

\* A list of one flag.
LEMMA FlagsItemIs ==
  ASSUME NEW w \in Nat
  PROVE  /\ FlagsItem(<<w>>) \in Text /\ Len(FlagsItem(<<w>>)) = 5
         /\ \A s \in Text, p \in Nat \ {0} : At(s, p, FlagsItem(<<w>>)) =>
              s[p] = Keyword.flags /\ s[p + 1] = SP /\ s[p + 2] = LP /\ s[p + 3] = w /\ s[p + 4] = RP
<1> DEFINE seqs == [k \in DOMAIN <<w>> |-> IF k = 1 THEN <<<<w>>[k]>> ELSE <<SP, <<w>>[k]>>]
           a == <<Keyword.flags, SP, LP>>
           b == <<w>>
           c == <<RP>>
<1>0. a \in Text /\ b \in Text /\ c \in Text /\ Len(a) = 3 /\ Len(b) = 1 /\ Len(c) = 1
      /\ Keyword.flags \in Nat /\ SP \in Nat /\ LP \in Nat /\ RP \in Nat
  BY DEF Text, Keyword, SP, LP, RP
<1>1. seqs \in Seq(Seq(Nat)) /\ Len(seqs) = 1 /\ seqs[1] = b
  <2>1. DOMAIN <<w>> = 1 .. 1
    OBVIOUS
  <2>2. seqs \in [1 .. 1 -> Seq(Nat)] /\ seqs[1] = b
    <3>1. \A k \in 1 .. 1 : k = 1
      OBVIOUS
    <3>2. \A k \in DOMAIN <<w>> : seqs[k] = <<w>>
      BY <2>1, <3>1
    <3> QED
      BY <1>0, <2>1, <3>2 DEF Text
  <2> HIDE DEF seqs
  <2> QED
    BY <2>2
<1>2. FlagsItem(<<w>>) = (a \o FlattenSeq(seqs)) \o c
  BY DEF FlagsItem
<1> HIDE DEF seqs
<1>3. FlattenSeq(seqs) = b
  <2>1. PICK h : Partial(h, seqs, Nat) /\ FlattenSeq(seqs) = h[Len(seqs)]
    BY <1>1, Flattened
  <2>2. h[0] = <<>> /\ 1 \in 1 .. Len(seqs) /\ \A k \in 1 .. Len(seqs) : h[k] = h[k - 1] \o seqs[k]
    BY <1>1, <2>1 DEF Partial
  <2> HIDE DEF b
  <2>3. h[1] = h[1 - 1] \o b /\ 1 - 1 = 0
    BY <1>1, <2>2
  <2>4. h[1] = <<>> \o b
    BY <2>2, <2>3
  <2>5. <<>> \o b = b
    BY <1>0 DEF Text, b
  <2> QED
    BY <1>1, <2>1, <2>4, <2>5
<1>4. FlagsItem(<<w>>) = (a \o b) \o c
  BY <1>2, <1>3
<1>5. a \o b \in Text /\ Len(a \o b) = 4 /\ (a \o b) \o c \in Text /\ Len((a \o b) \o c) = 5
  <2> HIDE DEF a, b, c
  <2>1. a \o b \in Seq(Nat) /\ Len(a \o b) = Len(a) + Len(b)
    BY <1>0, Concat DEF Text
  <2>2. (a \o b) \o c \in Seq(Nat) /\ Len((a \o b) \o c) = Len(a \o b) + Len(c)
    BY <1>0, <2>1, Concat, SMTT(30) DEF Text
  <2> QED
    BY <1>0, <2>1, <2>2 DEF Text
<1>6. ASSUME NEW s \in Text, NEW p \in Nat \ {0}, At(s, p, FlagsItem(<<w>>))
      PROVE  s[p] = Keyword.flags /\ s[p + 1] = SP /\ s[p + 2] = LP /\ s[p + 3] = w /\ s[p + 4] = RP
  <2>1. At(s, p, a \o b) /\ At(s, p + 4, c)
    <3>1. At(s, p, (a \o b) \o c)
      BY <1>4, <1>6
    <3> HIDE DEF a, b, c
    <3> QED
      BY <1>0, <1>5, <3>1, AtConcat
  <2>2. At(s, p, a) /\ At(s, p + 3, b)
    <3> HIDE DEF a, b
    <3> QED
      BY <1>0, <2>1, AtConcat
  <2>3. s[p] = Keyword.flags /\ s[p + 1] = SP /\ s[p + 2] = LP
    <3> DEFINE k == Keyword.flags
               x == SP
               y == LP
    <3>1. k \in Nat /\ x \in Nat /\ y \in Nat /\ At(s, p, <<k, x, y>>)
      BY <1>0, <2>2
    <3> HIDE DEF k, x, y
    <3>2. s[p] = k /\ s[p + 1] = x /\ s[p + 2] = y
      BY <3>1, At3
    <3> QED
      BY <3>2 DEF k, x, y
  <2>4. s[p + 3] = w /\ s[p + 4] = RP
    <3>1. p + 3 \in Nat \ {0} /\ p + 4 \in Nat \ {0}
      OBVIOUS
    <3> QED
      BY <1>0, <2>1, <2>2, <3>1, At1
  <2> QED
    BY <2>3, <2>4
<1> QED
  BY <1>4, <1>5, <1>6

\* A FETCH response without its end of line.
FetchText(X) == Opening \o X \o <<RP>>

\* The octets of a FETCH line around its items.
LEMMA FetchTextIs ==
  ASSUME NEW X \in Text
  PROVE  /\ FetchText(X) \in Text /\ Len(FetchText(X)) = 8 + Len(X) /\ FetchLine(X) = FetchText(X) \o EOL
         /\ At(FetchText(X), 8, X) /\ FetchText(X)[8 + Len(X)] = RP
         /\ \A j \in 1 .. 7 : FetchText(X)[j] # LF
         /\ BodyItems(FetchText(X)) = BodyFrom(FetchText(X), 8)
<1> DEFINE T == FetchText(X)
           r == <<RP>>
<1>0. Opening \in Text /\ Len(Opening) = 7 /\ r \in Text /\ Len(r) = 1 /\ Len(X) \in Nat /\ RP \in Nat
  BY DEF Text, Opening, STAR, SP, Number, Keyword, LP, RP
<1>a. \A j \in 1 .. 7 : Opening[j] # LF
  BY DEF Opening, STAR, SP, Number, Keyword, LP, LF
<1>b. FetchLine(X) = T \o EOL
  BY DEF FetchLine, FetchText, Opening
<1>1. T = (Opening \o X) \o r
  BY DEF FetchText
<1> HIDE DEF T, r
<1>2. Opening \o X \in Text /\ Len(Opening \o X) = 7 + Len(X)
  BY <1>0, TextConcat
<1>3. T \in Text /\ Len(T) = 8 + Len(X)
  <2>1. (Opening \o X) \o r \in Text /\ Len((Opening \o X) \o r) = Len(Opening \o X) + Len(r)
    BY <1>0, <1>2, TextConcat
  <2> QED
    BY <1>0, <1>1, <1>2, <2>1
<1>4. At(T, 1, Opening \o X) /\ At(T, 1 + (7 + Len(X)), r)
  <2> DEFINE y == Opening \o X
  <2>1. At(T, 1, y \o r) /\ 1 \in Nat \ {0} /\ y \in Text /\ Len(y) = 7 + Len(X)
    BY <1>1, <1>2, <1>3, AtSelf
  <2> HIDE DEF y
  <2>2. At(T, 1, y) /\ At(T, 1 + Len(y), r)
    BY <1>0, <1>3, <2>1, AtConcat
  <2> QED
    BY <2>1, <2>2 DEF y
<1>5. At(T, 1, Opening) /\ At(T, 1 + 7, X)
  <2>1. 1 \in Nat \ {0}
    OBVIOUS
  <2>2. At(T, 1, Opening) /\ At(T, 1 + Len(Opening), X)
    BY <1>0, <1>3, <1>4, <2>1, AtConcat
  <2> QED
    BY <1>0, <2>2
<1>6. T[8 + Len(X)] = RP
  <2>1. 1 + (7 + Len(X)) = 8 + Len(X) /\ 8 + Len(X) \in Nat \ {0}
    BY <1>0
  <2> QED
    BY <1>0, <1>3, <1>4, <2>1, At1 DEF r
<1>7. \A j \in 1 .. 7 : T[j] # LF
  <2>1. \A j \in 1 .. 7 : T[1 + j - 1] = Opening[j] /\ 1 + j - 1 = j
    BY <1>0, <1>5 DEF At
  <2> QED
    BY <1>a, <2>1
<1>8. BodyItems(T) = BodyFrom(T, 8)
  BY <1>3, <1>5, FetchItemsAt
<1> QED
  BY <1>b, <1>3, <1>5, <1>6, <1>7, <1>8 DEF T

\* What a line has to give: the UID and the body.
Delivers(items, u, v) == HasBody(items) /\ BodyOf(items) = [uid |-> u, rfc822 |-> v]

\* A line with one UID and one body delivers them.
LEMMA Delivered ==
  ASSUME NEW items \in Seq(Item), NEW u \in Nat, NEW v \in Text, NEW i \in DOMAIN items, NEW j \in DOMAIN items,
         items[i].key = <<Keyword.uid>>, items[i].val.ok, items[i].val.v = <<Number(u)>>,
         items[j].key = <<Keyword.body>>, items[j].val.ok, items[j].val.v = v,
         \A k \in DOMAIN items : k # i => items[k].key # <<Keyword.uid>>,
         \A k \in DOMAIN items : k # j => items[k].key # <<Keyword.body>>
  PROVE  Delivers(items, u, v)
<1>1. Under(items, <<Keyword.uid>>) # {} /\ Latest(items, <<Keyword.uid>>) = <<Number(u)>>
  BY LatestIs
<1>2. Under(items, <<Keyword.body>>) # {} /\ Latest(items, <<Keyword.body>>) = v
  BY LatestIs
<1>3. strtoul(<<Number(u)>>) = u
  BY DEF strtoul, IsNumber, Number
<1> QED
  BY <1>1, <1>2, <1>3 DEF Delivers, HasBody, BodyOf

\* Two items.
LEMMA Pair ==
  ASSUME NEW D, NEW a \in D, NEW b \in D, NEW x, x = <<a>> \o (<<b>> \o <<>>)
  PROVE  x \in Seq(D) /\ Len(x) = 2 /\ x[1] = a /\ x[2] = b
<1> DEFINE p == <<a>>
           q == <<b>>
           e == <<>>
           y == q \o e
<1>1. p \in Seq(D) /\ q \in Seq(D) /\ e \in Seq(D) /\ Len(p) = 1 /\ p[1] = a /\ y = q
  OBVIOUS
<1>2. Len(q) = 1 /\ q[1] = b
  OBVIOUS
<1>3. x = p \o q
  BY <1>1
<1> HIDE DEF p, q, e, y
<1>4. x \in Seq(D) /\ Len(x) = Len(p) + Len(q) /\ (\A i \in 1 .. Len(p) : x[i] = p[i])
      /\ \A i \in 1 .. Len(q) : x[Len(p) + i] = q[i]
  <2>1. p \in Seq(D) /\ q \in Seq(D)
    BY <1>1
  <2>2. /\ p \o q \in Seq(D) /\ Len(p \o q) = Len(p) + Len(q) /\ (\A i \in 1 .. Len(p) : (p \o q)[i] = p[i])
        /\ \A i \in 1 .. Len(q) : (p \o q)[Len(p) + i] = q[i]
    BY <2>1, Concat, SMTT(20)
  <2> QED
    BY <1>3, <2>2, Zenon
<1>5. x[1] = p[1] /\ x[1 + 1] = q[1]
  BY <1>1, <1>2, <1>4
<1> QED
  BY <1>1, <1>2, <1>4, <1>5

\* Three items.
LEMMA Triple ==
  ASSUME NEW D, NEW a \in D, NEW b \in D, NEW c \in D, NEW x, x = <<a>> \o (<<b>> \o (<<c>> \o <<>>))
  PROVE  x \in Seq(D) /\ Len(x) = 3 /\ x[1] = a /\ x[2] = b /\ x[3] = c
<1> DEFINE p == <<a>>
           y == <<b>> \o (<<c>> \o <<>>)
<1>1. y \in Seq(D) /\ Len(y) = 2 /\ y[1] = b /\ y[2] = c
  BY Pair
<1>2. p \in Seq(D) /\ Len(p) = 1 /\ p[1] = a
  OBVIOUS
<1>3. x = p \o y
  OBVIOUS
<1> HIDE DEF p, y
<1>4. x \in Seq(D) /\ Len(x) = Len(p) + Len(y) /\ (\A i \in 1 .. Len(p) : x[i] = p[i])
      /\ \A i \in 1 .. Len(y) : x[Len(p) + i] = y[i]
  BY <1>1, <1>2, <1>3, Concat
<1>5. x[1] = p[1] /\ x[1 + 1] = y[1] /\ x[1 + 2] = y[2]
  BY <1>1, <1>2, <1>4
<1> QED
  BY <1>1, <1>2, <1>4, <1>5

\* The octets of the protocol, told apart.
LEMMA Octet ==
  /\ \A u \in Nat : Plain(Number(u)) /\ Number(u) # LF
  /\ Plain(Keyword.uid) /\ Plain(Keyword.body) /\ Plain(Keyword.size) /\ Plain(Keyword.flags)
  /\ SP \in Stops /\ RP \in Stops /\ <<SP>> \in Text /\ Len(<<SP>>) = 1
  /\ SP # LF /\ RP # LF /\ LP # LF /\ CR # LF /\ LB # LF /\ RB # LF /\ RP # RB /\ Keyword.uid # LF /\ Keyword.body # LF
  /\ Keyword.size # LF /\ Keyword.flags # LF
  /\ <<Keyword.uid>> # <<Keyword.body>> /\ <<Keyword.uid>> # <<Keyword.size>> /\ <<Keyword.body>> # <<Keyword.size>>
  /\ Keyword.flags # Keyword.uid /\ Keyword.flags # Keyword.body
<1>1. /\ \A u \in Nat : Plain(Number(u)) /\ Number(u) # LF
      /\ Plain(Keyword.uid) /\ Plain(Keyword.body) /\ Plain(Keyword.size) /\ Plain(Keyword.flags)
      /\ SP \in Stops /\ RP \in Stops
  BY DEF Plain, Stops, Number, Keyword, SP, CR, LF, LP, RP, QT, LB
<1>2. <<SP>> \in Text /\ Len(<<SP>>) = 1
  BY DEF Text, SP
<1>3. /\ SP # LF /\ RP # LF /\ LP # LF /\ CR # LF /\ LB # LF /\ RB # LF /\ RP # RB /\ Keyword.uid # LF /\ Keyword.body # LF
      /\ Keyword.size # LF /\ Keyword.flags # LF
  BY DEF Keyword, SP, CR, LF, LP, RP, LB, RB
<1>4. /\ Keyword.uid # Keyword.body /\ Keyword.uid # Keyword.size /\ Keyword.body # Keyword.size
      /\ Keyword.flags # Keyword.uid /\ Keyword.flags # Keyword.body
  BY DEF Keyword
<1>5. /\ <<Keyword.uid>> # <<Keyword.body>> /\ <<Keyword.uid>> # <<Keyword.size>> /\ <<Keyword.body>> # <<Keyword.size>>
  BY <1>4
<1> QED
  BY <1>1, <1>2, <1>3, <1>4, <1>5

\* An item with a word or with a literal is an item.
LEMMA IsItem ==
  ASSUME NEW c \in Nat, NEW p \in Nat, NEW v \in Text
  PROVE  [key |-> <<c>>, val |-> [ok |-> TRUE, i |-> p, v |-> v]] \in Item
<1>1. <<c>> \in Text
  BY DEF Text
<1> QED
  BY <1>1 DEF Item, Value

\* Two texts one after the other, where they stand.
LEMMA AtBoth ==
  ASSUME NEW s \in Text, NEW p \in Nat \ {0}, NEW a \in Text, NEW b \in Text, NEW q, q = p + Len(a), At(s, p, a \o b)
  PROVE  At(s, p, a) /\ At(s, q, b) /\ q \in Nat \ {0}
<1>1. At(s, p, a) /\ At(s, p + Len(a), b) /\ Len(a) \in Nat
  BY AtConcat DEF Text
<1> QED
  BY <1>1

NoLf(s, i, j) == \A k \in i .. j : s[k] # LF

\* Two stretches without a line feed make one.
LEMMA NoLfJoin ==
  ASSUME NEW s, NEW i \in Int, NEW j \in Int, NEW k \in Int, NEW m \in Int, m = j + 1, NoLf(s, i, j), NoLf(s, m, k)
  PROVE  NoLf(s, i, k)
<1>1. \A x \in i .. k : x \in i .. j \/ x \in m .. k
  OBVIOUS
<1> QED
  BY <1>1 DEF NoLf

\* The octets of the items, and what the loop makes of them: a key with a word,
\* the body with its literal, and a list, which ends the line.
Entry(k, q, v) == [key |-> <<k>>, val |-> [ok |-> TRUE, i |-> q, v |-> v]]
Finds(line, at, e, q) == BodyFrom(line, at) = <<e>> \o BodyFrom(line, q)

\* A space before an item.
LEMMA SpaceAt ==
  ASSUME NEW line \in Text, NEW p \in Nat \ {0}, At(line, p, <<SP>>), NEW q, q = p + 1
  PROVE  p <= Len(line) /\ line[p] \in Stops /\ Reaches(line, p, q) /\ NoLf(line, p, p)
<1>1. SP \in Nat /\ SP # LF /\ SP \in Stops
  BY DEF SP, LF, Stops
<1>2. p <= Len(line) /\ line[p] = SP
  BY <1>1, At1
<1>3. \A k \in p .. p : k = p
  OBVIOUS
<1> QED
  BY <1>1, <1>2, <1>3 DEF Reaches, NoLf

\* An item with a word.
LEMMA WordAt ==
  ASSUME NEW line \in Text, NEW p \in Nat \ {0}, NEW k \in Nat, NEW w \in Nat, Plain(k), Plain(w),
         At(line, p, <<k, SP, w>>), NEW q, q = p + 3
  PROVE  /\ NoLf(line, p, p + 2)
         /\ q <= Len(line) /\ line[q] \in Stops => \A at : Reaches(line, at, p) => Finds(line, at, Entry(k, q, <<w>>), q)
<1>0. SP \in Nat /\ SP # LF /\ k # LF /\ w # LF
  BY DEF SP, LF, Stops, Plain
<1>1. p + 2 <= Len(line) /\ line[p] = k /\ line[p + 1] = SP /\ line[p + 2] = w
  <2> DEFINE sp == SP
  <2>1. sp \in Nat /\ At(line, p, <<k, sp, w>>)
    BY <1>0
  <2> HIDE DEF sp
  <2>2. p + 2 <= Len(line) /\ line[p] = k /\ line[p + 1] = sp /\ line[p + 2] = w
    BY <2>1, At3
  <2> QED
    BY <2>2 DEF sp
<1>2. NoLf(line, p, p + 2)
  <2>1. \A j \in p .. (p + 2) : j = p \/ j = p + 1 \/ j = p + 2
    OBVIOUS
  <2> QED
    BY <1>0, <1>1, <2>1 DEF NoLf
<1>3. ASSUME q <= Len(line), line[q] \in Stops, NEW at, Reaches(line, at, p)
      PROVE  Finds(line, at, Entry(k, q, <<w>>), q)
  <2>1. BodyFrom(line, at) = <<[key |-> <<line[p]>>, val |-> [ok |-> TRUE, i |-> p + 3, v |-> <<line[p + 2]>>]]>>
                              \o BodyFrom(line, p + 3)
    BY <1>1, <1>3, WordItem
  <2> QED
    BY <1>1, <2>1 DEF Entry, Finds
<1> QED
  BY <1>2, <1>3

\* A body, and the line it makes.
LEMMA BodyAt ==
  ASSUME NEW line \in Text, NEW p \in Nat \ {0}, NEW v \in Text, At(line, p, BodyItem(v)), NEW q, q = p + 7 + Len(v)
  PROVE  /\ \A at : Reaches(line, at, p) => Finds(line, at, Entry(Keyword.body, q, v), q)
         /\ q <= Len(line) /\ NoLf(line, 1, p - 1) /\ NoLf(line, q, Len(line)) /\ line[Len(line)] # RB => Whole(line)
<1>0. Len(v) \in Nat /\ Len(line) \in Nat /\ Plain(Keyword.body) /\ p + 2 + Len(Literal(v)) = q
  <2>1. Len(v) \in Nat /\ Len(line) \in Nat
    BY DEF Text
  <2>2. Len(Literal(v)) = 5 + Len(v)
    BY LiteralIs
  <2>3. p + 2 + Len(Literal(v)) = q
    BY <2>1, <2>2
  <2> QED
    BY <2>1, <2>3, Octet
<1>1. /\ line[p] = Keyword.body /\ line[p + 1] = SP /\ At(line, p + 2, Literal(v))
      /\ line[p + 2] = LB /\ line[p + 3] = Number(Len(v)) /\ line[p + 4] = RB /\ line[p + 5] = CR /\ line[p + 6] = LF
  BY BodyItemIs
<1>2. ASSUME NEW at, Reaches(line, at, p)
      PROVE  Finds(line, at, Entry(Keyword.body, q, v), q)
  <2> DEFINE e == p + 2 + Len(Literal(v))
  <2>1. BodyFrom(line, at) = <<[key |-> <<line[p]>>, val |-> [ok |-> TRUE, i |-> e, v |-> v]]>> \o BodyFrom(line, e)
    BY <1>0, <1>1, <1>2, LiteralItem
  <2>2. e = q
    BY <1>0
  <2> HIDE DEF e
  <2> QED
    BY <1>1, <2>1, <2>2 DEF Entry, Finds
<1>3. ASSUME q <= Len(line), NoLf(line, 1, p - 1), NoLf(line, q, Len(line)), line[Len(line)] # RB PROVE Whole(line)
  <2> DEFINE c == p + 2
  <2>1. c \in Nat \ {0} /\ c + 5 + Len(v) = q /\ c + 1 = p + 3 /\ c + 2 = p + 4 /\ c + 3 = p + 5 /\ c + 4 = p + 6
    BY <1>0
  <2>2. \A j \in 1 .. (p + 5) : line[j] # LF
    <3>1. \A j \in 1 .. (p + 5) : j \in 1 .. (p - 1) \/ j = p \/ j = p + 1 \/ j = p + 2 \/ j = p + 3 \/ j = p + 4 \/ j = p + 5
      OBVIOUS
    <3> QED
      BY <1>0, <1>1, <1>3, <3>1, Octet DEF NoLf
  <2>3. line[c] = LB
    BY <1>1
  <2> HIDE DEF c
  <2>4. LiteralLine(line, c, Len(v))
    BY <1>0, <1>1, <1>3, <2>1, <2>2, <2>3 DEF LiteralLine, NoLf
  <2> QED
    BY <2>4 DEF Whole
<1> QED
  BY <1>2, <1>3

\* An item with a list.
LEMMA FlagsAt ==
  ASSUME NEW line \in Text, NEW p \in Nat \ {0}, NEW w \in Nat, w # LF, At(line, p, FlagsItem(<<w>>))
  PROVE  /\ NoLf(line, p, p + 4)
         /\ \A at : Reaches(line, at, p) => BodyFrom(line, at) = <<>>
<1>0. Len(FlagsItem(<<w>>)) = 5
  BY FlagsItemIs
<1>1. line[p] = Keyword.flags /\ line[p + 1] = SP /\ line[p + 2] = LP /\ line[p + 3] = w /\ line[p + 4] = RP
  BY FlagsItemIs
<1>2. Len(line) \in Nat /\ p + 2 <= Len(line)
  <2> DEFINE f == FlagsItem(<<w>>)
  <2>1. Len(line) \in Nat /\ Len(f) = 5 /\ At(line, p, f)
    BY <1>0 DEF Text
  <2> HIDE DEF f
  <2>2. p + Len(f) <= Len(line) + 1
    BY <2>1 DEF At
  <2> QED
    BY <2>1, <2>2
<1>3. NoLf(line, p, p + 4)
  <2>1. \A j \in p .. (p + 4) : j = p \/ j = p + 1 \/ j = p + 2 \/ j = p + 3 \/ j = p + 4
    OBVIOUS
  <2> QED
    BY <1>1, <2>1, Octet DEF NoLf
<1>4. Plain(line[p]) /\ line[p] \notin {Keyword.uid, Keyword.body}
  BY <1>1, Octet
<1> QED
  BY <1>1, <1>2, <1>3, <1>4, ListItem

\* The UID is given, and the body, in one order or the other.
Lists1(items, a) == items = <<a>> \o <<>>
Lists2(items, a, b) == items = <<a>> \o (<<b>> \o <<>>)
Lists3(items, a, b, c) == items = <<a>> \o (<<b>> \o (<<c>> \o <<>>))

\* What the items of a line give.
LEMMA Given ==
  ASSUME NEW items, NEW u \in Nat, NEW v \in Text, NEW q \in Nat, NEW r \in Nat, NEW i1, NEW i2,
         i1 = Entry(Keyword.uid, q, <<Number(u)>>), i2 = Entry(Keyword.body, r, v)
  PROVE  /\ Lists2(items, i1, i2) => Delivers(items, u, v)
         /\ Lists2(items, i2, i1) => Delivers(items, u, v)
         /\ \A w \in Nat, x \in Nat : Lists3(items, Entry(Keyword.size, x, <<w>>), i1, i2) => Delivers(items, u, v)
         /\ Lists1(items, i1) => ~HasBody(items)
<1>0. <<Number(u)>> \in Text /\ Keyword.uid \in Nat /\ Keyword.body \in Nat /\ Keyword.size \in Nat
  BY DEF Text, Number, Keyword
<1>1. i1 \in Item /\ i2 \in Item
  BY <1>0, IsItem DEF Entry
<1>2. /\ i1.key = <<Keyword.uid>> /\ i1.val.ok /\ i1.val.v = <<Number(u)>>
      /\ i2.key = <<Keyword.body>> /\ i2.val.ok /\ i2.val.v = v
      /\ i1.key # <<Keyword.body>> /\ i2.key # <<Keyword.uid>>
  BY Octet DEF Entry
<1> HIDE DEF Entry
<1>3. ASSUME Lists2(items, i1, i2) PROVE Delivers(items, u, v)
  <2>1. items \in Seq(Item) /\ Len(items) = 2 /\ items[1] = i1 /\ items[2] = i2
    BY <1>1, <1>3, Pair DEF Lists2
  <2>2. DOMAIN items = 1 .. 2 /\ 1 \in DOMAIN items /\ 2 \in DOMAIN items /\ \A k \in DOMAIN items : k = 1 \/ k = 2
    BY <2>1
  <2> QED
    BY <1>2, <2>1, <2>2, Delivered
<1>4. ASSUME Lists2(items, i2, i1) PROVE Delivers(items, u, v)
  <2>1. items \in Seq(Item) /\ Len(items) = 2 /\ items[1] = i2 /\ items[2] = i1
    BY <1>1, <1>4, Pair DEF Lists2
  <2>2. DOMAIN items = 1 .. 2 /\ 1 \in DOMAIN items /\ 2 \in DOMAIN items /\ \A k \in DOMAIN items : k = 1 \/ k = 2
    BY <2>1
  <2> QED
    BY <1>2, <2>1, <2>2, Delivered
<1>5. ASSUME NEW w \in Nat, NEW x \in Nat, Lists3(items, Entry(Keyword.size, x, <<w>>), i1, i2)
      PROVE  Delivers(items, u, v)
  <2> DEFINE i0 == Entry(Keyword.size, x, <<w>>)
  <2>0. i0 \in Item /\ i0.key # <<Keyword.uid>> /\ i0.key # <<Keyword.body>>
    <3>1. <<w>> \in Text
      BY DEF Text
    <3> QED
      BY <1>0, <3>1, IsItem, Octet DEF Entry
  <2> HIDE DEF i0
  <2>1. items \in Seq(Item) /\ Len(items) = 3 /\ items[1] = i0 /\ items[2] = i1 /\ items[3] = i2
    BY <1>1, <1>5, <2>0, Triple DEF i0, Lists3
  <2>2. DOMAIN items = 1 .. 3 /\ 2 \in DOMAIN items /\ 3 \in DOMAIN items /\ \A k \in DOMAIN items : k = 1 \/ k = 2 \/ k = 3
    BY <2>1
  <2>3. /\ items[2].key = <<Keyword.uid>> /\ items[2].val.ok /\ items[2].val.v = <<Number(u)>>
        /\ items[3].key = <<Keyword.body>> /\ items[3].val.ok /\ items[3].val.v = v
    BY <1>2, <2>1
  <2>4. \A k \in DOMAIN items : k # 2 => items[k].key # <<Keyword.uid>>
    BY <1>2, <2>0, <2>1, <2>2
  <2>5. \A k \in DOMAIN items : k # 3 => items[k].key # <<Keyword.body>>
    BY <1>2, <2>0, <2>1, <2>2
  <2> QED
    BY <2>1, <2>2, <2>3, <2>4, <2>5, Delivered, ZenonT(30)
<1>6. ASSUME Lists1(items, i1) PROVE ~HasBody(items)
  <2>1. items = <<i1>>
    BY <1>6 DEF Lists1
  <2>2. DOMAIN items = 1 .. 1 /\ \A k \in DOMAIN items : items[k] = i1
    BY <2>1
  <2>3. Under(items, <<Keyword.body>>) = {}
    BY <1>2, <2>2 DEF Under
  <2> QED
    BY <2>3 DEF HasBody
<1> QED
  BY <1>3, <1>4, <1>5, <1>6

\* A loop that comes to the end of the line.
LEMMA Listed1 ==
  ASSUME NEW line, NEW p, NEW q, NEW a, Finds(line, p, a, q), BodyFrom(line, q) = <<>>
  PROVE  Lists1(BodyFrom(line, p), a)
  BY DEF Finds, Lists1

\* Two items up to the end of the line.
LEMMA Listed2 ==
  ASSUME NEW line, NEW p, NEW q, NEW r, NEW a, NEW b, Finds(line, p, a, q), Finds(line, q, b, r), BodyFrom(line, r) = <<>>
  PROVE  Lists2(BodyFrom(line, p), a, b)
  BY DEF Finds, Lists2

\* Three items up to the end of the line.
LEMMA Listed3 ==
  ASSUME NEW line, NEW p, NEW q, NEW r, NEW s, NEW a, NEW b, NEW c, Finds(line, p, a, q), Finds(line, q, b, r),
         Finds(line, r, c, s), BodyFrom(line, s) = <<>>
  PROVE  Lists3(BodyFrom(line, p), a, b, c)
  BY DEF Finds, Lists3

\* The shape of a line: read whole, and giving what it has to give.
Fits(X) == FetchText(X) \in Text /\ FetchLine(X) = FetchText(X) \o EOL /\ Whole(FetchText(X))
Reads(X, u, v) == Fits(X) /\ Delivers(BodyItems(FetchText(X)), u, v)
Drops(X) == Fits(X) /\ ~HasBody(BodyItems(FetchText(X)))

\* Four octets are three and one.
LEMMA Four ==
  ASSUME NEW a \in Nat, NEW b \in Nat, NEW c \in Nat, NEW d \in Nat
  PROVE  <<a, b, c, d>> = <<a, b, c>> \o <<d>>
<1> DEFINE x == <<a, b, c, d>>
           y == <<a, b, c>>
           z == <<d>>
           t == y \o z
<1>1. x \in Seq(Nat) /\ y \in Seq(Nat) /\ z \in Seq(Nat) /\ Len(x) = 4 /\ Len(y) = 3 /\ Len(z) = 1
      /\ x[1] = a /\ x[2] = b /\ x[3] = c /\ x[4] = d /\ y[1] = a /\ y[2] = b /\ y[3] = c /\ z[1] = d
  OBVIOUS
<1> HIDE DEF x, y, z
<1>2. t \in Seq(Nat) /\ Len(t) = Len(y) + Len(z) /\ (\A i \in 1 .. Len(y) : t[i] = y[i])
      /\ \A i \in 1 .. Len(z) : t[Len(y) + i] = z[i]
  <2>1. y \in Seq(Nat) /\ z \in Seq(Nat)
    BY <1>1
  <2> QED
    BY <2>1, Concat
<1> HIDE DEF t
<1>3. t[1] = a /\ t[2] = b /\ t[3] = c /\ t[3 + 1] = d /\ Len(t) = 4
  BY <1>1, <1>2
<1>4. \A i \in 1 .. 4 : i = 1 \/ i = 2 \/ i = 3 \/ i = 4
  OBVIOUS
<1>5. \A i \in 1 .. Len(x) : x[i] = t[i]
  BY <1>1, <1>3, <1>4
<1>6. x = t
  BY <1>1, <1>2, <1>3, <1>5, SameSeq
<1> QED
  BY <1>6 DEF x, y, z, t

\* The end of a line.
LEMMA EndAt ==
  ASSUME NEW T \in Text, NEW q \in Nat \ {0}, Len(T) = q, T[q] = RP
  PROVE  q <= Len(T) /\ T[q] \in Stops /\ NoLf(T, q, Len(T)) /\ T[Len(T)] # RB /\ T # <<>> /\ BodyFrom(T, q) = <<>>
<1>1. \A k \in q .. q : k = q
  OBVIOUS
<1>2. q <= Len(T) /\ T[q] \in Stops /\ NoLf(T, q, Len(T)) /\ T[Len(T)] # RB /\ T # <<>>
  BY <1>1, Octet DEF NoLf
<1> QED
  BY <1>2, LineEnds

\* The body after the UID.
LEMMA UidFirst ==
  ASSUME NEW u \in Nat, NEW v \in Text
  PROVE  Reads((UidItem(u) \o <<SP>>) \o BodyItem(v), u, v)
<1> DEFINE a == UidItem(u)
           b == BodyItem(v)
           sp == <<SP>>
<1>0. Len(v) \in Nat /\ a \in Text /\ Len(a) = 3 /\ b \in Text /\ Len(b) = 7 + Len(v) /\ sp \in Text /\ Len(sp) = 1
  <2>1. Len(v) \in Nat
    BY DEF Text
  <2> QED
    BY <2>1, UidItemIs, BodyItemIs, Octet
<1>a. Plain(Keyword.uid) /\ Plain(Number(u)) /\ Plain(Keyword.size) /\ Plain(Number(1)) /\ Keyword.uid \in Nat /\ Number(u) \in Nat
      /\ Keyword.size \in Nat /\ Number(1) \in Nat
  BY Octet DEF Plain
<1> DEFINE y1 == a \o sp
           y2 == y1 \o b
           X == y2
           T == FetchText(X)
<1>x. X = y2 /\ T = FetchText(X)
  OBVIOUS
<1>d. a = UidItem(u) /\ b = BodyItem(v) /\ sp = <<SP>>
  OBVIOUS
<1> HIDE DEF a, b, sp, y1, y2, X, T
<1>y1. y1 \in Text /\ Len(y1) = 4
  <2>1. y1 \in Text /\ Len(y1) = Len(a) + Len(sp)
    BY <1>0, TextConcat DEF y1
  <2> QED
    BY <1>0, <2>1
<1>y2. y2 \in Text /\ Len(y2) = 11 + Len(v)
  <2>1. y2 \in Text /\ Len(y2) = Len(y1) + Len(b)
    BY <1>0, <1>y1, TextConcat DEF y2
  <2> QED
    BY <1>0, <1>y1, <2>1
<1> DEFINE p0 == 8
           p1 == 11
           p2 == 12
           p3 == 19 + Len(v)
<1>p. /\ p0 \in Nat \ {0} /\ p1 \in Nat \ {0} /\ p2 \in Nat \ {0} /\ p3 \in Nat \ {0}
      /\ p0 - 1 = 7 /\ p0 = 7 + 1 /\ p0 = 8 /\ p1 = p0 + 3 /\ p2 = p1 + 1 /\ p3 = p2 + 7 + Len(v)
      /\ p1 - 1 = p0 + 2 /\ p2 - 1 = p1 /\ p3 - 1 = p2 + 6 + Len(v)
  BY <1>0
<1>q. /\ p3 = 8 + Len(X) /\ p1 = p0 + Len(a) /\ p2 = p0 + Len(y1)
  BY <1>0, <1>x, <1>y1, <1>y2
<1>2. /\ T \in Text /\ Len(T) = p3 /\ At(T, p0, X) /\ T[p3] = RP /\ BodyItems(T) = BodyFrom(T, p0)
      /\ FetchLine(X) = T \o EOL /\ NoLf(T, 1, 7)
  <2> HIDE DEF p1, p2, p3
  <2>1. X \in Text
    BY <1>x, <1>y2
  <2> QED
    BY <1>p, <1>q, <1>x, <2>1, FetchTextIs DEF NoLf
<1> HIDE DEF p0, p1, p2, p3
<1>3. At(T, p0, a) /\ At(T, p1, sp) /\ At(T, p2, b)
  <2>3. At(T, p0, y2)
    BY <1>2, <1>x
  <2>2. At(T, p0, y1) /\ At(T, p2, b)
    <3>1. At(T, p0, y1 \o b) /\ y1 \in Text
      BY <1>0, <1>y1, <2>3 DEF y2
    <3> QED
      BY <1>0, <1>2, <1>p, <1>q, <3>1, AtBoth
  <2>1. At(T, p0, a) /\ At(T, p1, sp)
    <3>1. At(T, p0, a \o sp) /\ a \in Text
      BY <1>0, <2>2 DEF y1
    <3> QED
      BY <1>0, <1>2, <1>p, <1>q, <3>1, AtBoth
  <2> QED
    BY <2>1, <2>2
<1>4. p3 <= Len(T) /\ T[p3] \in Stops /\ NoLf(T, p3, Len(T)) /\ T[Len(T)] # RB /\ T # <<>> /\ BodyFrom(T, p3) = <<>>
  BY <1>2, <1>p, EndAt
<1>s1. p1 <= Len(T) /\ T[p1] \in Stops /\ Reaches(T, p1, p2) /\ NoLf(T, p1, p2 - 1)
  <2>1. p1 <= Len(T) /\ T[p1] \in Stops /\ Reaches(T, p1, p2) /\ NoLf(T, p1, p1)
    BY <1>2, <1>3, <1>d, <1>p, SpaceAt
  <2>2. p2 - 1 = p1
    BY <1>p
  <2> QED
    BY <2>1, <2>2
<1>w0. NoLf(T, p0, p1 - 1) /\ Finds(T, p0, Entry(Keyword.uid, p1, <<Number(u)>>), p1)
  <2> DEFINE k == Keyword.uid
             w0 == Number(u)
  <2>0. Reaches(T, p0, p0)
    BY DEF Reaches
  <2>1. k \in Nat /\ w0 \in Nat /\ Plain(k) /\ Plain(w0) /\ At(T, p0, <<k, SP, w0>>)
    BY <1>a, <1>d, <1>3 DEF UidItem
  <2> HIDE DEF k, w0
  <2>2. NoLf(T, p0, p0 + 2) /\ Finds(T, p0, Entry(k, p1, <<w0>>), p1)
    BY <1>2, <1>p, <1>s1, <2>0, <2>1, WordAt
  <2>3. p1 - 1 = p0 + 2
    BY <1>p
  <2> QED
    BY <2>2, <2>3 DEF k, w0
<1>5. NoLf(T, 1, p2 - 1)
  <2>0. NoLf(T, 1, p0 - 1)
    BY <1>2, <1>p
  <2>1. NoLf(T, 1, p1 - 1)
    <3>1. 1 \in Int /\ p0 - 1 \in Int /\ p1 - 1 \in Int /\ p0 \in Int /\ p0 = (p0 - 1) + 1
      BY <1>p
    <3> QED
      BY <1>w0, <2>0, <3>1, NoLfJoin
  <2>2. NoLf(T, 1, p2 - 1)
    <3>1. 1 \in Int /\ p1 - 1 \in Int /\ p2 - 1 \in Int /\ p1 \in Int /\ p1 = (p1 - 1) + 1
      BY <1>p
    <3> QED
      BY <1>s1, <2>1, <3>1, NoLfJoin
  <2> QED
    BY <2>2
<1>7. Whole(T) /\ Finds(T, p1, Entry(Keyword.body, p3, v), p3)
  <2>1. At(T, p2, BodyItem(v)) /\ p3 = p2 + 7 + Len(v) /\ p3 <= Len(T) /\ Reaches(T, p0, p0)
    BY <1>2, <1>3, <1>d, <1>p, <1>4 DEF Reaches
  <2>2. NoLf(T, 1, p2 - 1) /\ NoLf(T, p3, Len(T)) /\ T[Len(T)] # RB
    BY <1>2, <1>p, <1>4, <1>5
  <2>3. Whole(T)
    BY <1>2, <1>p, <2>1, <2>2, BodyAt
  <2>4. Finds(T, p1, Entry(Keyword.body, p3, v), p3)
    BY <1>2, <1>p, <2>1, <1>s1, BodyAt
  <2> QED
    BY <2>3, <2>4
<1> DEFINE i1 == Entry(Keyword.uid, p1, <<Number(u)>>)
           i2 == Entry(Keyword.body, p3, v)
<1>8. Finds(T, p0, i1, p1) /\ Finds(T, p1, i2, p3)
  BY <1>w0, <1>7
<1>9. i1 = Entry(Keyword.uid, p1, <<Number(u)>>) /\ i2 = Entry(Keyword.body, p3, v) /\ p1 \in Nat /\ p3 \in Nat
  BY <1>p
<1> HIDE DEF i1, i2
<1>10. Lists2(BodyItems(T), i1, i2)
  BY <1>2, <1>4, <1>8, Listed2
<1>11. Delivers(BodyItems(T), u, v)
  BY <1>9, <1>10, Given
<1> QED
  BY <1>2, <1>7, <1>11 DEF Reads, Fits, X, T, y1, y2, a, b, sp

\* The UID after the body.
LEMMA BodyFirst ==
  ASSUME NEW u \in Nat, NEW v \in Text
  PROVE  Reads((BodyItem(v) \o <<SP>>) \o UidItem(u), u, v)
<1> DEFINE a == UidItem(u)
           b == BodyItem(v)
           sp == <<SP>>
<1>0. Len(v) \in Nat /\ a \in Text /\ Len(a) = 3 /\ b \in Text /\ Len(b) = 7 + Len(v) /\ sp \in Text /\ Len(sp) = 1
  <2>1. Len(v) \in Nat
    BY DEF Text
  <2> QED
    BY <2>1, UidItemIs, BodyItemIs, Octet
<1>a. Plain(Keyword.uid) /\ Plain(Number(u)) /\ Plain(Keyword.size) /\ Plain(Number(1)) /\ Keyword.uid \in Nat /\ Number(u) \in Nat
      /\ Keyword.size \in Nat /\ Number(1) \in Nat
  BY Octet DEF Plain
<1> DEFINE y1 == b \o sp
           y2 == y1 \o a
           X == y2
           T == FetchText(X)
<1>x. X = y2 /\ T = FetchText(X)
  OBVIOUS
<1>d. a = UidItem(u) /\ b = BodyItem(v) /\ sp = <<SP>>
  OBVIOUS
<1> HIDE DEF a, b, sp, y1, y2, X, T
<1>y1. y1 \in Text /\ Len(y1) = 8 + Len(v)
  <2>1. y1 \in Text /\ Len(y1) = Len(b) + Len(sp)
    BY <1>0, TextConcat DEF y1
  <2> QED
    BY <1>0, <2>1
<1>y2. y2 \in Text /\ Len(y2) = 11 + Len(v)
  <2>1. y2 \in Text /\ Len(y2) = Len(y1) + Len(a)
    BY <1>0, <1>y1, TextConcat DEF y2
  <2> QED
    BY <1>0, <1>y1, <2>1
<1> DEFINE p0 == 8
           p1 == 15 + Len(v)
           p2 == 16 + Len(v)
           p3 == 19 + Len(v)
<1>p. /\ p0 \in Nat \ {0} /\ p1 \in Nat \ {0} /\ p2 \in Nat \ {0} /\ p3 \in Nat \ {0}
      /\ p0 - 1 = 7 /\ p0 = 7 + 1 /\ p0 = 8 /\ p1 = p0 + 7 + Len(v) /\ p2 = p1 + 1 /\ p3 = p2 + 3
      /\ p1 - 1 = p0 + 6 + Len(v) /\ p2 - 1 = p1 /\ p3 - 1 = p2 + 2
  BY <1>0
<1>q. /\ p3 = 8 + Len(X) /\ p1 = p0 + Len(b) /\ p2 = p0 + Len(y1)
  BY <1>0, <1>x, <1>y1, <1>y2
<1>2. /\ T \in Text /\ Len(T) = p3 /\ At(T, p0, X) /\ T[p3] = RP /\ BodyItems(T) = BodyFrom(T, p0)
      /\ FetchLine(X) = T \o EOL /\ NoLf(T, 1, 7)
  <2> HIDE DEF p1, p2, p3
  <2>1. X \in Text
    BY <1>x, <1>y2
  <2> QED
    BY <1>p, <1>q, <1>x, <2>1, FetchTextIs DEF NoLf
<1> HIDE DEF p0, p1, p2, p3
<1>3. At(T, p0, b) /\ At(T, p1, sp) /\ At(T, p2, a)
  <2>3. At(T, p0, y2)
    BY <1>2, <1>x
  <2>2. At(T, p0, y1) /\ At(T, p2, a)
    <3>1. At(T, p0, y1 \o a) /\ y1 \in Text
      BY <1>0, <1>y1, <2>3 DEF y2
    <3> QED
      BY <1>0, <1>2, <1>p, <1>q, <3>1, AtBoth
  <2>1. At(T, p0, b) /\ At(T, p1, sp)
    <3>1. At(T, p0, b \o sp) /\ b \in Text
      BY <1>0, <2>2 DEF y1
    <3> QED
      BY <1>0, <1>2, <1>p, <1>q, <3>1, AtBoth
  <2> QED
    BY <2>1, <2>2
<1>4. p3 <= Len(T) /\ T[p3] \in Stops /\ NoLf(T, p3, Len(T)) /\ T[Len(T)] # RB /\ T # <<>> /\ BodyFrom(T, p3) = <<>>
  BY <1>2, <1>p, EndAt
<1>s1. p1 <= Len(T) /\ T[p1] \in Stops /\ Reaches(T, p1, p2) /\ NoLf(T, p1, p2 - 1)
  <2>1. p1 <= Len(T) /\ T[p1] \in Stops /\ Reaches(T, p1, p2) /\ NoLf(T, p1, p1)
    BY <1>2, <1>3, <1>d, <1>p, SpaceAt
  <2>2. p2 - 1 = p1
    BY <1>p
  <2> QED
    BY <2>1, <2>2
<1>w2. NoLf(T, p2, p3 - 1) /\ Finds(T, p1, Entry(Keyword.uid, p3, <<Number(u)>>), p3)
  <2> DEFINE k == Keyword.uid
             w0 == Number(u)
  <2>0. Reaches(T, p0, p0)
    BY DEF Reaches
  <2>1. k \in Nat /\ w0 \in Nat /\ Plain(k) /\ Plain(w0) /\ At(T, p2, <<k, SP, w0>>)
    BY <1>a, <1>d, <1>3 DEF UidItem
  <2> HIDE DEF k, w0
  <2>2. NoLf(T, p2, p2 + 2) /\ Finds(T, p1, Entry(k, p3, <<w0>>), p3)
    BY <1>2, <1>p, <1>4, <1>s1, <2>1, WordAt
  <2>3. p3 - 1 = p2 + 2
    BY <1>p
  <2> QED
    BY <2>2, <2>3 DEF k, w0
<1>6a. NoLf(T, p1, p3 - 1)
  <2>0. NoLf(T, p1, p2 - 1)
    BY <1>s1
  <2>1. NoLf(T, p1, p3 - 1)
    <3>1. p1 \in Int /\ p2 - 1 \in Int /\ p3 - 1 \in Int /\ p2 \in Int /\ p2 = (p2 - 1) + 1
      BY <1>p
    <3> QED
      BY <1>w2, <2>0, <3>1, NoLfJoin
  <2> QED
    BY <2>1
<1>6. NoLf(T, p1, Len(T))
  <2>1. p1 \in Int /\ p3 - 1 \in Int /\ p3 \in Int /\ p3 = (p3 - 1) + 1 /\ Len(T) \in Int
    BY <1>2, <1>p
  <2> QED
    BY <1>4, <1>6a, <2>1, NoLfJoin
<1>7. Whole(T) /\ Finds(T, p0, Entry(Keyword.body, p1, v), p1)
  <2>1. At(T, p0, BodyItem(v)) /\ p1 = p0 + 7 + Len(v) /\ p1 <= Len(T) /\ Reaches(T, p0, p0)
    BY <1>2, <1>3, <1>d, <1>p, <1>4, <1>s1 DEF Reaches
  <2>2. NoLf(T, 1, p0 - 1) /\ NoLf(T, p1, Len(T)) /\ T[Len(T)] # RB
    BY <1>2, <1>p, <1>4, <1>6
  <2>3. Whole(T)
    BY <1>2, <1>p, <2>1, <2>2, BodyAt
  <2>4. Finds(T, p0, Entry(Keyword.body, p1, v), p1)
    BY <1>2, <1>p, <2>1, BodyAt
  <2> QED
    BY <2>3, <2>4
<1> DEFINE i1 == Entry(Keyword.body, p1, v)
           i2 == Entry(Keyword.uid, p3, <<Number(u)>>)
<1>8. Finds(T, p0, i1, p1) /\ Finds(T, p1, i2, p3)
  BY <1>7, <1>w2
<1>9. i2 = Entry(Keyword.uid, p3, <<Number(u)>>) /\ i1 = Entry(Keyword.body, p1, v) /\ p3 \in Nat /\ p1 \in Nat
  BY <1>p
<1> HIDE DEF i1, i2
<1>10. Lists2(BodyItems(T), i1, i2)
  BY <1>2, <1>4, <1>8, Listed2
<1>11. Delivers(BodyItems(T), u, v)
  BY <1>9, <1>10, Given
<1> QED
  BY <1>2, <1>7, <1>11 DEF Reads, Fits, X, T, y1, y2, a, b, sp

\* An item nobody asked for, with a simple value, before both.
LEMMA SimpleItem ==
  ASSUME NEW u \in Nat, NEW v \in Text
  PROVE  Reads((((<<Keyword.size, SP, Number(1)>> \o <<SP>>) \o UidItem(u)) \o <<SP>>) \o BodyItem(v), u, v)
<1> DEFINE a == UidItem(u)
           b == BodyItem(v)
           sp == <<SP>>
           z == <<Keyword.size, SP, Number(1)>>
<1>0. Len(v) \in Nat /\ a \in Text /\ Len(a) = 3 /\ b \in Text /\ Len(b) = 7 + Len(v) /\ sp \in Text /\ Len(sp) = 1 /\ z \in Text /\ Len(z) = 3
  <2>1. z \in Text /\ Len(z) = 3
    BY DEF Text, Keyword, SP, Number
  <2>2. Len(v) \in Nat
    BY DEF Text
  <2> QED
    BY <2>1, <2>2, UidItemIs, BodyItemIs, Octet
<1>a. Plain(Keyword.uid) /\ Plain(Number(u)) /\ Plain(Keyword.size) /\ Plain(Number(1)) /\ Keyword.uid \in Nat /\ Number(u) \in Nat
      /\ Keyword.size \in Nat /\ Number(1) \in Nat
  BY Octet DEF Plain
<1> DEFINE y1 == z \o sp
           y2 == y1 \o a
           y3 == y2 \o sp
           y4 == y3 \o b
           X == y4
           T == FetchText(X)
<1>x. X = y4 /\ T = FetchText(X)
  OBVIOUS
<1>d. a = UidItem(u) /\ b = BodyItem(v) /\ sp = <<SP>> /\ z = <<Keyword.size, SP, Number(1)>>
  OBVIOUS
<1> HIDE DEF a, b, sp, z, y1, y2, y3, y4, X, T
<1>y1. y1 \in Text /\ Len(y1) = 4
  <2>1. y1 \in Text /\ Len(y1) = Len(z) + Len(sp)
    BY <1>0, TextConcat DEF y1
  <2> QED
    BY <1>0, <2>1
<1>y2. y2 \in Text /\ Len(y2) = 7
  <2>1. y2 \in Text /\ Len(y2) = Len(y1) + Len(a)
    BY <1>0, <1>y1, TextConcat DEF y2
  <2> QED
    BY <1>0, <1>y1, <2>1
<1>y3. y3 \in Text /\ Len(y3) = 8
  <2>1. y3 \in Text /\ Len(y3) = Len(y2) + Len(sp)
    BY <1>0, <1>y2, TextConcat DEF y3
  <2> QED
    BY <1>0, <1>y2, <2>1
<1>y4. y4 \in Text /\ Len(y4) = 15 + Len(v)
  <2>1. y4 \in Text /\ Len(y4) = Len(y3) + Len(b)
    BY <1>0, <1>y3, TextConcat DEF y4
  <2> QED
    BY <1>0, <1>y3, <2>1
<1> DEFINE p0 == 8
           p1 == 11
           p2 == 12
           p3 == 15
           p4 == 16
           p5 == 23 + Len(v)
<1>p. /\ p0 \in Nat \ {0} /\ p1 \in Nat \ {0} /\ p2 \in Nat \ {0} /\ p3 \in Nat \ {0} /\ p4 \in Nat \ {0}
      /\ p5 \in Nat \ {0} /\ p0 - 1 = 7 /\ p0 = 7 + 1 /\ p0 = 8 /\ p1 = p0 + 3 /\ p2 = p1 + 1 /\ p3 = p2 + 3
      /\ p4 = p3 + 1 /\ p5 = p4 + 7 + Len(v) /\ p1 - 1 = p0 + 2 /\ p2 - 1 = p1 /\ p3 - 1 = p2 + 2 /\ p4 - 1 = p3
      /\ p5 - 1 = p4 + 6 + Len(v)
  BY <1>0
<1>q. /\ p5 = 8 + Len(X) /\ p1 = p0 + Len(z) /\ p2 = p0 + Len(y1) /\ p3 = p0 + Len(y2) /\ p4 = p0 + Len(y3)
  BY <1>0, <1>x, <1>y1, <1>y2, <1>y3, <1>y4
<1>2. /\ T \in Text /\ Len(T) = p5 /\ At(T, p0, X) /\ T[p5] = RP /\ BodyItems(T) = BodyFrom(T, p0)
      /\ FetchLine(X) = T \o EOL /\ NoLf(T, 1, 7)
  <2> HIDE DEF p1, p2, p3, p4, p5
  <2>1. X \in Text
    BY <1>x, <1>y4
  <2> QED
    BY <1>p, <1>q, <1>x, <2>1, FetchTextIs DEF NoLf
<1> HIDE DEF p0, p1, p2, p3, p4, p5
<1>3. At(T, p0, z) /\ At(T, p1, sp) /\ At(T, p2, a) /\ At(T, p3, sp) /\ At(T, p4, b)
  <2>5. At(T, p0, y4)
    BY <1>2, <1>x
  <2>4. At(T, p0, y3) /\ At(T, p4, b)
    <3>1. At(T, p0, y3 \o b) /\ y3 \in Text
      BY <1>0, <1>y3, <2>5 DEF y4
    <3> QED
      BY <1>0, <1>2, <1>p, <1>q, <3>1, AtBoth
  <2>3. At(T, p0, y2) /\ At(T, p3, sp)
    <3>1. At(T, p0, y2 \o sp) /\ y2 \in Text
      BY <1>0, <1>y2, <2>4 DEF y3
    <3> QED
      BY <1>0, <1>2, <1>p, <1>q, <3>1, AtBoth
  <2>2. At(T, p0, y1) /\ At(T, p2, a)
    <3>1. At(T, p0, y1 \o a) /\ y1 \in Text
      BY <1>0, <1>y1, <2>3 DEF y2
    <3> QED
      BY <1>0, <1>2, <1>p, <1>q, <3>1, AtBoth
  <2>1. At(T, p0, z) /\ At(T, p1, sp)
    <3>1. At(T, p0, z \o sp) /\ z \in Text
      BY <1>0, <2>2 DEF y1
    <3> QED
      BY <1>0, <1>2, <1>p, <1>q, <3>1, AtBoth
  <2> QED
    BY <2>1, <2>2, <2>3, <2>4
<1>4. p5 <= Len(T) /\ T[p5] \in Stops /\ NoLf(T, p5, Len(T)) /\ T[Len(T)] # RB /\ T # <<>> /\ BodyFrom(T, p5) = <<>>
  BY <1>2, <1>p, EndAt
<1>s1. p1 <= Len(T) /\ T[p1] \in Stops /\ Reaches(T, p1, p2) /\ NoLf(T, p1, p2 - 1)
  <2>1. p1 <= Len(T) /\ T[p1] \in Stops /\ Reaches(T, p1, p2) /\ NoLf(T, p1, p1)
    BY <1>2, <1>3, <1>d, <1>p, SpaceAt
  <2>2. p2 - 1 = p1
    BY <1>p
  <2> QED
    BY <2>1, <2>2
<1>s3. p3 <= Len(T) /\ T[p3] \in Stops /\ Reaches(T, p3, p4) /\ NoLf(T, p3, p4 - 1)
  <2>1. p3 <= Len(T) /\ T[p3] \in Stops /\ Reaches(T, p3, p4) /\ NoLf(T, p3, p3)
    BY <1>2, <1>3, <1>d, <1>p, SpaceAt
  <2>2. p4 - 1 = p3
    BY <1>p
  <2> QED
    BY <2>1, <2>2
<1>w0. NoLf(T, p0, p1 - 1) /\ Finds(T, p0, Entry(Keyword.size, p1, <<Number(1)>>), p1)
  <2> DEFINE k == Keyword.size
             w0 == Number(1)
  <2>0. Reaches(T, p0, p0)
    BY DEF Reaches
  <2>1. k \in Nat /\ w0 \in Nat /\ Plain(k) /\ Plain(w0) /\ At(T, p0, <<k, SP, w0>>)
    BY <1>a, <1>d, <1>3 DEF UidItem
  <2> HIDE DEF k, w0
  <2>2. NoLf(T, p0, p0 + 2) /\ Finds(T, p0, Entry(k, p1, <<w0>>), p1)
    BY <1>2, <1>p, <1>s1, <2>0, <2>1, WordAt
  <2>3. p1 - 1 = p0 + 2
    BY <1>p
  <2> QED
    BY <2>2, <2>3 DEF k, w0
<1>w2. NoLf(T, p2, p3 - 1) /\ Finds(T, p1, Entry(Keyword.uid, p3, <<Number(u)>>), p3)
  <2> DEFINE k == Keyword.uid
             w0 == Number(u)
  <2>0. Reaches(T, p0, p0)
    BY DEF Reaches
  <2>1. k \in Nat /\ w0 \in Nat /\ Plain(k) /\ Plain(w0) /\ At(T, p2, <<k, SP, w0>>)
    BY <1>a, <1>d, <1>3 DEF UidItem
  <2> HIDE DEF k, w0
  <2>2. NoLf(T, p2, p2 + 2) /\ Finds(T, p1, Entry(k, p3, <<w0>>), p3)
    BY <1>2, <1>p, <1>s3, <1>s1, <2>1, WordAt
  <2>3. p3 - 1 = p2 + 2
    BY <1>p
  <2> QED
    BY <2>2, <2>3 DEF k, w0
<1>5. NoLf(T, 1, p4 - 1)
  <2>0. NoLf(T, 1, p0 - 1)
    BY <1>2, <1>p
  <2>1. NoLf(T, 1, p1 - 1)
    <3>1. 1 \in Int /\ p0 - 1 \in Int /\ p1 - 1 \in Int /\ p0 \in Int /\ p0 = (p0 - 1) + 1
      BY <1>p
    <3> QED
      BY <1>w0, <2>0, <3>1, NoLfJoin
  <2>2. NoLf(T, 1, p2 - 1)
    <3>1. 1 \in Int /\ p1 - 1 \in Int /\ p2 - 1 \in Int /\ p1 \in Int /\ p1 = (p1 - 1) + 1
      BY <1>p
    <3> QED
      BY <1>s1, <2>1, <3>1, NoLfJoin
  <2>3. NoLf(T, 1, p3 - 1)
    <3>1. 1 \in Int /\ p2 - 1 \in Int /\ p3 - 1 \in Int /\ p2 \in Int /\ p2 = (p2 - 1) + 1
      BY <1>p
    <3> QED
      BY <1>w2, <2>2, <3>1, NoLfJoin
  <2>4. NoLf(T, 1, p4 - 1)
    <3>1. 1 \in Int /\ p3 - 1 \in Int /\ p4 - 1 \in Int /\ p3 \in Int /\ p3 = (p3 - 1) + 1
      BY <1>p
    <3> QED
      BY <1>s3, <2>3, <3>1, NoLfJoin
  <2> QED
    BY <2>4
<1>7. Whole(T) /\ Finds(T, p3, Entry(Keyword.body, p5, v), p5)
  <2>1. At(T, p4, BodyItem(v)) /\ p5 = p4 + 7 + Len(v) /\ p5 <= Len(T) /\ Reaches(T, p0, p0)
    BY <1>2, <1>3, <1>d, <1>p, <1>4 DEF Reaches
  <2>2. NoLf(T, 1, p4 - 1) /\ NoLf(T, p5, Len(T)) /\ T[Len(T)] # RB
    BY <1>2, <1>p, <1>4, <1>5
  <2>3. Whole(T)
    BY <1>2, <1>p, <2>1, <2>2, BodyAt
  <2>4. Finds(T, p3, Entry(Keyword.body, p5, v), p5)
    BY <1>2, <1>p, <2>1, <1>s3, BodyAt
  <2> QED
    BY <2>3, <2>4
<1> DEFINE i1 == Entry(Keyword.size, p1, <<Number(1)>>)
           i2 == Entry(Keyword.uid, p3, <<Number(u)>>)
           i3 == Entry(Keyword.body, p5, v)
<1>8. Finds(T, p0, i1, p1) /\ Finds(T, p1, i2, p3) /\ Finds(T, p3, i3, p5)
  BY <1>w0, <1>w2, <1>7
<1>9. i2 = Entry(Keyword.uid, p3, <<Number(u)>>) /\ i3 = Entry(Keyword.body, p5, v) /\ p3 \in Nat /\ p5 \in Nat
  BY <1>p
<1> HIDE DEF i2, i3
<1>10. Lists3(BodyItems(T), i1, i2, i3)
  BY <1>2, <1>4, <1>8, Listed3
<1>11. Delivers(BodyItems(T), u, v)
  <2> DEFINE w0 == Number(1)
  <2>1. w0 \in Nat /\ p1 \in Nat /\ Lists3(BodyItems(T), Entry(Keyword.size, p1, <<w0>>), i2, i3)
    BY <1>a, <1>p, <1>10
  <2> HIDE DEF w0
  <2> QED
    BY <1>9, <2>1, Given
<1> QED
  BY <1>2, <1>7, <1>11 DEF Reads, Fits, X, T, y1, y2, y3, y4, a, b, sp, z

\* An item with a list before both: the line is given up.
LEMMA ListFirst ==
  ASSUME NEW u \in Nat, NEW v \in Text, NEW w \in Nat, w # LF
  PROVE  Drops((((FlagsItem(<<w>>) \o <<SP>>) \o UidItem(u)) \o <<SP>>) \o BodyItem(v))
<1> DEFINE a == UidItem(u)
           b == BodyItem(v)
           sp == <<SP>>
           f == FlagsItem(<<w>>)
<1>0. Len(v) \in Nat /\ a \in Text /\ Len(a) = 3 /\ b \in Text /\ Len(b) = 7 + Len(v) /\ sp \in Text /\ Len(sp) = 1 /\ f \in Text /\ Len(f) = 5
  <2>1. Len(v) \in Nat
    BY DEF Text
  <2> QED
    BY <2>1, UidItemIs, BodyItemIs, FlagsItemIs, Octet
<1>a. Plain(Keyword.uid) /\ Plain(Number(u)) /\ Plain(Keyword.size) /\ Plain(Number(1)) /\ Keyword.uid \in Nat /\ Number(u) \in Nat
      /\ Keyword.size \in Nat /\ Number(1) \in Nat
  BY Octet DEF Plain
<1> DEFINE y1 == f \o sp
           y2 == y1 \o a
           y3 == y2 \o sp
           y4 == y3 \o b
           X == y4
           T == FetchText(X)
<1>x. X = y4 /\ T = FetchText(X)
  OBVIOUS
<1>d. a = UidItem(u) /\ b = BodyItem(v) /\ sp = <<SP>> /\ f = FlagsItem(<<w>>)
  OBVIOUS
<1> HIDE DEF a, b, sp, f, y1, y2, y3, y4, X, T
<1>y1. y1 \in Text /\ Len(y1) = 6
  <2>1. y1 \in Text /\ Len(y1) = Len(f) + Len(sp)
    BY <1>0, TextConcat DEF y1
  <2> QED
    BY <1>0, <2>1
<1>y2. y2 \in Text /\ Len(y2) = 9
  <2>1. y2 \in Text /\ Len(y2) = Len(y1) + Len(a)
    BY <1>0, <1>y1, TextConcat DEF y2
  <2> QED
    BY <1>0, <1>y1, <2>1
<1>y3. y3 \in Text /\ Len(y3) = 10
  <2>1. y3 \in Text /\ Len(y3) = Len(y2) + Len(sp)
    BY <1>0, <1>y2, TextConcat DEF y3
  <2> QED
    BY <1>0, <1>y2, <2>1
<1>y4. y4 \in Text /\ Len(y4) = 17 + Len(v)
  <2>1. y4 \in Text /\ Len(y4) = Len(y3) + Len(b)
    BY <1>0, <1>y3, TextConcat DEF y4
  <2> QED
    BY <1>0, <1>y3, <2>1
<1> DEFINE p0 == 8
           p1 == 13
           p2 == 14
           p3 == 17
           p4 == 18
           p5 == 25 + Len(v)
<1>p. /\ p0 \in Nat \ {0} /\ p1 \in Nat \ {0} /\ p2 \in Nat \ {0} /\ p3 \in Nat \ {0} /\ p4 \in Nat \ {0}
      /\ p5 \in Nat \ {0} /\ p0 - 1 = 7 /\ p0 = 7 + 1 /\ p0 = 8 /\ p1 = p0 + 5 /\ p2 = p1 + 1 /\ p3 = p2 + 3
      /\ p4 = p3 + 1 /\ p5 = p4 + 7 + Len(v) /\ p1 - 1 = p0 + 4 /\ p2 - 1 = p1 /\ p3 - 1 = p2 + 2 /\ p4 - 1 = p3
      /\ p5 - 1 = p4 + 6 + Len(v)
  BY <1>0
<1>q. /\ p5 = 8 + Len(X) /\ p1 = p0 + Len(f) /\ p2 = p0 + Len(y1) /\ p3 = p0 + Len(y2) /\ p4 = p0 + Len(y3)
  BY <1>0, <1>x, <1>y1, <1>y2, <1>y3, <1>y4
<1>2. /\ T \in Text /\ Len(T) = p5 /\ At(T, p0, X) /\ T[p5] = RP /\ BodyItems(T) = BodyFrom(T, p0)
      /\ FetchLine(X) = T \o EOL /\ NoLf(T, 1, 7)
  <2> HIDE DEF p1, p2, p3, p4, p5
  <2>1. X \in Text
    BY <1>x, <1>y4
  <2> QED
    BY <1>p, <1>q, <1>x, <2>1, FetchTextIs DEF NoLf
<1> HIDE DEF p0, p1, p2, p3, p4, p5
<1>3. At(T, p0, f) /\ At(T, p1, sp) /\ At(T, p2, a) /\ At(T, p3, sp) /\ At(T, p4, b)
  <2>5. At(T, p0, y4)
    BY <1>2, <1>x
  <2>4. At(T, p0, y3) /\ At(T, p4, b)
    <3>1. At(T, p0, y3 \o b) /\ y3 \in Text
      BY <1>0, <1>y3, <2>5 DEF y4
    <3> QED
      BY <1>0, <1>2, <1>p, <1>q, <3>1, AtBoth
  <2>3. At(T, p0, y2) /\ At(T, p3, sp)
    <3>1. At(T, p0, y2 \o sp) /\ y2 \in Text
      BY <1>0, <1>y2, <2>4 DEF y3
    <3> QED
      BY <1>0, <1>2, <1>p, <1>q, <3>1, AtBoth
  <2>2. At(T, p0, y1) /\ At(T, p2, a)
    <3>1. At(T, p0, y1 \o a) /\ y1 \in Text
      BY <1>0, <1>y1, <2>3 DEF y2
    <3> QED
      BY <1>0, <1>2, <1>p, <1>q, <3>1, AtBoth
  <2>1. At(T, p0, f) /\ At(T, p1, sp)
    <3>1. At(T, p0, f \o sp) /\ f \in Text
      BY <1>0, <2>2 DEF y1
    <3> QED
      BY <1>0, <1>2, <1>p, <1>q, <3>1, AtBoth
  <2> QED
    BY <2>1, <2>2, <2>3, <2>4
<1>4. p5 <= Len(T) /\ T[p5] \in Stops /\ NoLf(T, p5, Len(T)) /\ T[Len(T)] # RB /\ T # <<>> /\ BodyFrom(T, p5) = <<>>
  BY <1>2, <1>p, EndAt
<1>s1. p1 <= Len(T) /\ T[p1] \in Stops /\ Reaches(T, p1, p2) /\ NoLf(T, p1, p2 - 1)
  <2>1. p1 <= Len(T) /\ T[p1] \in Stops /\ Reaches(T, p1, p2) /\ NoLf(T, p1, p1)
    BY <1>2, <1>3, <1>d, <1>p, SpaceAt
  <2>2. p2 - 1 = p1
    BY <1>p
  <2> QED
    BY <2>1, <2>2
<1>s3. p3 <= Len(T) /\ T[p3] \in Stops /\ Reaches(T, p3, p4) /\ NoLf(T, p3, p4 - 1)
  <2>1. p3 <= Len(T) /\ T[p3] \in Stops /\ Reaches(T, p3, p4) /\ NoLf(T, p3, p3)
    BY <1>2, <1>3, <1>d, <1>p, SpaceAt
  <2>2. p4 - 1 = p3
    BY <1>p
  <2> QED
    BY <2>1, <2>2
<1>w0. NoLf(T, p0, p1 - 1) /\ BodyFrom(T, p0) = <<>>
  <2>0. Reaches(T, p0, p0)
    BY DEF Reaches
  <2>1. At(T, p0, FlagsItem(<<w>>))
    BY <1>3, <1>d
  <2>2. NoLf(T, p0, p0 + 4) /\ BodyFrom(T, p0) = <<>>
    BY <1>2, <1>p, <2>0, <2>1, FlagsAt
  <2>3. p1 - 1 = p0 + 4
    BY <1>p
  <2> QED
    BY <2>2, <2>3
<1>w2. NoLf(T, p2, p3 - 1) /\ Finds(T, p1, Entry(Keyword.uid, p3, <<Number(u)>>), p3)
  <2> DEFINE k == Keyword.uid
             w0 == Number(u)
  <2>0. Reaches(T, p0, p0)
    BY DEF Reaches
  <2>1. k \in Nat /\ w0 \in Nat /\ Plain(k) /\ Plain(w0) /\ At(T, p2, <<k, SP, w0>>)
    BY <1>a, <1>d, <1>3 DEF UidItem
  <2> HIDE DEF k, w0
  <2>2. NoLf(T, p2, p2 + 2) /\ Finds(T, p1, Entry(k, p3, <<w0>>), p3)
    BY <1>2, <1>p, <1>s3, <1>s1, <2>1, WordAt
  <2>3. p3 - 1 = p2 + 2
    BY <1>p
  <2> QED
    BY <2>2, <2>3 DEF k, w0
<1>5. NoLf(T, 1, p4 - 1)
  <2>0. NoLf(T, 1, p0 - 1)
    BY <1>2, <1>p
  <2>1. NoLf(T, 1, p1 - 1)
    <3>1. 1 \in Int /\ p0 - 1 \in Int /\ p1 - 1 \in Int /\ p0 \in Int /\ p0 = (p0 - 1) + 1
      BY <1>p
    <3> QED
      BY <1>w0, <2>0, <3>1, NoLfJoin
  <2>2. NoLf(T, 1, p2 - 1)
    <3>1. 1 \in Int /\ p1 - 1 \in Int /\ p2 - 1 \in Int /\ p1 \in Int /\ p1 = (p1 - 1) + 1
      BY <1>p
    <3> QED
      BY <1>s1, <2>1, <3>1, NoLfJoin
  <2>3. NoLf(T, 1, p3 - 1)
    <3>1. 1 \in Int /\ p2 - 1 \in Int /\ p3 - 1 \in Int /\ p2 \in Int /\ p2 = (p2 - 1) + 1
      BY <1>p
    <3> QED
      BY <1>w2, <2>2, <3>1, NoLfJoin
  <2>4. NoLf(T, 1, p4 - 1)
    <3>1. 1 \in Int /\ p3 - 1 \in Int /\ p4 - 1 \in Int /\ p3 \in Int /\ p3 = (p3 - 1) + 1
      BY <1>p
    <3> QED
      BY <1>s3, <2>3, <3>1, NoLfJoin
  <2> QED
    BY <2>4
<1>7. Whole(T)
  <2>1. At(T, p4, BodyItem(v)) /\ p5 = p4 + 7 + Len(v) /\ p5 <= Len(T) /\ Reaches(T, p0, p0)
    BY <1>2, <1>3, <1>d, <1>p, <1>4 DEF Reaches
  <2>2. NoLf(T, 1, p4 - 1) /\ NoLf(T, p5, Len(T)) /\ T[Len(T)] # RB
    BY <1>2, <1>p, <1>4, <1>5
  <2>3. Whole(T)
    BY <1>2, <1>p, <2>1, <2>2, BodyAt
  <2> QED
    BY <2>3
<1>8. BodyItems(T) = <<>>
  BY <1>2, <1>w0
<1>9. ~HasBody(BodyItems(T))
  BY <1>8 DEF HasBody, Under
<1> QED
  BY <1>2, <1>7, <1>9 DEF Drops, Fits, X, T, y1, y2, y3, y4, a, b, sp, f

\* A UID and flags, and no body.
LEMMA FlagsOnly ==
  ASSUME NEW u \in Nat, NEW v \in Text, NEW w \in Nat, w # LF
  PROVE  Drops((UidItem(u) \o <<SP>>) \o FlagsItem(<<w>>))
<1> DEFINE a == UidItem(u)
           sp == <<SP>>
           f == FlagsItem(<<w>>)
<1>0. Len(v) \in Nat /\ a \in Text /\ Len(a) = 3 /\ sp \in Text /\ Len(sp) = 1 /\ f \in Text /\ Len(f) = 5
  <2>1. Len(v) \in Nat
    BY DEF Text
  <2> QED
    BY <2>1, UidItemIs, FlagsItemIs, Octet
<1>a. Plain(Keyword.uid) /\ Plain(Number(u)) /\ Plain(Keyword.size) /\ Plain(Number(1)) /\ Keyword.uid \in Nat /\ Number(u) \in Nat
      /\ Keyword.size \in Nat /\ Number(1) \in Nat
  BY Octet DEF Plain
<1> DEFINE y1 == a \o sp
           y2 == y1 \o f
           X == y2
           T == FetchText(X)
<1>x. X = y2 /\ T = FetchText(X)
  OBVIOUS
<1>d. a = UidItem(u) /\ sp = <<SP>> /\ f = FlagsItem(<<w>>)
  OBVIOUS
<1> HIDE DEF a, sp, f, y1, y2, X, T
<1>y1. y1 \in Text /\ Len(y1) = 4
  <2>1. y1 \in Text /\ Len(y1) = Len(a) + Len(sp)
    BY <1>0, TextConcat DEF y1
  <2> QED
    BY <1>0, <2>1
<1>y2. y2 \in Text /\ Len(y2) = 9
  <2>1. y2 \in Text /\ Len(y2) = Len(y1) + Len(f)
    BY <1>0, <1>y1, TextConcat DEF y2
  <2> QED
    BY <1>0, <1>y1, <2>1
<1> DEFINE p0 == 8
           p1 == 11
           p2 == 12
           p3 == 17
<1>p. /\ p0 \in Nat \ {0} /\ p1 \in Nat \ {0} /\ p2 \in Nat \ {0} /\ p3 \in Nat \ {0}
      /\ p0 - 1 = 7 /\ p0 = 7 + 1 /\ p0 = 8 /\ p1 = p0 + 3 /\ p2 = p1 + 1 /\ p3 = p2 + 5 /\ p1 - 1 = p0 + 2
      /\ p2 - 1 = p1 /\ p3 - 1 = p2 + 4
  BY <1>0
<1>q. /\ p3 = 8 + Len(X) /\ p1 = p0 + Len(a) /\ p2 = p0 + Len(y1)
  BY <1>0, <1>x, <1>y1, <1>y2
<1>2. /\ T \in Text /\ Len(T) = p3 /\ At(T, p0, X) /\ T[p3] = RP /\ BodyItems(T) = BodyFrom(T, p0)
      /\ FetchLine(X) = T \o EOL /\ NoLf(T, 1, 7)
  <2> HIDE DEF p1, p2, p3
  <2>1. X \in Text
    BY <1>x, <1>y2
  <2> QED
    BY <1>p, <1>q, <1>x, <2>1, FetchTextIs DEF NoLf
<1> HIDE DEF p0, p1, p2, p3
<1>3. At(T, p0, a) /\ At(T, p1, sp) /\ At(T, p2, f)
  <2>3. At(T, p0, y2)
    BY <1>2, <1>x
  <2>2. At(T, p0, y1) /\ At(T, p2, f)
    <3>1. At(T, p0, y1 \o f) /\ y1 \in Text
      BY <1>0, <1>y1, <2>3 DEF y2
    <3> QED
      BY <1>0, <1>2, <1>p, <1>q, <3>1, AtBoth
  <2>1. At(T, p0, a) /\ At(T, p1, sp)
    <3>1. At(T, p0, a \o sp) /\ a \in Text
      BY <1>0, <2>2 DEF y1
    <3> QED
      BY <1>0, <1>2, <1>p, <1>q, <3>1, AtBoth
  <2> QED
    BY <2>1, <2>2
<1>4. p3 <= Len(T) /\ T[p3] \in Stops /\ NoLf(T, p3, Len(T)) /\ T[Len(T)] # RB /\ T # <<>> /\ BodyFrom(T, p3) = <<>>
  BY <1>2, <1>p, EndAt
<1>s1. p1 <= Len(T) /\ T[p1] \in Stops /\ Reaches(T, p1, p2) /\ NoLf(T, p1, p2 - 1)
  <2>1. p1 <= Len(T) /\ T[p1] \in Stops /\ Reaches(T, p1, p2) /\ NoLf(T, p1, p1)
    BY <1>2, <1>3, <1>d, <1>p, SpaceAt
  <2>2. p2 - 1 = p1
    BY <1>p
  <2> QED
    BY <2>1, <2>2
<1>w0. NoLf(T, p0, p1 - 1) /\ Finds(T, p0, Entry(Keyword.uid, p1, <<Number(u)>>), p1)
  <2> DEFINE k == Keyword.uid
             w0 == Number(u)
  <2>0. Reaches(T, p0, p0)
    BY DEF Reaches
  <2>1. k \in Nat /\ w0 \in Nat /\ Plain(k) /\ Plain(w0) /\ At(T, p0, <<k, SP, w0>>)
    BY <1>a, <1>d, <1>3 DEF UidItem
  <2> HIDE DEF k, w0
  <2>2. NoLf(T, p0, p0 + 2) /\ Finds(T, p0, Entry(k, p1, <<w0>>), p1)
    BY <1>2, <1>p, <1>s1, <2>0, <2>1, WordAt
  <2>3. p1 - 1 = p0 + 2
    BY <1>p
  <2> QED
    BY <2>2, <2>3 DEF k, w0
<1>w2. NoLf(T, p2, p3 - 1) /\ BodyFrom(T, p1) = <<>>
  <2>0. Reaches(T, p0, p0)
    BY DEF Reaches
  <2>1. At(T, p2, FlagsItem(<<w>>))
    BY <1>3, <1>d
  <2>2. NoLf(T, p2, p2 + 4) /\ BodyFrom(T, p1) = <<>>
    BY <1>2, <1>p, <1>s1, <2>1, FlagsAt
  <2>3. p3 - 1 = p2 + 4
    BY <1>p
  <2> QED
    BY <2>2, <2>3
<1>5. NoLf(T, 1, p3 - 1)
  <2>0. NoLf(T, 1, p0 - 1)
    BY <1>2, <1>p
  <2>1. NoLf(T, 1, p1 - 1)
    <3>1. 1 \in Int /\ p0 - 1 \in Int /\ p1 - 1 \in Int /\ p0 \in Int /\ p0 = (p0 - 1) + 1
      BY <1>p
    <3> QED
      BY <1>w0, <2>0, <3>1, NoLfJoin
  <2>2. NoLf(T, 1, p2 - 1)
    <3>1. 1 \in Int /\ p1 - 1 \in Int /\ p2 - 1 \in Int /\ p1 \in Int /\ p1 = (p1 - 1) + 1
      BY <1>p
    <3> QED
      BY <1>s1, <2>1, <3>1, NoLfJoin
  <2>3. NoLf(T, 1, p3 - 1)
    <3>1. 1 \in Int /\ p2 - 1 \in Int /\ p3 - 1 \in Int /\ p2 \in Int /\ p2 = (p2 - 1) + 1
      BY <1>p
    <3> QED
      BY <1>w2, <2>2, <3>1, NoLfJoin
  <2> QED
    BY <2>3
<1>7. Whole(T)
  <2>1. NoLf(T, 1, Len(T))
    <3>1. 1 \in Int /\ p3 - 1 \in Int /\ p3 \in Int /\ p3 = (p3 - 1) + 1 /\ Len(T) \in Int
      BY <1>2, <1>p
    <3> QED
      BY <1>4, <1>5, <3>1, NoLfJoin
  <2> QED
    BY <1>4, <2>1 DEF Whole, PlainLine, NoLf
<1> DEFINE i1 == Entry(Keyword.uid, p1, <<Number(u)>>)
<1>8. Lists1(BodyItems(T), i1)
  <2> HIDE DEF i1
  <2>1. Finds(T, p0, i1, p1)
    BY <1>w0 DEF i1
  <2> QED
    BY <1>2, <1>w2, <2>1, Listed1
<1>9. ~HasBody(BodyItems(T))
  <2> DEFINE i2 == Entry(Keyword.body, p1, v)
  <2>1. i1 = Entry(Keyword.uid, p1, <<Number(u)>>) /\ i2 = Entry(Keyword.body, p1, v) /\ p1 \in Nat
    BY <1>p
  <2> HIDE DEF i1, i2
  <2> QED
    BY <1>8, <2>1, Given
<1> QED
  BY <1>2, <1>7, <1>9 DEF Drops, Fits, X, T, y1, y2, a, sp, f

----------------------------------------------------------------------------
(* parseFetchBodies().                                                     *)

\* What the forms of a line have in common: one of five.
OneOf(f, a, b, c, d, e) ==
  CASE f = "uid first" -> a [] f = "body first" -> b [] f = "simple item" -> c [] f = "list item" -> d [] f = "flags only" -> e

\* The items of a line.
SimpleItems == <<Keyword.size, SP, Number(1)>> \o <<SP>>
BodyParts(l) ==
  OneOf(l.form, (UidItem(l.uid) \o <<SP>>) \o BodyItem(Body[l.uid]),
                (BodyItem(Body[l.uid]) \o <<SP>>) \o UidItem(l.uid),
                ((SimpleItems \o UidItem(l.uid)) \o <<SP>>) \o BodyItem(Body[l.uid]),
                (((FlagsItem(<<1021>>) \o <<SP>>) \o UidItem(l.uid)) \o <<SP>>) \o BodyItem(Body[l.uid]),
                (UidItem(l.uid) \o <<SP>>) \o FlagsItem(<<1030>>))
BodyText(l) == FetchText(BodyParts(l))

\* The items before the UID, as the line writes them.
LEMMA SimpleItemsAre == <<Keyword.size, SP, Number(1), SP>> = SimpleItems
<1> DEFINE a == Keyword.size
           b == SP
           c == Number(1)
<1>1. a \in Nat /\ b \in Nat /\ c \in Nat
  BY DEF Keyword, SP, Number
<1> HIDE DEF a, b, c
<1>2. <<a, b, c, b>> = <<a, b, c>> \o <<b>>
  BY <1>1, Four, SMTT(30)
<1> QED
  BY <1>2 DEF a, b, c, SimpleItems

\* A line the server may send: of a message with octets, in one of the forms.
Sendable(l) == l.uid \in Nat /\ Body[l.uid] \in Text /\ l.form \in BodyForms

\* A line is a FETCH line of its items.
LEMMA BodyLineForm ==
  ASSUME NEW l, l.form \in BodyForms
  PROVE  BodyLine(l) = FetchLine(BodyParts(l))
<1> DEFINE p1 == (UidItem(l.uid) \o <<SP>>) \o BodyItem(Body[l.uid])
           p2 == (BodyItem(Body[l.uid]) \o <<SP>>) \o UidItem(l.uid)
           p3 == ((<<Keyword.size, SP, Number(1), SP>> \o UidItem(l.uid)) \o <<SP>>) \o BodyItem(Body[l.uid])
           q3 == ((SimpleItems \o UidItem(l.uid)) \o <<SP>>) \o BodyItem(Body[l.uid])
           p4 == (((FlagsItem(<<1021>>) \o <<SP>>) \o UidItem(l.uid)) \o <<SP>>) \o BodyItem(Body[l.uid])
           p5 == (UidItem(l.uid) \o <<SP>>) \o FlagsItem(<<1030>>)
<1>1. BodyLine(l) = OneOf(l.form, FetchLine(p1), FetchLine(p2), FetchLine(p3), FetchLine(p4), FetchLine(p5))
  BY DEF BodyLine, BodyItem, OneOf
<1>2. BodyParts(l) = OneOf(l.form, p1, p2, q3, p4, p5)
  BY DEF BodyParts
<1>3. p3 = q3
  BY SimpleItemsAre
<1> HIDE DEF p1, p2, p3, q3, p4, p5
<1>4. \/ l.form = "uid first" \/ l.form = "body first" \/ l.form = "simple item" \/ l.form = "list item" \/ l.form = "flags only"
  BY DEF BodyForms
<1>5. CASE l.form = "uid first"
  BY <1>1, <1>2, <1>5 DEF OneOf
<1>6. CASE l.form = "body first"
  BY <1>1, <1>2, <1>6 DEF OneOf
<1>7. CASE l.form = "simple item"
  BY <1>1, <1>2, <1>3, <1>7 DEF OneOf
<1>8. CASE l.form = "list item"
  BY <1>1, <1>2, <1>8 DEF OneOf
<1>9. CASE l.form = "flags only"
  BY <1>1, <1>2, <1>9 DEF OneOf
<1> QED
  BY <1>4, <1>5, <1>6, <1>7, <1>8, <1>9

\* Every line is read whole; those that are Complete give the octets of their
\* message, and the others give nothing.
LEMMA BodyLineIs ==
  ASSUME NEW l, Sendable(l)
  PROVE  /\ BodyText(l) \in Text /\ BodyLine(l) = BodyText(l) \o EOL /\ Whole(BodyText(l))
         /\ Complete(l) => Delivers(BodyItems(BodyText(l)), l.uid, Body[l.uid])
         /\ ~Complete(l) => ~HasBody(BodyItems(BodyText(l)))
<1> DEFINE u == l.uid
           v == Body[l.uid]
           p1 == (UidItem(u) \o <<SP>>) \o BodyItem(v)
           p2 == (BodyItem(v) \o <<SP>>) \o UidItem(u)
           p3 == ((SimpleItems \o UidItem(u)) \o <<SP>>) \o BodyItem(v)
           p4 == (((FlagsItem(<<1021>>) \o <<SP>>) \o UidItem(u)) \o <<SP>>) \o BodyItem(v)
           p5 == (UidItem(u) \o <<SP>>) \o FlagsItem(<<1030>>)
<1>0. u \in Nat /\ v \in Text /\ l.form \in BodyForms /\ 1021 \in Nat /\ 1021 # LF /\ 1030 \in Nat /\ 1030 # LF
  BY DEF Sendable, LF
<1>1. BodyParts(l) = OneOf(l.form, p1, p2, p3, p4, p5)
  BY DEF BodyParts
<1>2. BodyLine(l) = FetchLine(BodyParts(l))
  BY <1>0, BodyLineForm
<1> HIDE DEF u, v
<1>3. Reads(p1, u, v) /\ Reads(p2, u, v)
  BY <1>0, UidFirst, BodyFirst
<1>4. Reads(p3, u, v)
  BY <1>0, SimpleItem DEF SimpleItems
<1>5. Drops(p4)
  BY <1>0, ListFirst
<1>6. Drops(p5)
  BY <1>0, FlagsOnly
<1> HIDE DEF p1, p2, p3, p4, p5
<1>7. \/ Complete(l) /\ Reads(BodyParts(l), u, v)
      \/ ~Complete(l) /\ Drops(BodyParts(l))
  <2>0. l.form \in BodyForms
    BY DEF Sendable
  <2>1. \/ l.form = "uid first" \/ l.form = "body first" \/ l.form = "simple item" \/ l.form = "list item" \/ l.form = "flags only"
    BY <2>0 DEF BodyForms
  <2>2. CASE l.form = "uid first"
    <3>1. BodyParts(l) = p1 /\ Complete(l)
      BY <1>1, <2>2 DEF OneOf, Complete
    <3> QED
      BY <1>3, <3>1
  <2>3. CASE l.form = "body first"
    <3>1. BodyParts(l) = p2 /\ Complete(l)
      BY <1>1, <2>3 DEF OneOf, Complete
    <3> QED
      BY <1>3, <3>1
  <2>4. CASE l.form = "simple item"
    <3>1. BodyParts(l) = p3 /\ Complete(l)
      BY <1>1, <2>4 DEF OneOf, Complete
    <3> QED
      BY <1>4, <3>1
  <2>5. CASE l.form = "list item"
    <3>1. BodyParts(l) = p4 /\ ~Complete(l)
      BY <1>1, <2>5 DEF OneOf, Complete
    <3> QED
      BY <1>5, <3>1
  <2>6. CASE l.form = "flags only"
    <3>1. BodyParts(l) = p5 /\ ~Complete(l)
      BY <1>1, <2>6 DEF OneOf, Complete
    <3> QED
      BY <1>6, <3>1
  <2> QED
    BY <2>1, <2>2, <2>3, <2>4, <2>5, <2>6
<1>8. Fits(BodyParts(l))
  BY <1>7 DEF Reads, Drops
<1>9. BodyText(l) \in Text /\ BodyLine(l) = BodyText(l) \o EOL /\ Whole(BodyText(l))
  BY <1>2, <1>8 DEF Fits, BodyText
<1>10. /\ Complete(l) => Delivers(BodyItems(BodyText(l)), u, v)
       /\ ~Complete(l) => ~HasBody(BodyItems(BodyText(l)))
  BY <1>7 DEF Reads, Drops, BodyText
<1> QED
  BY <1>9, <1>10 DEF u, v

\* What the answer says comes out of the parser: a body for every line that is
\* Complete, and none that no such line has.
Result(l) == [uid |-> l.uid, rfc822 |-> Body[l.uid]]
BodiesOf(bodies, lines) ==
  /\ \A j \in DOMAIN bodies : \E k \in DOMAIN lines : Complete(lines[k]) /\ bodies[j] = Result(lines[k])
  /\ \A k \in DOMAIN lines : Complete(lines[k]) => \E j \in DOMAIN bodies : bodies[j] = Result(lines[k])
  /\ \E n \in Nat : DOMAIN bodies = 1 .. n

\* What is kept of a sequence.
Kept(t, s, K, D) ==
  /\ t \in Seq(D)
  /\ \A j \in DOMAIN t : \E k \in DOMAIN s : k \in K /\ t[j] = s[k]
  /\ \A k \in DOMAIN s : k \in K => \E j \in DOMAIN t : t[j] = s[k]
\* Keep() keeps what it should and nothing else.
LEMMA KeptIs ==
  ASSUME NEW D, NEW s, s \in Seq(D), NEW K
  PROVE  Kept(Keep(s, K), s, K, D)
  BY KeepHas, SMTT(30) DEF Kept

\* parseFetchBodies() on the octets of any lines the server may send.
LEMMA Parsed ==
  ASSUME NEW n \in Nat, NEW lines, DOMAIN lines = 1 .. n, \A k \in 1 .. n : Sendable(lines[k])
  PROVE  BodiesOf(parseFetchBodies(FlattenSeq([k \in DOMAIN lines |-> BodyLine(lines[k])])), lines)
<1> DEFINE Ts == [k \in 1 .. n |-> BodyText(lines[k])]
           answer0 == FlattenSeq([k \in DOMAIN lines |-> BodyLine(lines[k])])
           items == [k \in DOMAIN Ts |-> BodyItems(Ts[k])]
           D == {BodyOf(items[k]) : k \in 1 .. n}
           found == [k \in DOMAIN Ts |-> BodyOf(items[k])]
           K == {k \in DOMAIN Ts : HasBody(items[k])}
           bodies == Keep(found, K)
<1>1. \A k \in 1 .. n : /\ BodyText(lines[k]) \in Text /\ BodyLine(lines[k]) = BodyText(lines[k]) \o EOL /\ Whole(BodyText(lines[k]))
                        /\ Complete(lines[k]) => Delivers(BodyItems(BodyText(lines[k])), lines[k].uid, Body[lines[k].uid])
                        /\ ~Complete(lines[k]) => ~HasBody(BodyItems(BodyText(lines[k])))
  BY BodyLineIs
<1>2. Ts \in Seq(Text) /\ DOMAIN Ts = 1 .. n /\ \A k \in 1 .. n : Ts[k] = BodyText(lines[k])
  <2>1. Ts \in [1 .. n -> Text]
    BY <1>1
  <2> QED
    BY <2>1
<1>3. answer0 = FlattenSeq([k \in DOMAIN Ts |-> Ts[k] \o EOL])
  <2>1. [k \in DOMAIN lines |-> BodyLine(lines[k])] = [k \in DOMAIN Ts |-> Ts[k] \o EOL]
    BY <1>1, <1>2
  <2> QED
    BY <2>1
<1> HIDE DEF Ts, answer0
<1>4. splitLines(answer0) = Ts
  BY <1>1, <1>2, <1>3, SplitLines
<1>5. parseFetchBodies(answer0) = bodies
  BY <1>4 DEF parseFetchBodies
<1>6. \A k \in 1 .. n : items[k] = BodyItems(BodyText(lines[k])) /\ found[k] = BodyOf(items[k]) /\ (k \in K <=> HasBody(items[k]))
  BY <1>2
<1>7. \A k \in 1 .. n : (Complete(lines[k]) <=> k \in K) /\ (Complete(lines[k]) => found[k] = Result(lines[k]))
  <2> HIDE DEF items, found, K
  <2> QED
    BY <1>1, <1>6 DEF Delivers, Result
<1>8. found \in Seq(D) /\ DOMAIN found = 1 .. n
  <2>1. found \in [1 .. n -> D]
    BY <1>2
  <2> HIDE DEF found, D
  <2> QED
    BY <2>1
<1> HIDE DEF items, found, K, D
<1>8a. found \in Seq(D)
  BY <1>8
<1>9. Kept(bodies, found, K, D)
  BY <1>8a, KeptIs
<1> HIDE DEF bodies
<1>9a. /\ bodies \in Seq(D)
       /\ \A j \in DOMAIN bodies : \E k \in DOMAIN found : k \in K /\ bodies[j] = found[k]
       /\ \A k \in DOMAIN found : k \in K => \E j \in DOMAIN bodies : bodies[j] = found[k]
  BY <1>9 DEF Kept
<1>10. \E m \in Nat : DOMAIN bodies = 1 .. m
  BY <1>9a
<1>11. BodiesOf(bodies, lines)
  BY <1>7, <1>8, <1>9a, <1>10 DEF BodiesOf
<1> QED
  BY <1>5, <1>11 DEF answer0

----------------------------------------------------------------------------
(* uidSet().                                                               *)

\* Two messages of a batch have different ranks.
LEMMA BeforeRank ==
  ASSUME metas \in Seq(Nat)
  PROVE  /\ \A i \in DOMAIN metas : Cardinality(Before(i)) \in 0 .. (Len(metas) - 1)
         /\ \A i, j \in DOMAIN metas : Cardinality(Before(i)) = Cardinality(Before(j)) => i = j
<1> DEFINE n == Len(metas)
           less(i, j) == metas[i] < metas[j] \/ (metas[i] = metas[j] /\ i < j)
<1>1. n \in Nat /\ DOMAIN metas = 1 .. n /\ \A i \in 1 .. n : metas[i] \in Nat
  OBVIOUS
<1>2. IsFiniteSet(1 .. n) /\ Cardinality(1 .. n) = n
  <2>1. Cardinality(1 .. n) = (IF 1 > n THEN 0 ELSE n - 1 + 1) /\ IsFiniteSet(1 .. n)
    BY <1>1, FS_Interval, SMTT(30)
  <2> QED
    BY <1>1, <2>1
<1>3. \A i, j \in 1 .. n : j \in Before(i) <=> less(j, i)
  BY <1>1 DEF Before
<1>4. \A i \in 1 .. n : Before(i) \subseteq 1 .. n /\ i \notin Before(i)
  BY <1>1 DEF Before
<1>5. \A i \in 1 .. n : IsFiniteSet(Before(i)) /\ Cardinality(Before(i)) \in Nat
  BY <1>2, <1>4, FS_Subset, FS_CardinalityType
<1>6. \A i, j, k \in 1 .. n : (less(i, j) /\ less(j, k)) => less(i, k)
  BY <1>1
<1>7. \A i, j \in 1 .. n : i # j => less(i, j) \/ less(j, i)
  BY <1>1
<1>8. ASSUME NEW i \in 1 .. n PROVE Cardinality(Before(i)) \in 0 .. (n - 1)
  <2>1. Cardinality(Before(i)) <= n /\ (Cardinality(Before(i)) = n => Before(i) = 1 .. n)
    BY <1>2, <1>4, FS_Subset
  <2> QED
    BY <1>1, <1>4, <1>5, <2>1
<1>9. ASSUME NEW i \in 1 .. n, NEW j \in 1 .. n, less(i, j)
      PROVE  Cardinality(Before(i)) # Cardinality(Before(j))
  <2>1. Before(i) \subseteq Before(j)
    <3> SUFFICES ASSUME NEW k \in Before(i) PROVE k \in Before(j)
      OBVIOUS
    <3>1. k \in 1 .. n
      BY <1>4
    <3> HIDE DEF less
    <3> QED
      BY <1>3, <1>6, <1>9, <3>1
  <2>2. i \in Before(j)
    BY <1>3, <1>9
  <2>3. Cardinality(Before(j)) = Cardinality(Before(i)) => Before(j) = Before(i)
    BY <1>5, <2>1, FS_Subset
  <2> QED
    BY <1>4, <2>2, <2>3
<1>10. ASSUME NEW i \in 1 .. n, NEW j \in 1 .. n, Cardinality(Before(i)) = Cardinality(Before(j)) PROVE i = j
  <2> HIDE DEF less
  <2> QED
    BY <1>7, <1>9, <1>10
<1> QED
  BY <1>1, <1>8, <1>10

\* There is a message of every rank, so that sorting loses none and makes none up.
LEMMA SortedUids ==
  ASSUME metas \in Seq(Nat)
  PROVE  /\ DOMAIN uids = 1 .. Len(metas) /\ Len(uids) = Len(metas)
         /\ \A k \in 1 .. Len(metas) : uids[k] \in Nat /\ \E i \in DOMAIN metas : uids[k] = metas[i]
         /\ \A i \in DOMAIN metas : \E k \in 1 .. Len(metas) : uids[k] = metas[i]
<1> DEFINE n == Len(metas)
           rank(i) == Cardinality(Before(i))
           at(k) == CHOOSE i \in DOMAIN metas : rank(i) = k - 1
<1>1. n \in Nat /\ DOMAIN metas = 1 .. n /\ \A i \in 1 .. n : metas[i] \in Nat
  OBVIOUS
<1>2. \A i \in 1 .. n : rank(i) \in 0 .. (n - 1)
  BY <1>1, BeforeRank
<1>3. \A i, j \in 1 .. n : rank(i) = rank(j) => i = j
  BY <1>1, BeforeRank
<1>4. uids = [k \in 1 .. n |-> metas[at(k)]]
  BY <1>1 DEF uids
<1> HIDE DEF rank, n
<1>5. ASSUME NEW k \in 1 .. n PROVE \E i \in 1 .. n : rank(i) = k - 1
  <2> SUFFICES ASSUME \A i \in 1 .. n : rank(i) # k - 1 PROVE FALSE
    OBVIOUS
  <2> DEFINE T == (0 .. (n - 1)) \ {k - 1}
             f == [i \in 1 .. n |-> rank(i)]
  <2>1. Cardinality(0 .. (n - 1)) = n /\ IsFiniteSet(0 .. (n - 1)) /\ Cardinality(1 .. n) = n /\ IsFiniteSet(1 .. n)
    <3>1. Cardinality(1 .. n) = (IF 1 > n THEN 0 ELSE n - 1 + 1) /\ IsFiniteSet(1 .. n)
      BY <1>1, FS_Interval
    <3>2. Cardinality(0 .. (n - 1)) = (IF 0 > n - 1 THEN 0 ELSE n - 1 - 0 + 1) /\ IsFiniteSet(0 .. (n - 1))
      <4>1. 0 \in Int /\ n - 1 \in Int
        BY <1>1
      <4> QED
        BY <4>1, FS_Interval
    <3> QED
      BY <1>1, <3>1, <3>2
  <2>2. k - 1 \in 0 .. (n - 1)
    BY <1>1
  <2>3. IsFiniteSet(T) /\ Cardinality(T) = n - 1
    BY <2>1, <2>2, FS_RemoveElement
  <2>4. f \in [1 .. n -> T]
    BY <1>2
  <2>5. Cardinality(T) < Cardinality(1 .. n)
    BY <1>1, <2>1, <2>3
  <2> HIDE DEF f, T
  <2>6. \E x, y \in 1 .. n : x # y /\ f[x] = f[y]
    BY <2>1, <2>3, <2>4, <2>5, FS_PigeonHole
  <2>7. PICK x \in 1 .. n, y \in 1 .. n : x # y /\ f[x] = f[y]
    BY <2>6
  <2>8. rank(x) = rank(y)
    BY <2>7 DEF f
  <2> QED
    BY <1>3, <2>7, <2>8
<1>6. \A k \in 1 .. n : at(k) \in 1 .. n /\ rank(at(k)) = k - 1
  BY <1>1, <1>5
<1> HIDE DEF at
<1>7. \A k \in 1 .. n : uids[k] = metas[at(k)]
  BY <1>4
<1>8. DOMAIN uids = 1 .. n /\ Len(uids) = n
  BY <1>1, <1>4
<1>9. \A k \in 1 .. n : uids[k] \in Nat /\ \E i \in DOMAIN metas : uids[k] = metas[i]
  BY <1>1, <1>6, <1>7
<1>10. ASSUME NEW i \in 1 .. n PROVE \E k \in 1 .. n : uids[k] = metas[i]
  <2>1. rank(i) + 1 \in 1 .. n /\ (rank(i) + 1) - 1 = rank(i)
    BY <1>1, <1>2
  <2>2. rank(at(rank(i) + 1)) = rank(i) /\ at(rank(i) + 1) \in 1 .. n
    BY <1>6, <2>1
  <2>3. at(rank(i) + 1) = i
    BY <1>3, <2>2
  <2> QED
    BY <1>7, <2>1, <2>3
<1> QED
  BY <1>1, <1>8, <1>9, <1>10 DEF n

\* A run: the UIDs go up by one.
Climbs(u, i, e) == \A j \in i .. e : u[j] = u[i] + (j - i)

\* From a position to a later one of a run the UIDs go up by one.
LEMMA RunUp ==
  ASSUME NEW n \in Nat, NEW u, \A k \in 1 .. n : u[k] \in Nat, NEW i \in 1 .. n, NEW e \in i .. n,
         \A j \in i .. (e - 1) : u[j + 1] = u[j] + 1
  PROVE  Climbs(u, i, e)
<1> DEFINE bad == {j \in i .. e : u[j] # u[i] + (j - i)}
<1> SUFFICES ASSUME bad # {} PROVE FALSE
  BY DEF Climbs
<1>1. bad \subseteq Nat
  OBVIOUS
<1>2. PICK x \in bad : \A y \in bad : x <= y
  <2> HIDE DEF bad
  <2> QED
    BY <1>1, Least
<1>3. x \in i .. e /\ u[x] # u[i] + (x - i) /\ u[i] \in Nat
  OBVIOUS
<1>4. x # i
  BY <1>3
<1>5. x - 1 \in i .. (e - 1) /\ x - 1 \in i .. e /\ (x - 1) + 1 = x
  BY <1>3, <1>4
<1>6. x - 1 \notin bad
  BY <1>2, <1>3
<1>7. u[x - 1] = u[i] + ((x - 1) - i) /\ u[(x - 1) + 1] = u[x - 1] + 1
  BY <1>5, <1>6
<1> QED
  BY <1>3, <1>5, <1>7

\* The ranges of the request name the UIDs of the batch and no others.
LEMMA UidSetIs ==
  ASSUME metas \in Seq(Nat)
  PROVE  UNION {r[1] .. r[2] : r \in uidSet} = {metas[i] : i \in DOMAIN metas}
<1> DEFINE n == Len(metas)
           u == uids
           later(i) == {j \in Ends : j >= i}
           end(i) == Min(later(i))
<1>1. n \in Nat /\ DOMAIN metas = 1 .. n /\ DOMAIN u = 1 .. n /\ Len(u) = n
  BY SortedUids
<1>2. /\ \A k \in 1 .. n : u[k] \in Nat /\ \E i \in DOMAIN metas : u[k] = metas[i]
      /\ \A i \in DOMAIN metas : \E k \in 1 .. n : u[k] = metas[i]
  BY SortedUids
<1>3. uidSet = {<<u[i], u[end(i)]>> : i \in Starts}
  BY DEF uidSet
<1>4. Starts = {i \in 1 .. n : i = 1 \/ u[i] # u[i - 1] + 1} /\ Ends = {i \in 1 .. n : i = n \/ u[i + 1] # u[i] + 1}
  BY <1>1 DEF Starts, Ends
<1> HIDE DEF n, u
<1>5. ASSUME NEW i \in 1 .. n
      PROVE  /\ end(i) \in i .. n
             /\ \A j \in Ends : j >= i => end(i) <= j
             /\ Climbs(u, i, end(i))
  <2>1. n \in later(i) /\ later(i) \subseteq Nat
    BY <1>1, <1>4
  <2>2. PICK x \in later(i) : \A y \in later(i) : x <= y
    <3> HIDE DEF later
    <3> QED
      BY <2>1, Least
  <2>3. end(i) \in later(i) /\ \A y \in later(i) : end(i) <= y
    <3> HIDE DEF later
    <3> QED
      BY <2>2 DEF Min
  <2> HIDE DEF end
  <2>4. end(i) \in i .. n /\ end(i) \in Nat
    BY <1>1, <1>4, <2>3
  <2>5. \A j \in i .. (end(i) - 1) : u[j + 1] = u[j] + 1
    <3> SUFFICES ASSUME NEW j \in i .. (end(i) - 1) PROVE u[j + 1] = u[j] + 1
      OBVIOUS
    <3>1. j \in 1 .. n /\ j < end(i) /\ j >= i /\ j # n
      BY <1>1, <2>4
    <3>2. j \notin Ends
      <4>1. j \notin later(i)
        BY <2>3, <2>4, <3>1
      <4> QED
        BY <3>1, <4>1
    <3> QED
      BY <1>4, <3>1, <3>2
  <2>6. Climbs(u, i, end(i))
    <3>1. \A k \in 1 .. n : u[k] \in Nat
      BY <1>2
    <3> QED
      BY <1>1, <2>4, <2>5, <3>1, RunUp
  <2> QED
    BY <2>3, <2>4, <2>6
<1> HIDE DEF end, later
<1>6. ASSUME NEW i \in Starts, NEW x \in u[i] .. u[end(i)] PROVE \E k \in 1 .. n : u[k] = x
  <2>1. i \in 1 .. n
    BY <1>4
  <2>2. end(i) \in i .. n /\ u[end(i)] = u[i] + (end(i) - i) /\ u[i] \in Nat
    <3>1. end(i) \in i .. n /\ u[i] \in Nat /\ Climbs(u, i, end(i))
      BY <1>2, <1>5, <2>1
    <3>2. end(i) \in i .. end(i)
      BY <1>1, <2>1, <3>1
    <3> QED
      BY <3>1, <3>2 DEF Climbs
  <2> DEFINE j == i + (x - u[i])
  <2>3. j \in i .. end(i) /\ j - i = x - u[i] /\ x \in Nat
    BY <1>1, <2>1, <2>2
  <2> HIDE DEF j
  <2>4. u[j] = u[i] + (j - i) /\ j \in 1 .. n
    <3>0. Climbs(u, i, end(i))
      BY <1>5, <2>1
    <3>1. Climbs(u, i, end(i)) /\ j \in 1 .. n
      BY <1>1, <2>1, <2>2, <2>3, <3>0
    <3> QED
      BY <2>3, <3>1 DEF Climbs
  <2>5. u[j] = x
    BY <2>2, <2>3, <2>4
  <2> QED
    BY <2>4, <2>5
<1>7. ASSUME NEW k \in 1 .. n PROVE \E i \in Starts : u[k] \in u[i] .. u[end(i)]
  <2> DEFINE S == {i \in Starts : i <= k}
  <2>1. S \subseteq 0 .. k /\ S # {} /\ k \in Nat
    <3>1. 1 \in S
      BY <1>1, <1>4
    <3>2. \A i \in S : i \in 0 .. k
      BY <1>1, <1>4
    <3> QED
      BY <3>1, <3>2
  <2>2. PICK i \in S : \A y \in S : y <= i
    <3> HIDE DEF S
    <3> QED
      BY <2>1, Greatest
  <2>3. i \in Starts /\ i \in 1 .. n /\ i <= k
    BY <1>4
  <2>4. \A j \in i .. (k - 1) : u[j + 1] = u[j] + 1 /\ j \notin Ends
    <3> SUFFICES ASSUME NEW j \in i .. (k - 1) PROVE u[j + 1] = u[j] + 1 /\ j \notin Ends
      OBVIOUS
    <3>1. j + 1 \in 1 .. n /\ j + 1 <= k /\ j + 1 > i /\ j \in 1 .. n /\ (j + 1) - 1 = j /\ j # n /\ j + 1 # 1
      BY <1>1, <2>3
    <3>2. j + 1 \notin Starts
      BY <2>2, <2>3, <3>1
    <3>3. u[j + 1] = u[j] + 1
      BY <1>4, <3>1, <3>2
    <3> QED
      BY <1>4, <3>1, <3>3
  <2>5. /\ end(i) \in i .. n /\ end(i) \in Ends
        /\ \A j \in i .. end(i) : u[j] = u[i] + (j - i)
    <3>1. end(i) \in Ends
      <4>1. n \in later(i) /\ later(i) \subseteq Nat
        BY <1>1, <1>4, <2>3 DEF later
      <4>2. PICK x \in later(i) : \A y \in later(i) : x <= y
        BY <4>1, Least
      <4>3. end(i) \in later(i)
        BY <4>2 DEF end, Min
      <4> QED
        BY <4>3 DEF later
    <3> QED
      BY <1>5, <2>3, <3>1 DEF Climbs
  <2>6. k <= end(i)
    BY <1>1, <2>3, <2>4, <2>5
  <2>7. k \in i .. end(i) /\ end(i) \in i .. end(i)
    BY <1>1, <2>3, <2>5, <2>6
  <2>8. u[k] = u[i] + (k - i) /\ u[end(i)] = u[i] + (end(i) - i) /\ u[i] \in Nat
    BY <1>2, <2>3, <2>5, <2>7
  <2>9. u[k] \in u[i] .. u[end(i)]
    BY <1>1, <2>3, <2>5, <2>6, <2>8
  <2> QED
    BY <2>3, <2>9
<1>8. ASSUME NEW i \in Starts, NEW x \in u[i] .. u[end(i)] PROVE x \in UNION {r[1] .. r[2] : r \in uidSet}
  <2> DEFINE r == <<u[i], u[end(i)]>>
  <2>1. r \in uidSet /\ r[1] = u[i] /\ r[2] = u[end(i)]
    BY <1>3
  <2> HIDE DEF r
  <2> QED
    BY <2>1
<1>9. ASSUME NEW x \in UNION {r[1] .. r[2] : r \in uidSet} PROVE \E i \in Starts : x \in u[i] .. u[end(i)]
  <2>1. PICK r \in uidSet : x \in r[1] .. r[2]
    OBVIOUS
  <2>2. PICK i \in Starts : r = <<u[i], u[end(i)]>>
    BY <1>3
  <2> QED
    BY <2>1, <2>2
<1>10. ASSUME NEW x \in UNION {r[1] .. r[2] : r \in uidSet} PROVE x \in {metas[i] : i \in DOMAIN metas}
  <2>1. \E k \in 1 .. n : u[k] = x
    BY <1>6, <1>9
  <2> QED
    BY <1>2, <2>1
<1>11. ASSUME NEW i \in DOMAIN metas PROVE metas[i] \in UNION {r[1] .. r[2] : r \in uidSet}
  <2>1. PICK k \in 1 .. n : u[k] = metas[i]
    BY <1>2
  <2> QED
    BY <1>7, <1>8, <2>1
<1> QED
  BY <1>10, <1>11

----------------------------------------------------------------------------
(* fetchMessages() and fetchMessage().                                     *)

\* The UIDs of the batch.
BatchUids == {metas[i] : i \in DOMAIN metas}

\* The octets are those of lines the server may send.
AnswerOk ==
  /\ \E n \in Nat : DOMAIN meant = 1 .. n
  /\ \A k \in DOMAIN meant : Sendable(meant[k])
  /\ answer = FlattenSeq([k \in DOMAIN meant |-> BodyLine(meant[k])])

\* What the call has to keep: which operation is for which messages, the
\* attempts that are left, the UIDs the request named, and what the answer says.
Control ==
  /\ op \in {"folders", "listing", "single", "batch"}
  /\ pc \in {"ask", "wait", "parse", "done", "thrown"}
  /\ op \in {"folders", "listing"} => metas = <<>>
  /\ op \in {"single", "batch"} => metas \in Batches
  /\ op = "single" => Len(metas) = 1
  /\ attempt \in Nat /\ attempt <= attempts
  /\ pc = "ask" => attempt < attempts /\ (sent = {} \/ Asked = BatchUids)
  /\ pc # "ask" => Asked = BatchUids
  /\ pc = "thrown" => attempt = attempts
  /\ pc \in {"ask", "wait", "thrown"} => meant = <<>> /\ answer = <<>>
  /\ op = "batch" /\ pc = "parse" => AnswerOk
  /\ op = "single" /\ pc \in {"parse", "done"} => meant = <<>> /\ answer = Body[metas[1]]

\* What is handed out.
HandedOver ==
  /\ \A i \in DOMAIN metas : out[i] \in {Body[metas[i]], <<>>}
  /\ op = "single" => out = <<Body[metas[1]]>>
  /\ \A k \in DOMAIN meant : Complete(meant[k]) /\ meant[k].uid \in Asked =>
       \E i \in DOMAIN metas : metas[i] = meant[k].uid /\ out[i] = Body[metas[i]]

FetchInv == Control /\ (pc = "done" /\ metas # <<>> => HandedOver)

\* There is at least one attempt.
LEMMA AttemptsNat == attempts \in Nat \ {0}
  BY FetchAssumption DEF attempts

\* The batch of a call, and the octets of its messages.
LEMMA BatchTyped ==
  ASSUME metas \in Batches
  PROVE  metas \in Seq(Nat) /\ \A u \in BatchUids \cup Unasked : u \in Nat /\ Body[u] \in Text
<1>1. metas \in Seq(Nat) /\ \A i \in DOMAIN metas : Body[metas[i]] \in Seq(Nat)
  BY FetchAssumption
<1>2. \A i \in DOMAIN metas : metas[i] \in Nat
  BY <1>1
<1>3. \A u \in Unasked : u \in Nat /\ Body[u] \in Seq(Nat)
  BY FetchAssumption
<1> QED
  BY <1>1, <1>2, <1>3 DEF BatchUids, Text

\* Every message gets the octets of its UID or none, and the first of a UID gets
\* those a line has.
Gives(h, lines) ==
  /\ \A i \in DOMAIN metas : h[i] \in {Body[metas[i]], <<>>}
  /\ \A k \in DOMAIN lines : Complete(lines[k]) /\ lines[k].uid \in BatchUids =>
       \E i \in DOMAIN metas : metas[i] = lines[k].uid /\ h[i] = Body[metas[i]]

\* fetchMessages() hands out what the parser found.
LEMMA HandedIs ==
  ASSUME metas \in Seq(Nat), NEW bodies, NEW lines, BodiesOf(bodies, lines)
  PROVE  Gives(Handed(bodies), lines)
<1> DEFINE of(i) == {k \in DOMAIN bodies : bodies[k].uid = metas[i]}
           first(i) == \A j \in 1 .. (i - 1) : metas[j] # metas[i]
           h == Handed(bodies)
<1>0. DOMAIN metas = 1 .. Len(metas) /\ Len(metas) \in Nat
  OBVIOUS
<1>1. \A i \in DOMAIN metas : h[i] = IF first(i) /\ of(i) # {} THEN bodies[Max(of(i))].rfc822 ELSE <<>>
  BY DEF Handed
<1>2. ASSUME NEW i \in DOMAIN metas, of(i) # {} PROVE bodies[Max(of(i))].rfc822 = Body[metas[i]]
  <2>1. PICK n \in Nat : DOMAIN bodies = 1 .. n
    BY DEF BodiesOf
  <2>2. of(i) \subseteq 0 .. n
    BY <2>1
  <2> DEFINE S == of(i)
  <2>3. PICK x \in S : \A y \in S : y <= x
    <3> HIDE DEF S
    <3>1. S # {} /\ S \subseteq 0 .. n
      BY <1>2, <2>2 DEF S
    <3> QED
      BY <3>1, Greatest
  <2>4. Max(S) \in S
    <3> HIDE DEF S
    <3> QED
      BY <2>3 DEF Max
  <2> DEFINE m == Max(S)
  <2>5. m \in DOMAIN bodies /\ bodies[m].uid = metas[i]
    BY <2>4
  <2> HIDE DEF m
  <2>6. PICK k \in DOMAIN lines : bodies[m] = Result(lines[k])
    BY <2>5 DEF BodiesOf
  <2>7. bodies[m].uid = lines[k].uid /\ bodies[m].rfc822 = Body[lines[k].uid]
    BY <2>6 DEF Result
  <2>8. bodies[m].rfc822 = Body[metas[i]]
    BY <2>5, <2>7
  <2> QED
    BY <2>8 DEF m
<1> HIDE DEF h
<1>3. \A i \in DOMAIN metas : h[i] \in {Body[metas[i]], <<>>}
  <2> HIDE DEF of, first
  <2> QED
    BY <1>1, <1>2
<1>4. ASSUME NEW k \in DOMAIN lines, Complete(lines[k]), lines[k].uid \in BatchUids
      PROVE  \E i \in DOMAIN metas : metas[i] = lines[k].uid /\ h[i] = Body[metas[i]]
  <2> DEFINE S == {i \in DOMAIN metas : metas[i] = lines[k].uid}
  <2>1. S # {} /\ S \subseteq Nat
    BY <1>0, <1>4 DEF BatchUids
  <2>2. PICK i \in S : \A y \in S : i <= y
    <3> HIDE DEF S
    <3> QED
      BY <2>1, Least
  <2>3. i \in DOMAIN metas /\ metas[i] = lines[k].uid /\ i \in Nat
    BY <2>1, <2>2
  <2>4. first(i)
    <3> SUFFICES ASSUME NEW j \in 1 .. (i - 1), metas[j] = metas[i] PROVE FALSE
      OBVIOUS
    <3>1. j \in DOMAIN metas /\ j < i
      BY <1>0, <2>3
    <3>2. j \in S
      BY <2>3, <3>1
    <3> QED
      BY <2>2, <2>3, <3>1, <3>2
  <2>5. PICK j \in DOMAIN bodies : bodies[j] = Result(lines[k])
    BY <1>4 DEF BodiesOf
  <2>6. bodies[j].uid = metas[i]
    BY <2>3, <2>5 DEF Result
  <2>7. of(i) # {}
    BY <2>6
  <2> HIDE DEF of, first
  <2>8. h[i] = Body[metas[i]]
    BY <1>1, <1>2, <2>3, <2>4, <2>7
  <2> QED
    BY <2>3, <2>8
<1> QED
  BY <1>3, <1>4 DEF Gives, h

----------------------------------------------------------------------------
\* The invariant holds when the call starts.
LEMMA FetchInit == Init => FetchInv
<1> SUFFICES ASSUME Init PROVE FetchInv
  OBVIOUS
<1>1. 0 < attempts /\ 0 \in Nat /\ 0 <= attempts
  BY AttemptsNat
<1>2. \/ op = "batch" /\ metas \in Batches
      \/ op \in {"folders", "listing"} /\ metas = <<>>
      \/ op = "single" /\ metas \in Batches /\ Len(metas) = 1
  BY DEF Init
<1>3. pc = "ask" /\ attempt = 0 /\ sent = {} /\ meant = <<>> /\ answer = <<>>
  BY DEF Init
<1> QED
  BY <1>1, <1>2, <1>3 DEF FetchInv, Control

\* Every step preserves it.
LEMMA FetchStep == FetchInv /\ [Next]_vars => FetchInv'
<1> SUFFICES ASSUME FetchInv, [Next]_vars PROVE FetchInv'
  OBVIOUS
<1>0. Control /\ (pc = "done" /\ metas # <<>> => HandedOver) /\ attempts \in Nat
  BY AttemptsNat DEF FetchInv
<1>1. CASE EmptyBatch
  <2>1. pc = "ask" /\ op = "batch" /\ metas = <<>> /\ pc' = "done" /\ UNCHANGED <<op, metas, attempt, sent, meant, answer, out>>
    BY <1>1 DEF EmptyBatch
  <2>2. BatchUids = {}
    BY <2>1 DEF BatchUids
  <2>3. Asked = BatchUids
    BY <1>0, <2>1, <2>2 DEF Control, Asked
  <2>4. Asked' = BatchUids'
    BY <2>1, <2>3 DEF Asked, BatchUids
  <2>5. Control'
    BY <1>0, <2>1, <2>4 DEF Control, attempts
  <2> QED
    BY <2>1, <2>5 DEF FetchInv
<1>2. CASE Request
  <2>1. pc = "ask" /\ sent' = uidSet /\ attempt' = attempt + 1 /\ pc' = "wait" /\ UNCHANGED <<op, metas, meant, answer, out>>
    BY <1>2 DEF Request
  <2>2. metas \in Seq(Nat)
    <3>1. CASE op \in {"single", "batch"}
      BY <1>0, <3>1, BatchTyped DEF Control
    <3>2. CASE op \in {"folders", "listing"}
      <4>1. metas = <<>>
        BY <1>0, <3>2 DEF Control
      <4> QED
        BY <4>1
    <3> QED
      BY <1>0, <3>1, <3>2 DEF Control
  <2>3. Asked' = BatchUids' /\ attempts' = attempts
    BY <2>1, <2>2, UidSetIs DEF Asked, BatchUids, attempts
  <2>4. attempt' \in Nat /\ attempt' <= attempts
    BY <1>0, <2>1 DEF Control
  <2>5. Control'
    BY <1>0, <2>1, <2>3, <2>4 DEF Control
  <2> QED
    BY <2>1, <2>5 DEF FetchInv
<1>3. CASE Fails
  <2>1. pc = "wait" /\ pc' = (IF attempt >= attempts THEN "thrown" ELSE "ask") /\ UNCHANGED <<op, metas, attempt, sent, meant, answer, out>>
    BY <1>3 DEF Fails
  <2>2. Asked' = BatchUids' /\ attempts' = attempts
    BY <1>0, <2>1 DEF Asked, BatchUids, Control, attempts
  <2>3. Control'
    BY <1>0, <2>1, <2>2 DEF Control
  <2> QED
    BY <2>1, <2>3 DEF FetchInv
<1>4. CASE AnswersBatch
  <2>1. PICK lines \in LinesOf([uid : Asked \cup Unasked, form : BodyForms]) :
          Answered(lines, FlattenSeq([k \in DOMAIN lines |-> BodyLine(lines[k])]))
    BY <1>4 DEF AnswersBatch
  <2>2. /\ pc = "wait" /\ op = "batch" /\ meant' = lines /\ answer' = FlattenSeq([k \in DOMAIN lines |-> BodyLine(lines[k])])
        /\ pc' = "parse" /\ UNCHANGED <<op, metas, attempt, sent, out>>
    BY <1>4, <2>1 DEF AnswersBatch, Answered
  <2>3. PICK n \in 0 .. MaxLines : lines \in [1 .. n -> [uid : Asked \cup Unasked, form : BodyForms]]
    BY <2>1 DEF LinesOf
  <2>4. n \in Nat
    BY FetchAssumption
  <2>5. \A u \in Asked \cup Unasked : u \in Nat /\ Body[u] \in Text
    BY <1>0, <2>2, BatchTyped DEF Control
  <2>6. \A k \in DOMAIN lines : Sendable(lines[k])
    BY <2>3, <2>5 DEF Sendable
  <2>7. AnswerOk'
    BY <2>2, <2>3, <2>4, <2>6 DEF AnswerOk
  <2>8. Asked' = BatchUids' /\ attempts' = attempts
    BY <1>0, <2>2 DEF Asked, BatchUids, Control, attempts
  <2>9. Control'
    BY <1>0, <2>2, <2>7, <2>8 DEF Control
  <2> QED
    BY <2>2, <2>9 DEF FetchInv
<1>5. CASE AnswersListing
  <2>2. pc = "wait" /\ op = "listing" /\ pc' = "parse" /\ UNCHANGED <<op, metas, attempt, sent, out>>
    BY <1>5 DEF AnswersListing, Answered
  <2>8. Asked' = BatchUids' /\ attempts' = attempts
    BY <1>0, <2>2 DEF Asked, BatchUids, Control, attempts
  <2>9. Control'
    BY <1>0, <2>2, <2>8 DEF Control
  <2> QED
    BY <2>2, <2>9 DEF FetchInv
<1>6. CASE AnswersFolders
  <2>2. pc = "wait" /\ op = "folders" /\ pc' = "parse" /\ UNCHANGED <<op, metas, attempt, sent, out>>
    BY <1>6 DEF AnswersFolders, Answered
  <2>8. Asked' = BatchUids' /\ attempts' = attempts
    BY <1>0, <2>2 DEF Asked, BatchUids, Control, attempts
  <2>9. Control'
    BY <1>0, <2>2, <2>8 DEF Control
  <2> QED
    BY <2>2, <2>9 DEF FetchInv
<1>7. CASE AnswersSingle
  <2>2. pc = "wait" /\ op = "single" /\ pc' = "parse" /\ meant' = <<>> /\ answer' = Body[metas[1]] /\ UNCHANGED <<op, metas, attempt, sent, out>>
    BY <1>7 DEF AnswersSingle, Answered
  <2>8. Asked' = BatchUids' /\ attempts' = attempts
    BY <1>0, <2>2 DEF Asked, BatchUids, Control, attempts
  <2>9. Control'
    BY <1>0, <2>2, <2>8 DEF Control
  <2> QED
    BY <2>2, <2>9 DEF FetchInv
<1>8. CASE HandOut
  <2>1. /\ pc = "parse" /\ op = "batch" /\ out' = Handed(parseFetchBodies(answer)) /\ pc' = "done"
        /\ UNCHANGED <<op, metas, attempt, sent, meant, answer>>
    BY <1>8 DEF HandOut, Returns
  <2>2. AnswerOk /\ metas \in Batches /\ Asked = BatchUids
    BY <1>0, <2>1 DEF Control
  <2>3. BodiesOf(parseFetchBodies(answer), meant)
    BY <2>2, Parsed DEF AnswerOk
  <2>4. Gives(Handed(parseFetchBodies(answer)), meant)
    BY <2>2, <2>3, HandedIs, BatchTyped
  <2>5. Asked' = BatchUids' /\ Asked' = Asked /\ attempts' = attempts
    BY <2>1, <2>2 DEF Asked, BatchUids, attempts
  <2>6. Control'
    BY <1>0, <2>1, <2>5 DEF Control
  <2>7. HandedOver'
    BY <2>1, <2>2, <2>4, <2>5 DEF HandedOver, Gives
  <2> QED
    BY <2>6, <2>7 DEF FetchInv
<1>9. CASE TakeSingle
  <2>1. /\ pc = "parse" /\ op = "single" /\ out' = <<answer>> /\ pc' = "done"
        /\ UNCHANGED <<op, metas, attempt, sent, meant, answer>>
    BY <1>9 DEF TakeSingle, Returns
  <2>2. metas \in Batches /\ Len(metas) = 1 /\ meant = <<>> /\ answer = Body[metas[1]] /\ Asked = BatchUids
    BY <1>0, <2>1 DEF Control
  <2>3. DOMAIN metas = 1 .. 1
    BY <2>2, BatchTyped
  <2>4. out'[1] = Body[metas[1]]
    BY <2>1, <2>2
  <2>5. Asked' = BatchUids' /\ attempts' = attempts
    BY <2>1, <2>2 DEF Asked, BatchUids, attempts
  <2>6. Control'
    BY <1>0, <2>1, <2>5 DEF Control
  <2>7. HandedOver'
    BY <2>1, <2>2, <2>3, <2>4 DEF HandedOver
  <2> QED
    BY <2>6, <2>7 DEF FetchInv
<1>10. CASE TakeListing
  <2>1. pc = "parse" /\ op = "listing" /\ pc' = "done" /\ UNCHANGED <<op, metas, attempt, sent, meant, answer>>
    BY <1>10 DEF TakeListing, Returns
  <2>5. Asked' = BatchUids' /\ attempts' = attempts
    BY <1>0, <2>1 DEF Asked, BatchUids, attempts, Control
  <2>6. Control' /\ metas' = <<>>
    BY <1>0, <2>1, <2>5 DEF Control
  <2> QED
    BY <2>6 DEF FetchInv
<1>11. CASE TakeFolders
  <2>1. pc = "parse" /\ op = "folders" /\ pc' = "done" /\ UNCHANGED <<op, metas, attempt, sent, meant, answer>>
    BY <1>11 DEF TakeFolders, Returns
  <2>5. Asked' = BatchUids' /\ attempts' = attempts
    BY <1>0, <2>1 DEF Asked, BatchUids, attempts, Control
  <2>6. Control' /\ metas' = <<>>
    BY <1>0, <2>1, <2>5 DEF Control
  <2> QED
    BY <2>6 DEF FetchInv
<1>12. CASE UNCHANGED vars
  <2>1. UNCHANGED <<op, metas, pc, attempt, sent, meant, answer, out>>
    BY <1>12 DEF vars
  <2>2. Control' /\ (HandedOver => HandedOver')
    BY <1>0, <2>1 DEF Control, HandedOver, AnswerOk, Asked, BatchUids, attempts
  <2> QED
    BY <1>0, <2>1, <2>2 DEF FetchInv
<1> QED
  BY <1>1, <1>2, <1>3, <1>4, <1>5, <1>6, <1>7, <1>8, <1>9, <1>10, <1>11, <1>12 DEF Next

\* FetchContract, for every batch, all octets and every number of attempts.
THEOREM FetchedBodies == Spec => []FetchContract
<1>1. FetchInv => FetchContract
  BY DEF FetchInv, Control, HandedOver, FetchContract, BatchUids
<1> QED
  BY <1>1, FetchInit, FetchStep, PTL DEF Spec

----------------------------------------------------------------------------
(* More on sequences: concatenations, and what is left out of them.        *)

Assoc(a, b, c) == (a \o b) \o c = a \o (b \o c)

\* Concatenation is associative.
LEMMA ConcatAssoc ==
  ASSUME NEW D, NEW a \in Seq(D), NEW b \in Seq(D), NEW c \in Seq(D)
  PROVE  Assoc(a, b, c)
<1> DEFINE x == (a \o b) \o c
           y == a \o (b \o c)
<1>1. x \in Seq(D) /\ y \in Seq(D) /\ Len(x) = Len(y)
  OBVIOUS
<1>2. ASSUME NEW i \in 1 .. Len(x) PROVE x[i] = y[i]
  <2>1. CASE i \in 1 .. Len(a)
    OBVIOUS
  <2>2. CASE i \in (Len(a) + 1) .. (Len(a) + Len(b))
    OBVIOUS
  <2>3. CASE i > Len(a) + Len(b)
    OBVIOUS
  <2> QED
    BY <2>1, <2>2, <2>3
<1>3. x = y
  BY <1>1, <1>2, SameSeq
<1> QED
  BY <1>3 DEF Assoc

\* Flattening two sequences of sequences, one after the other.
LEMMA FlattenConcat ==
  ASSUME NEW D, NEW x \in Seq(Seq(D)), NEW y \in Seq(Seq(D)), NEW z \in Seq(Seq(D)),
         Len(z) = Len(x) + Len(y), \A i \in 1 .. Len(x) : z[i] = x[i], \A i \in 1 .. Len(y) : z[Len(x) + i] = y[i]
  PROVE  FlattenSeq(z) = FlattenSeq(x) \o FlattenSeq(y)
<1> DEFINE n == Len(x)
           m == Len(y)
<1>0. n \in Nat /\ m \in Nat /\ \A k \in 1 .. m : y[k] \in Seq(D)
  OBVIOUS
<1>1. PICK h : Partial(h, z, D) /\ FlattenSeq(z) = h[Len(z)]
  BY Flattened
<1>2. PICK f : Partial(f, x, D) /\ FlattenSeq(x) = f[Len(x)]
  BY Flattened
<1>3. PICK g : Partial(g, y, D) /\ FlattenSeq(y) = g[Len(y)]
  BY Flattened
<1>4. /\ h \in [0 .. (n + m) -> Seq(D)] /\ h[0] = <<>> /\ \A k \in 1 .. (n + m) : h[k] = h[k - 1] \o z[k]
      /\ f \in [0 .. n -> Seq(D)] /\ f[0] = <<>> /\ \A k \in 1 .. n : f[k] = f[k - 1] \o x[k]
      /\ g \in [0 .. m -> Seq(D)] /\ g[0] = <<>> /\ \A k \in 1 .. m : g[k] = g[k - 1] \o y[k]
  BY <1>1, <1>2, <1>3 DEF Partial
<1>5. (\A i \in 1 .. n : z[i] = x[i]) /\ \A i \in 1 .. m : z[n + i] = y[i]
  OBVIOUS
<1>6. FlattenSeq(z) = h[n + m] /\ FlattenSeq(x) = f[n] /\ FlattenSeq(y) = g[m]
  BY <1>1, <1>2, <1>3
<1> HIDE DEF n, m
<1>7. h[n] = f[n]
  <2> DEFINE S == {k \in 0 .. n : h[k] = f[k]}
  <2>1. 0 \in S
    BY <1>0, <1>4
  <2>2. ASSUME NEW l \in 0 .. (n - 1), l \in S PROVE l + 1 \in S
    <3>1. l + 1 \in 1 .. n /\ l + 1 \in 1 .. (n + m) /\ (l + 1) - 1 = l /\ l + 1 \in 0 .. n
      BY <1>0
    <3>2. h[l + 1] = h[l] \o z[l + 1] /\ f[l + 1] = f[l] \o x[l + 1]
      BY <1>4, <3>1
    <3>3. h[l + 1] = f[l + 1]
      BY <1>5, <2>2, <3>1, <3>2
    <3> QED
      BY <3>1, <3>3
  <2>3. 0 .. n \subseteq S
    <3> HIDE DEF S
    <3> QED
      BY <1>0, <2>1, <2>2, UpTo
  <2> QED
    BY <1>0, <2>3
<1>8. h[n + m] = f[n] \o g[m]
  <2> DEFINE S == {k \in 0 .. m : h[n + k] = f[n] \o g[k]}
  <2>0. f[n] \in Seq(D) /\ \A k \in 0 .. m : g[k] \in Seq(D)
    BY <1>0, <1>4
  <2>1. 0 \in S
    <3>1. f[n] \o <<>> = f[n]
      BY <2>0
    <3>2. n + 0 = n /\ 0 \in 0 .. m
      BY <1>0
    <3> QED
      BY <1>4, <1>7, <3>1, <3>2
  <2>2. ASSUME NEW l \in 0 .. (m - 1), l \in S PROVE l + 1 \in S
    <3>1. /\ n + (l + 1) \in 1 .. (n + m) /\ (n + (l + 1)) - 1 = n + l /\ l + 1 \in 1 .. m /\ (l + 1) - 1 = l
          /\ l + 1 \in 0 .. m /\ l \in 0 .. m
      BY <1>0
    <3> DEFINE a == f[n]
               b == g[l]
               c == y[l + 1]
    <3>2. h[n + (l + 1)] = h[n + l] \o c
      BY <1>4, <1>5, <3>1
    <3>3. g[l + 1] = b \o c
      BY <1>4, <3>1
    <3>4. h[n + l] = a \o b
      BY <2>2
    <3>5. a \in Seq(D) /\ b \in Seq(D) /\ c \in Seq(D)
      BY <1>0, <2>0, <3>1
    <3> HIDE DEF a, b, c
    <3>6. Assoc(a, b, c)
      BY <3>5, ConcatAssoc
    <3>7. h[n + (l + 1)] = a \o g[l + 1]
      BY <3>2, <3>3, <3>4, <3>6 DEF Assoc
    <3> QED
      BY <3>1, <3>7 DEF a
  <2>3. 0 .. m \subseteq S
    <3> HIDE DEF S
    <3> QED
      BY <1>0, <2>1, <2>2, UpTo
  <2>4. m \in S
    <3> HIDE DEF S
    <3>1. m \in 0 .. m
      BY <1>0
    <3> QED
      BY <2>3, <3>1
  <2> QED
    BY <2>4
<1> QED
  BY <1>6, <1>8

\* Flattening a sequence of which only one element is not empty.
LEMMA FlattenOnly ==
  ASSUME NEW D, NEW seqs \in Seq(Seq(D)), NEW j \in 1 .. Len(seqs), \A k \in 1 .. Len(seqs) : k # j => seqs[k] = <<>>
  PROVE  FlattenSeq(seqs) = seqs[j]
<1> DEFINE n == Len(seqs)
<1>0. n \in Nat /\ j \in 1 .. n /\ seqs[j] \in Seq(D) /\ \A k \in 1 .. n : k # j => seqs[k] = <<>>
  OBVIOUS
<1>1. PICK h : Partial(h, seqs, D) /\ FlattenSeq(seqs) = h[n]
  BY Flattened
<1>2. h \in [0 .. n -> Seq(D)] /\ h[0] = <<>> /\ \A k \in 1 .. n : h[k] = h[k - 1] \o seqs[k]
  BY <1>1 DEF Partial
<1> HIDE DEF n
<1> DEFINE S == {k \in 0 .. n : h[k] = IF k < j THEN <<>> ELSE seqs[j]}
<1>3. 0 \in S
  BY <1>0, <1>2
<1>4. ASSUME NEW l \in 0 .. (n - 1), l \in S PROVE l + 1 \in S
  <2>1. l + 1 \in 1 .. n /\ l + 1 \in 0 .. n /\ (l + 1) - 1 = l /\ l \in 0 .. n
    BY <1>0
  <2>2. h[l + 1] = h[l] \o seqs[l + 1] /\ h[l] \in Seq(D)
    BY <1>2, <2>1
  <2>3. CASE l + 1 = j
    <3>0. l < j /\ ~(l + 1 < j)
      BY <1>0, <2>1, <2>3
    <3>1. h[l] = <<>> /\ h[l + 1] = <<>> \o seqs[j] /\ ~(l + 1 < j)
      BY <1>4, <2>2, <2>3, <3>0
    <3>2. <<>> \o seqs[j] = seqs[j]
      BY <1>0
    <3> QED
      BY <2>1, <3>1, <3>2
  <2>4. CASE l + 1 # j
    <3>1. h[l + 1] = h[l] \o <<>>
      BY <1>0, <2>1, <2>2, <2>4
    <3>2. h[l] \o <<>> = h[l]
      BY <2>2
    <3>3. l + 1 < j <=> l < j
      BY <1>0, <2>1, <2>4
    <3> QED
      BY <1>4, <2>1, <3>1, <3>2, <3>3
  <2> QED
    BY <2>3, <2>4
<1>5. 0 .. n \subseteq S
  <2> HIDE DEF S
  <2> QED
    BY <1>0, <1>3, <1>4, UpTo
<1> QED
  BY <1>0, <1>1, <1>5

\* Flattening one sequence.
LEMMA FlattenOne ==
  ASSUME NEW D, NEW s \in Seq(D)
  PROVE  FlattenSeq(<<s>>) = s
<1> DEFINE x == <<s>>
<1>1. x \in Seq(Seq(D)) /\ Len(x) = 1 /\ x[1] = s /\ 1 \in 1 .. Len(x) /\ \A k \in 1 .. Len(x) : k # 1 => x[k] = <<>>
  OBVIOUS
<1> HIDE DEF x
<1>2. FlattenSeq(x) = x[1]
  BY <1>1, FlattenOnly
<1> QED
  BY <1>1, <1>2 DEF x

\* What is kept depends on the elements that are kept alone.
LEMMA KeepSame ==
  ASSUME NEW s, NEW t, NEW K, NEW L, DOMAIN s = DOMAIN t, \A k \in DOMAIN s : k \in K <=> k \in L,
         \A k \in DOMAIN s : k \in K => s[k] = t[k]
  PROVE  Keep(s, K) = Keep(t, L)
<1>1. [k \in DOMAIN s |-> IF k \in K THEN <<s[k]>> ELSE <<>>] = [k \in DOMAIN t |-> IF k \in L THEN <<t[k]>> ELSE <<>>]
  OBVIOUS
<1> QED
  BY <1>1 DEF Keep

\* A text without some of its octets, as parseFlags() takes the words of a list.
Without(s, B) == Keep(s, {k \in DOMAIN s : s[k] \notin B})
Marks(s, B) == [k \in DOMAIN s |-> IF s[k] \notin B THEN <<s[k]>> ELSE <<>>]

\* It is flattened from what is left of each octet.
LEMMA MarksAre ==
  ASSUME NEW s \in Text, NEW B
  PROVE  /\ Without(s, B) = FlattenSeq(Marks(s, B)) /\ Marks(s, B) \in Seq(Seq(Nat)) /\ Len(Marks(s, B)) = Len(s)
         /\ \A k \in 1 .. Len(s) : Marks(s, B)[k] = IF s[k] \notin B THEN <<s[k]>> ELSE <<>>
<1>0. Len(s) \in Nat /\ DOMAIN s = 1 .. Len(s) /\ \A k \in 1 .. Len(s) : s[k] \in Nat
  BY DEF Text
<1>1. [k \in DOMAIN s |-> IF k \in {j \in DOMAIN s : s[j] \notin B} THEN <<s[k]>> ELSE <<>>] = Marks(s, B)
  BY DEF Marks
<1>2. \A k \in 1 .. Len(s) : Marks(s, B)[k] = IF s[k] \notin B THEN <<s[k]>> ELSE <<>>
  BY <1>0 DEF Marks
<1>3. Marks(s, B) \in [1 .. Len(s) -> Seq(Nat)]
  <2>1. \A k \in 1 .. Len(s) : (IF s[k] \notin B THEN <<s[k]>> ELSE <<>>) \in Seq(Nat)
    BY <1>0
  <2> QED
    BY <1>0, <2>1 DEF Marks
<1>4. Marks(s, B) \in Seq(Seq(Nat)) /\ Len(Marks(s, B)) = Len(s)
  BY <1>0, <1>3
<1> QED
  BY <1>1, <1>2, <1>4 DEF Without, Keep

\* What is left of two texts, one after the other.
LEMMA WithoutConcat ==
  ASSUME NEW a \in Text, NEW b \in Text, NEW B
  PROVE  Without(a \o b, B) = Without(a, B) \o Without(b, B)
<1> DEFINE c == a \o b
           x == Marks(a, B)
           y == Marks(b, B)
           z == Marks(c, B)
<1>0. /\ c \in Text /\ Len(c) = Len(a) + Len(b) /\ Len(a) \in Nat /\ Len(b) \in Nat
      /\ \A i \in 1 .. Len(a) : c[i] = a[i]
      /\ \A i \in 1 .. Len(b) : c[Len(a) + i] = b[i]
  BY Concat DEF Text
<1> HIDE DEF c
<1>1. /\ Without(c, B) = FlattenSeq(z) /\ z \in Seq(Seq(Nat)) /\ Len(z) = Len(c)
      /\ \A k \in 1 .. Len(c) : z[k] = IF c[k] \notin B THEN <<c[k]>> ELSE <<>>
  BY <1>0, MarksAre
<1>2. /\ Without(a, B) = FlattenSeq(x) /\ x \in Seq(Seq(Nat)) /\ Len(x) = Len(a)
      /\ \A k \in 1 .. Len(a) : x[k] = IF a[k] \notin B THEN <<a[k]>> ELSE <<>>
  BY MarksAre
<1>3. /\ Without(b, B) = FlattenSeq(y) /\ y \in Seq(Seq(Nat)) /\ Len(y) = Len(b)
      /\ \A k \in 1 .. Len(b) : y[k] = IF b[k] \notin B THEN <<b[k]>> ELSE <<>>
  BY MarksAre
<1> HIDE DEF x, y, z
<1>4. Len(z) = Len(x) + Len(y)
  BY <1>0, <1>1, <1>2, <1>3
<1>5. ASSUME NEW i \in 1 .. Len(x) PROVE z[i] = x[i]
  <2>1. i \in 1 .. Len(c) /\ i \in 1 .. Len(a)
    BY <1>0, <1>2
  <2> QED
    BY <1>0, <1>1, <1>2, <2>1
<1>6. ASSUME NEW i \in 1 .. Len(y) PROVE z[Len(x) + i] = y[i]
  <2>1. Len(a) + i \in 1 .. Len(c) /\ i \in 1 .. Len(b) /\ Len(x) + i = Len(a) + i
    BY <1>0, <1>2, <1>3
  <2> QED
    BY <1>0, <1>1, <1>3, <2>1
<1>7. x \in Seq(Seq(Nat)) /\ y \in Seq(Seq(Nat)) /\ z \in Seq(Seq(Nat))
  BY <1>1, <1>2, <1>3
<1>8. FlattenSeq(z) = FlattenSeq(x) \o FlattenSeq(y)
  BY <1>4, <1>5, <1>6, <1>7, FlattenConcat, ZenonT(30)
<1> QED
  BY <1>1, <1>2, <1>3, <1>8 DEF c

\* What is left of one octet.
LEMMA WithoutOne ==
  ASSUME NEW w \in Nat, NEW B
  PROVE  Without(<<w>>, B) = IF w \notin B THEN <<w>> ELSE <<>>
<1> DEFINE s == <<w>>
           e == IF w \notin B THEN <<w>> ELSE <<>>
           x == Marks(s, B)
<1>0. s \in Text /\ Len(s) = 1 /\ s[1] = w /\ e \in Seq(Nat)
  BY DEF Text
<1>1. Without(s, B) = FlattenSeq(x) /\ x \in Seq(Seq(Nat)) /\ Len(x) = 1 /\ x[1] = e
  <2> HIDE DEF s
  <2>1. /\ Without(s, B) = FlattenSeq(x) /\ x \in Seq(Seq(Nat)) /\ Len(x) = Len(s)
        /\ \A k \in 1 .. Len(s) : x[k] = IF s[k] \notin B THEN <<s[k]>> ELSE <<>>
    BY <1>0, MarksAre
  <2>2. 1 \in 1 .. Len(s)
    BY <1>0
  <2> QED
    BY <1>0, <2>1, <2>2
<1> HIDE DEF x, e
<1>2. FlattenSeq(x) = x[1]
  <2>1. 1 \in 1 .. Len(x) /\ \A k \in 1 .. Len(x) : k # 1 => x[k] = <<>>
    BY <1>1
  <2> QED
    BY <1>1, <2>1, FlattenOnly
<1> QED
  BY <1>1, <1>2 DEF e, s

----------------------------------------------------------------------------
(* A list of flags.                                                        *)

\* The words and the spaces between them, and with the parentheses.
WordsText(words) == FlattenSeq([k \in DOMAIN words |-> IF k = 1 THEN <<words[k]>> ELSE <<SP, words[k]>>])
ListText(words) == (<<LP>> \o WordsText(words)) \o <<RP>>
WordOctets == {SP} \cup FlagWords
Around == {SP, LP, RP}

\* A word, with or without the space before it.
LEMMA OneWord ==
  ASSUME NEW w \in FlagWords
  PROVE  Without(<<w>>, Around) = <<w>> /\ Without(<<SP, w>>, Around) = <<w>>
<1>0. w \in Nat /\ SP \in Nat /\ w \notin Around /\ SP \in Around
  BY DEF FlagWords, Around, SP, LP, RP
<1>1. Without(<<w>>, Around) = <<w>>
  BY <1>0, WithoutOne
<1>2. Without(<<SP>>, Around) = <<>>
  BY <1>0, WithoutOne
<1> DEFINE a == <<SP>>
           b == <<w>>
<1>3. <<SP, w>> = a \o b /\ a \in Text /\ b \in Text
  <2>1. <<SP>> \in Seq(Nat) /\ <<w>> \in Seq(Nat)
    BY <1>0
  <2> QED
    BY <1>0, <2>1 DEF Text
<1> HIDE DEF a, b
<1>4. Without(a \o b, Around) = Without(a, Around) \o Without(b, Around)
  BY <1>3, WithoutConcat
<1>5. <<>> \o <<w>> = <<w>>
  OBVIOUS
<1> QED
  BY <1>1, <1>2, <1>3, <1>4, <1>5 DEF a, b

\* The words are found again, and nothing in between ends the list or the line.
LEMMA WordsTextIs ==
  ASSUME NEW words \in Seq(FlagWords)
  PROVE  /\ WordsText(words) \in Text /\ \A j \in 1 .. Len(WordsText(words)) : WordsText(words)[j] \in WordOctets
         /\ Without(WordsText(words), Around) = words
<1> DEFINE n == Len(words)
           seqs == [k \in DOMAIN words |-> IF k = 1 THEN <<words[k]>> ELSE <<SP, words[k]>>]
           W == WordsText(words)
<1>0. n \in Nat /\ DOMAIN words = 1 .. n /\ \A k \in 1 .. n : words[k] \in FlagWords
  OBVIOUS
<1>1. W = FlattenSeq(seqs)
  BY DEF WordsText
<1>2. \A k \in 1 .. n : seqs[k] = IF k = 1 THEN <<words[k]>> ELSE <<SP, words[k]>>
  BY <1>0
<1>3. seqs \in Seq(Seq(WordOctets)) /\ Len(seqs) = n
  <2>1. \A k \in 1 .. n : (IF k = 1 THEN <<words[k]>> ELSE <<SP, words[k]>>) \in Seq(WordOctets)
    <3>1. ASSUME NEW k \in 1 .. n PROVE <<words[k]>> \in Seq(WordOctets) /\ <<SP, words[k]>> \in Seq(WordOctets)
      <4>1. words[k] \in WordOctets /\ SP \in WordOctets
        BY <1>0 DEF WordOctets
      <4> HIDE DEF n
      <4> QED
        BY <4>1
    <3> QED
      BY <3>1
  <2>2. seqs \in [1 .. n -> Seq(WordOctets)]
    BY <1>0, <2>1
  <2> HIDE DEF seqs
  <2> QED
    BY <1>0, <2>2
<1> HIDE DEF seqs, W, n
<1>4. PICK h : Partial(h, seqs, WordOctets) /\ FlattenSeq(seqs) = h[n]
  BY <1>3, Flattened
<1>5. h \in [0 .. n -> Seq(WordOctets)] /\ h[0] = <<>> /\ \A k \in 1 .. n : h[k] = h[k - 1] \o seqs[k]
  BY <1>3, <1>4 DEF Partial
<1>6. \A s \in Seq(WordOctets) : s \in Text
  <2>1. WordOctets \subseteq Nat
    BY DEF WordOctets, FlagWords, SP
  <2>2. ASSUME NEW s \in Seq(WordOctets) PROVE s \in Seq(Nat)
    <3>1. s \in [1 .. Len(s) -> WordOctets] /\ Len(s) \in Nat
      OBVIOUS
    <3>2. s \in [1 .. Len(s) -> Nat]
      BY <2>1, <3>1
    <3> QED
      BY <3>1, <3>2
  <2> QED
    BY <2>2 DEF Text
<1>7. W \in Seq(WordOctets)
  BY <1>0, <1>1, <1>4, <1>5
<1>8. \A j \in 1 .. Len(W) : W[j] \in WordOctets
  BY <1>7
<1> DEFINE S == {k \in 0 .. n : Without(h[k], Around) = SubSeq(words, 1, k)}
<1>9. 0 \in S
  <2>1. Without(<<>>, Around) = <<>>
    <3>1. <<>> \in Text /\ Len(<<>>) = 0
      BY DEF Text
    <3>2. Without(<<>>, Around) = FlattenSeq(Marks(<<>>, Around)) /\ Marks(<<>>, Around) \in Seq(Seq(Nat)) /\ Len(Marks(<<>>, Around)) = 0
      BY <3>1, MarksAre
    <3>3. Marks(<<>>, Around) = <<>>
      BY <3>2
    <3>4. FlattenSeq(<<>>) = <<>>
      BY DEF FlattenSeq
    <3> QED
      BY <3>2, <3>3, <3>4
  <2>2. SubSeq(words, 1, 0) = <<>>
    OBVIOUS
  <2> QED
    BY <1>0, <1>5, <2>1, <2>2
<1>10. ASSUME NEW l \in 0 .. (n - 1), l \in S PROVE l + 1 \in S
  <2> DEFINE k == l + 1
             a == h[l]
             b == seqs[k]
  <2>1. k \in 1 .. n /\ k \in 0 .. n /\ k - 1 = l /\ l \in 0 .. n /\ k \in Nat
    BY <1>0
  <2>2. h[k] = a \o b
    BY <1>5, <2>1
  <2>3. a \in Text /\ b \in Text
    <3>1. a \in Seq(WordOctets)
      BY <1>5, <2>1
    <3>2. b \in Seq(WordOctets)
      <4> HIDE DEF k
      <4> QED
        BY <1>3, <2>1
    <3> HIDE DEF a, b
    <3> QED
      BY <1>6, <3>1, <3>2
  <2>4. Without(b, Around) = <<words[k]>>
    BY <1>0, <1>2, <2>1, OneWord
  <2>5. Without(a, Around) = SubSeq(words, 1, l)
    BY <1>10
  <2> HIDE DEF a, b, k
  <2>6. Without(a \o b, Around) = Without(a, Around) \o Without(b, Around)
    BY <2>3, WithoutConcat
  <2>7. SubSeq(words, 1, l) \o <<words[k]>> = SubSeq(words, 1, k)
    <3> DEFINE x == SubSeq(words, 1, l)
               y == <<words[k]>>
               z == SubSeq(words, 1, k)
               t == x \o y
    <3>0. words[k] \in FlagWords /\ k = l + 1
      BY <1>0, <2>1 DEF k
    <3>1. x \in Seq(FlagWords) /\ Len(x) = l /\ \A i \in 1 .. l : x[i] = words[i]
      BY <1>0, <2>1 DEF n
    <3>2. z \in Seq(FlagWords) /\ Len(z) = k /\ \A i \in 1 .. k : z[i] = words[i]
      BY <1>0, <2>1 DEF n
    <3>3. y \in Seq(FlagWords) /\ Len(y) = 1 /\ y[1] = words[k]
      BY <3>0
    <3> HIDE DEF x, y, z
    <3>4. /\ t \in Seq(FlagWords) /\ Len(t) = Len(x) + Len(y)
          /\ \A i \in 1 .. Len(x) : t[i] = x[i]
          /\ \A i \in 1 .. Len(y) : t[Len(x) + i] = y[i]
      <4>1. x \in Seq(FlagWords) /\ y \in Seq(FlagWords)
        BY <3>1, <3>3
      <4> QED
        BY <4>1, Concat
    <3> HIDE DEF t
    <3>5. ASSUME NEW i \in 1 .. k PROVE t[i] = z[i]
      <4>1. CASE i \in 1 .. l
        BY <3>1, <3>2, <3>4, <4>1
      <4>2. CASE i = l + 1
        <5>1. 1 \in 1 .. Len(y) /\ i = Len(x) + 1
          BY <3>1, <3>3, <4>2
        <5> QED
          BY <3>0, <3>2, <3>3, <3>4, <4>2, <5>1
      <4> QED
        BY <2>1, <3>0, <4>1, <4>2
    <3>6. Len(t) = Len(z) /\ \A i \in 1 .. Len(t) : t[i] = z[i]
      BY <2>1, <3>0, <3>1, <3>2, <3>3, <3>4, <3>5
    <3>7. t = z
      BY <3>2, <3>4, <3>6, SameSeq
    <3> QED
      BY <3>7 DEF x, y, z, t
  <2>8. Without(h[k], Around) = SubSeq(words, 1, k)
    BY <2>2, <2>4, <2>5, <2>6, <2>7
  <2> QED
    BY <2>1, <2>8 DEF k
<1>11. 0 .. n \subseteq S
  <2> HIDE DEF S
  <2> QED
    BY <1>0, <1>9, <1>10, UpTo
<1>12. Without(W, Around) = SubSeq(words, 1, n)
  <2>1. n \in 0 .. n
    BY <1>0
  <2> QED
    BY <1>1, <1>4, <1>11, <2>1
<1>13. SubSeq(words, 1, n) = words
  BY DEF n
<1> QED
  BY <1>6, <1>7, <1>8, <1>12, <1>13 DEF W

----------------------------------------------------------------------------
(* The items parseFetchResponse() finds in a line.                         *)

MetaTurns(line) == [at \in DOMAIN line |-> MetaTurn(line, at)]
MetaFrom(line, p) == Loop(MetaTurns(line), Len(line), p)
MetaKeys == {<<Keyword.uid>>, <<Keyword.size>>, <<Keyword.date>>}

\* A list of flags is an item, or ends the line.
LEMMA FlagsTurnGoes ==
  ASSUME NEW line \in Text, NEW key \in Text, NEW list \in 1 .. (Len(line) + 1), NEW t,
         t = FlagsTurn(line, key, list, FirstAt(line, list, {RP}))
  PROVE  t.out \in Seq(Item) /\ t.i \in list .. (Len(line) + 1)
<1> DEFINE n == Len(line)
           close == FirstAt(line, list, {RP})
           v == SubSeq(line, list, close)
           val == [ok |-> TRUE, i |-> close + 1, v |-> v]
           item == [key |-> key, val |-> val]
<1>0. n \in Nat /\ list \in Nat \ {0} /\ <<>> \in Seq(Item)
  BY DEF Text
<1>1. t = IF close > n THEN Skip(n + 1) ELSE Yield(<<item>>, close + 1)
  BY DEF FlagsTurn
<1>2. close \in Nat /\ (close \in list .. n \/ close = n + 1)
  BY <1>0, FirstAtRange
<1> HIDE DEF close
<1>3. CASE close > n
  <2>1. t = Skip(n + 1)
    BY <1>1, <1>3
  <2>2. t.out = <<>> /\ t.i = n + 1
    BY <2>1 DEF Skip, Yield
  <2>3. n + 1 \in list .. (n + 1)
    BY <1>0
  <2> QED
    BY <1>0, <2>2, <2>3
<1>4. CASE ~(close > n)
  <2>1. t = Yield(<<item>>, close + 1)
    BY <1>1, <1>4
  <2>2. close \in list .. n
    BY <1>0, <1>2, <1>4
  <2>3. v \in Text
    <3>1. close \in Int /\ close <= Len(line) /\ list <= close + 1 /\ line \in Seq(Nat)
      BY <1>0, <2>2 DEF Text
    <3> QED
      BY <1>0, <3>1, Part DEF Text
  <2> HIDE DEF v
  <2>4. val \in Value
    BY <1>2, <2>3 DEF Value
  <2> HIDE DEF val
  <2>5. item \in Item
    BY <2>4 DEF Item
  <2> HIDE DEF item
  <2>6. <<item>> \in Seq(Item)
    BY <2>5
  <2>7. t.out = <<item>> /\ t.i = close + 1
    <3> DEFINE y == Yield(<<item>>, close + 1)
    <3>1. y.out = <<item>> /\ y.i = close + 1
      BY Zenon DEF Yield
    <3> HIDE DEF y
    <3> QED
      BY <2>1, <3>1 DEF y
  <2>8. close + 1 \in list .. (n + 1)
    BY <1>0, <2>2
  <2> QED
    BY <2>6, <2>7, <2>8
<1> QED
  BY <1>3, <1>4

\* What a turn does, by cases.
MetaCase(t, line, i, key, val, list, n) ==
  t = IF i > n THEN Skip(i)
      ELSE IF line[i] \in {LP, RP} THEN Skip(i + 1)
      ELSE IF ~key.ok THEN Skip(n + 1)
      ELSE IF key.v = <<Keyword.flags>> THEN FlagsTurn(line, key.v, list, FirstAt(line, list, {RP}))
      ELSE IF key.v \in MetaKeys THEN Yield(<<[key |-> key.v, val |-> val]>>, val.i)
      ELSE Skip(key.i)

\* A turn is what its cases say.
LEMMA MetaTurnIs ==
  ASSUME NEW line, NEW at, NEW i, i = skipSpace(line, at), NEW key, key = readAstring(line, i),
         NEW val, val = readAstring(line, key.i), NEW list, list = skipSpace(line, key.i), NEW n, n = Len(line)
  PROVE  MetaCase(MetaTurn(line, at), line, i, key, val, list, n)
  BY Zenon DEF MetaTurn, MetaCase, MetaKeys

\* Every turn of the loop of parseFetchResponse() goes forward and yields items.
LEMMA MetaTurnsGo ==
  ASSUME NEW line \in Text
  PROVE  Turns(MetaTurns(line), Len(line), Item)
<1> DEFINE n == Len(line)
<1>0. n \in Nat /\ DOMAIN line = 1 .. n /\ <<>> \in Seq(Item)
  BY DEF Text
<1> SUFFICES ASSUME NEW at \in 1 .. n
             PROVE  MetaTurn(line, at).out \in Seq(Item) /\ MetaTurn(line, at).i \in (at + 1) .. (n + 2)
  <2>1. \A at \in 1 .. n : MetaTurns(line)[at] = MetaTurn(line, at)
    BY <1>0 DEF MetaTurns
  <2> QED
    BY <2>1 DEF Turns
<1> DEFINE i == skipSpace(line, at)
           key == readAstring(line, i)
           val == readAstring(line, key.i)
           list == skipSpace(line, key.i)
           t == MetaTurn(line, at)
<1>1. MetaCase(t, line, i, key, val, list, n)
  BY MetaTurnIs
<1>2. i \in at .. (n + 1)
  BY <1>0, SkipRange
<1>3. key.ok \in BOOLEAN /\ key.v \in Text /\ key.i \in i .. (n + 1) /\ (key.ok => key.i > i)
  <2>1. i \in 1 .. (n + 1)
    <3> HIDE DEF i
    <3> QED
      BY <1>0, <1>2
  <2> QED
    BY <2>1, ReadRange
<1>4. val \in Value /\ val.i \in key.i .. (n + 1) /\ list \in key.i .. (n + 1)
  <2>1. key.i \in 1 .. (n + 1)
    <3> HIDE DEF i, key
    <3> QED
      BY <1>0, <1>2, <1>3
  <2>2. key.i \in Nat \ {0} /\ key.i <= Len(line) + 1
    <3> HIDE DEF key
    <3> QED
      BY <1>0, <2>1
  <2>3. list \in key.i .. (n + 1)
    BY <2>2, SkipRange
  <2> QED
    BY <2>1, <2>3, ReadRange, ReadIsValue
<1> HIDE DEF i, key, val, t, list
<1>5. \A j : Skip(j).out = <<>> /\ Skip(j).i = j
  BY DEF Skip, Yield
<1>6. CASE i > n
  <2>1. t = Skip(i)
    BY <1>1, <1>6 DEF MetaCase
  <2>2. i \in (at + 1) .. (n + 2)
    BY <1>0, <1>2, <1>6
  <2> QED
    BY <1>0, <1>5, <2>1, <2>2 DEF t
<1>7. CASE ~(i > n) /\ line[i] \in {LP, RP}
  <2>1. t = Skip(i + 1)
    BY <1>1, <1>7 DEF MetaCase
  <2>2. i + 1 \in (at + 1) .. (n + 2)
    BY <1>0, <1>2, <1>7
  <2> QED
    BY <1>0, <1>5, <2>1, <2>2 DEF t
<1>8. CASE ~(i > n) /\ line[i] \notin {LP, RP} /\ ~key.ok
  <2>1. t = Skip(n + 1)
    BY <1>1, <1>8 DEF MetaCase
  <2>2. n + 1 \in (at + 1) .. (n + 2)
    BY <1>0
  <2> QED
    BY <1>0, <1>5, <2>1, <2>2 DEF t
<1>9. CASE ~(i > n) /\ line[i] \notin {LP, RP} /\ key.ok /\ key.v = <<Keyword.flags>>
  <2>1. t = FlagsTurn(line, key.v, list, FirstAt(line, list, {RP}))
    BY <1>1, <1>9 DEF MetaCase
  <2>2. list \in 1 .. (n + 1) /\ list > at
    BY <1>0, <1>2, <1>3, <1>4, <1>9
  <2>3. t.out \in Seq(Item) /\ t.i \in list .. (n + 1)
    BY <1>3, <2>1, <2>2, FlagsTurnGoes
  <2>4. t.i \in (at + 1) .. (n + 2)
    BY <1>0, <2>2, <2>3
  <2> QED
    BY <2>3, <2>4 DEF t
<1>10. CASE ~(i > n) /\ line[i] \notin {LP, RP} /\ key.ok /\ key.v # <<Keyword.flags>> /\ key.v \in MetaKeys
  <2>1. t = Yield(<<[key |-> key.v, val |-> val]>>, val.i)
    BY <1>1, <1>10 DEF MetaCase
  <2>2. val.i \in (at + 1) .. (n + 2)
    BY <1>0, <1>2, <1>3, <1>4, <1>10
  <2>3. [key |-> key.v, val |-> val] \in Item
    BY <1>3, <1>4 DEF Item
  <2>4. <<[key |-> key.v, val |-> val]>> \in Seq(Item)
    BY <2>3
  <2> QED
    BY <2>1, <2>2, <2>4 DEF t, Yield
<1>11. CASE ~(i > n) /\ line[i] \notin {LP, RP} /\ key.ok /\ key.v # <<Keyword.flags>> /\ key.v \notin MetaKeys
  <2>1. t = Skip(key.i)
    BY <1>1, <1>11 DEF MetaCase
  <2>2. key.i \in (at + 1) .. (n + 2)
    BY <1>0, <1>2, <1>3, <1>11
  <2> QED
    BY <1>0, <1>5, <2>1, <2>2 DEF t
<1> QED
  BY <1>6, <1>7, <1>8, <1>9, <1>10, <1>11

\* The loop, turn by turn.
LEMMA MetaStep ==
  ASSUME NEW line \in Text
  PROVE  /\ \A p \in 1 .. Len(line) : MetaFrom(line, p) = MetaTurn(line, p).out \o MetaFrom(line, MetaTurn(line, p).i)
         /\ \A p \in 1 .. (Len(line) + 2) : MetaFrom(line, p) \in Seq(Item)
         /\ MetaFrom(line, Len(line) + 1) = <<>>
<1> DEFINE n == Len(line)
           turn == MetaTurns(line)
           L(p) == Loop(turn, n, p)
<1>0. n \in Nat /\ DOMAIN line = 1 .. n /\ Turns(turn, n, Item)
  BY MetaTurnsGo DEF Text
<1>1. \A p \in 1 .. n : turn[p] = MetaTurn(line, p)
  BY <1>0 DEF MetaTurns
<1> HIDE DEF turn
<1>2. /\ \A p \in 1 .. n : L(p) = turn[p].out \o L(turn[p].i)
      /\ \A p \in (n + 1) .. (n + 2) : L(p) = <<>>
  BY <1>0, LoopTurn
<1>3. \A p : MetaFrom(line, p) = L(p)
  BY DEF MetaFrom, turn
<1> HIDE DEF L
<1>4. \A p \in 1 .. (n + 2) : L(p) \in Seq(Item)
  BY <1>0, <1>2, LoopTyped DEF L
<1> HIDE DEF n
<1>5. n + 1 \in (n + 1) .. (n + 2)
  BY <1>0
<1> QED
  BY <1>1, <1>2, <1>3, <1>4, <1>5 DEF n

\* The list of flags begins and ends in a parenthesis and has none in between.
LEMMA ListTextIs ==
  ASSUME NEW words \in Seq(FlagWords), NEW T, T = ListText(words)
  PROVE  /\ T \in Text /\ Len(T) >= 2 /\ T[1] = LP /\ T[Len(T)] = RP
         /\ \A j \in 1 .. (Len(T) - 1) : T[j] # RP
         /\ \A j \in 1 .. Len(T) : T[j] # LF
         /\ Without(T, Around) = words
<1> DEFINE W == WordsText(words)
           a == <<LP>>
           b == <<RP>>
           X == a \o W
<1>0. LP \in Nat /\ RP \in Nat /\ LP # RP /\ LP # LF /\ RP # LF /\ LP \in Around /\ RP \in Around
      /\ \A w \in WordOctets : w # RP /\ w # LF
  BY DEF LP, RP, LF, Around, WordOctets, FlagWords, SP
<1>1. W \in Text /\ (\A j \in 1 .. Len(W) : W[j] \in WordOctets) /\ Without(W, Around) = words
  BY WordsTextIs
<1>2. a \in Text /\ b \in Text /\ Len(a) = 1 /\ Len(b) = 1 /\ a[1] = LP /\ b[1] = RP
  BY <1>0 DEF Text
<1>3. Without(a, Around) = <<>> /\ Without(b, Around) = <<>>
  BY <1>0, WithoutOne
<1>4. T = X \o b
  BY DEF ListText
<1> HIDE DEF W, a, b
<1>5. Without(X, Around) = <<>> \o words
  <2>1. Without(a \o W, Around) = Without(a, Around) \o Without(W, Around)
    BY <1>1, <1>2, WithoutConcat, ZenonT(30)
  <2> QED
    BY <1>1, <1>3, <2>1
<1>6. /\ X \in Text /\ Len(X) = 1 + Len(W) /\ Len(W) \in Nat
      /\ \A i \in 1 .. 1 : X[i] = a[i]
      /\ \A i \in 1 .. Len(W) : X[1 + i] = W[i]
  <2>1. a \in Seq(Nat) /\ W \in Seq(Nat)
    BY <1>1, <1>2 DEF Text
  <2>2. /\ X \in Seq(Nat) /\ Len(X) = Len(a) + Len(W)
        /\ \A i \in 1 .. Len(a) : X[i] = a[i]
        /\ \A i \in 1 .. Len(W) : X[Len(a) + i] = W[i]
    BY <2>1, Concat
  <2>3. Len(a) = 1 /\ Len(W) \in Nat
    BY <1>2, <2>1
  <2> QED
    BY <2>2, <2>3 DEF Text
<1> HIDE DEF X
<1>7. Without(T, Around) = words
  <2>1. Without(X \o b, Around) = Without(X, Around) \o Without(b, Around)
    BY <1>2, <1>6, WithoutConcat
  <2>2. (<<>> \o words) \o <<>> = words
    OBVIOUS
  <2> QED
    BY <1>3, <1>4, <1>5, <2>1, <2>2
<1>8. /\ T \in Text /\ Len(T) = Len(X) + 1 /\ (\A i \in 1 .. Len(X) : T[i] = X[i]) /\ T[Len(X) + 1] = RP
  <2>1. X \in Seq(Nat) /\ b \in Seq(Nat)
    BY <1>2, <1>6 DEF Text
  <2>2. /\ X \o b \in Seq(Nat) /\ Len(X \o b) = Len(X) + Len(b)
        /\ \A i \in 1 .. Len(X) : (X \o b)[i] = X[i]
        /\ \A i \in 1 .. Len(b) : (X \o b)[Len(X) + i] = b[i]
    BY <2>1, Concat
  <2>3. 1 \in 1 .. Len(b)
    BY <1>2
  <2> QED
    BY <1>2, <1>4, <2>2, <2>3 DEF Text
<1>9. ASSUME NEW j \in 1 .. (Len(T) - 1) PROVE T[j] # RP /\ T[j] # LF
  <2>0. j \in 1 .. Len(X) /\ T[j] = X[j]
    BY <1>6, <1>8
  <2>1. CASE j = 1
    <3>1. X[1] = LP
      BY <1>2, <1>6
    <3> QED
      BY <1>0, <2>0, <2>1, <3>1
  <2>2. CASE j # 1
    <3>1. j - 1 \in 1 .. Len(W) /\ 1 + (j - 1) = j
      BY <1>6, <2>0, <2>2
    <3>2. X[j] \in WordOctets
      BY <1>1, <1>6, <3>1
    <3> QED
      BY <1>0, <2>0, <3>2
  <2> QED
    BY <2>1, <2>2
<1>10. Len(T) >= 2 /\ T[Len(T)] = RP /\ Len(T) \in Nat
  BY <1>6, <1>8
<1>11. T[1] = LP
  <2>1. 1 \in 1 .. Len(X)
    BY <1>6
  <2> QED
    BY <1>2, <1>6, <1>8, <2>1
<1>12. ASSUME NEW j \in 1 .. Len(T) PROVE T[j] # LF
  <2>1. CASE j = Len(T)
    BY <1>0, <1>10, <2>1
  <2>2. CASE j # Len(T)
    <3>1. j \in 1 .. (Len(T) - 1)
      BY <1>10, <2>2
    <3> QED
      BY <1>9, <3>1
  <2> QED
    BY <2>1, <2>2
<1> QED
  BY <1>7, <1>8, <1>9, <1>10, <1>11, <1>12

\* The item is its key, a space and the list.
LEMMA FlagsItemForm ==
  ASSUME NEW words \in Seq(FlagWords)
  PROVE  FlagsItem(words) = <<Keyword.flags, SP>> \o ListText(words)
<1> DEFINE W == WordsText(words)
           a == <<Keyword.flags, SP>>
           b == <<LP>>
           c == <<RP>>
           X == b \o W
<1>0. Keyword.flags \in Nat /\ SP \in Nat /\ LP \in Nat /\ RP \in Nat
  BY DEF Keyword, SP, LP, RP
<1>1. W \in Seq(Nat)
  BY WordsTextIs DEF Text
<1>2. a \in Seq(Nat) /\ b \in Seq(Nat) /\ c \in Seq(Nat) /\ <<Keyword.flags, SP, LP>> = a \o b
  BY <1>0
<1>3. FlagsItem(words) = (<<Keyword.flags, SP, LP>> \o W) \o c
  BY Zenon DEF FlagsItem, WordsText
<1>4. ListText(words) = X \o c
  BY Zenon DEF ListText
<1> HIDE DEF W, a, b, c
<1>5. Assoc(a, b, W)
  BY <1>1, <1>2, ConcatAssoc
<1>6. X \in Seq(Nat)
  BY <1>1, <1>2, Concat
<1>7. (a \o b) \o W = a \o X
  BY <1>5 DEF Assoc
<1> HIDE DEF X
<1>8. Assoc(a, X, c)
  BY <1>2, <1>6, ConcatAssoc
<1>9. (a \o X) \o c = a \o (X \o c)
  BY <1>8 DEF Assoc
<1> QED
  BY <1>2, <1>3, <1>4, <1>7, <1>9 DEF a

\* What parseFlags() has to make of the list.
Sorted(words) ==
  [flags |-> Range(words) \cap SystemFlags,
   keywords |-> Keep(words, {k \in DOMAIN words : words[k] \notin SystemFlags})]

\* parseFlags() sorts the words of the list.
LEMMA ParsedFlags ==
  ASSUME NEW words \in Seq(FlagWords)
  PROVE  parseFlags(ListText(words)) = Sorted(words)
<1> DEFINE T == ListText(words)
           w == Keep(T, {k \in DOMAIN T : T[k] \notin {SP, LP, RP}})
<1>1. w = words
  BY ListTextIs DEF Without, Around
<1>2. parseFlags(T) = [flags |-> Range(w) \cap SystemFlags, keywords |-> Keep(w, {k \in DOMAIN w : w[k] \notin SystemFlags})]
  BY Zenon DEF parseFlags
<1> HIDE DEF T, w
<1> QED
  BY <1>1, <1>2 DEF T, Sorted

----------------------------------------------------------------------------
(* One item of a listing.                                                  *)

MetaFinds(line, at, e, q) == MetaFrom(line, at) = <<e>> \o MetaFrom(line, q)
MetaPasses(line, at, q) == MetaFrom(line, at) = MetaFrom(line, q)

\* A turn that comes to p.
LEMMA MetaItemTurn ==
  ASSUME NEW line \in Text, NEW p \in 1 .. Len(line), line[p] # SP, NEW at, Reaches(line, at, p),
         NEW key, key = readAstring(line, p)
  PROVE  /\ line[p] \in {LP, RP} => MetaPasses(line, at, p + 1)
         /\ line[p] \notin {LP, RP} /\ key.ok /\ key.v \in MetaKeys /\ key.v # <<Keyword.flags>> =>
              MetaFinds(line, at, [key |-> key.v, val |-> readAstring(line, key.i)], readAstring(line, key.i).i)
         /\ line[p] \notin {LP, RP} /\ key.ok /\ key.v \notin MetaKeys /\ key.v # <<Keyword.flags>> =>
              MetaPasses(line, at, key.i)
         /\ line[p] \notin {LP, RP} /\ key.ok /\ key.v = <<Keyword.flags>> =>
              \A list, close, e : /\ list = skipSpace(line, key.i) /\ close = FirstAt(line, list, {RP}) /\ ~(close > Len(line))
                                  /\ e = [key |-> key.v, val |-> [ok |-> TRUE, i |-> close + 1, v |-> SubSeq(line, list, close)]]
                                  => MetaFinds(line, at, e, close + 1)
<1> DEFINE n == Len(line)
           i == skipSpace(line, at)
           k == readAstring(line, i)
           v == readAstring(line, k.i)
           l == skipSpace(line, k.i)
           t == MetaTurn(line, at)
<1>0. n \in Nat /\ ~(p > n) /\ p + 1 \in 1 .. (n + 2)
  BY DEF Text
<1>1. at \in 1 .. n /\ i = p
  BY ReachesItem
<1>2. MetaCase(t, line, i, k, v, l, n)
  BY MetaTurnIs
<1>3. k = key /\ v = readAstring(line, key.i) /\ l = skipSpace(line, key.i)
  BY <1>1
<1>4. MetaFrom(line, at) = t.out \o MetaFrom(line, t.i)
  BY <1>1, MetaStep
<1>5. t.i \in 1 .. (n + 2)
  <2>1. Turns(MetaTurns(line), n, Item) /\ DOMAIN line = 1 .. n
    BY MetaTurnsGo DEF Text
  <2>2. MetaTurns(line)[at] = t
    BY <1>1, <2>1 DEF MetaTurns
  <2>3. t.i \in (at + 1) .. (n + 2)
    BY <1>1, <2>1, <2>2 DEF Turns
  <2> HIDE DEF t
  <2> QED
    BY <1>0, <1>1, <2>3
<1>6. \A j \in 1 .. (n + 2) : MetaFrom(line, j) \in Seq(Item)
  BY MetaStep
<1> HIDE DEF i, k, v, l, t
<1>7. ASSUME NEW j, t = Skip(j) PROVE MetaPasses(line, at, j)
  <2>1. t.out = <<>> /\ t.i = j
    BY <1>7 DEF Skip, Yield
  <2>2. MetaFrom(line, j) \in Seq(Item)
    BY <1>5, <1>6, <2>1
  <2>3. <<>> \o MetaFrom(line, j) = MetaFrom(line, j)
    BY <2>2
  <2> QED
    BY <1>4, <2>1, <2>3 DEF MetaPasses
<1>8. ASSUME NEW e, NEW j, t = Yield(<<e>>, j) PROVE MetaFinds(line, at, e, j)
  <2>1. t.out = <<e>> /\ t.i = j
    BY <1>8 DEF Yield
  <2> QED
    BY <1>4, <2>1 DEF MetaFinds
<1>9. ASSUME line[p] \in {LP, RP} PROVE MetaPasses(line, at, p + 1)
  <2>1. t = Skip(p + 1)
    BY <1>0, <1>1, <1>2, <1>9 DEF MetaCase
  <2> QED
    BY <1>7, <2>1
<1>10. ASSUME line[p] \notin {LP, RP}, key.ok, key.v \in MetaKeys, key.v # <<Keyword.flags>>
       PROVE  MetaFinds(line, at, [key |-> key.v, val |-> readAstring(line, key.i)], readAstring(line, key.i).i)
  <2>1. t = Yield(<<[key |-> key.v, val |-> readAstring(line, key.i)]>>, readAstring(line, key.i).i)
    BY <1>0, <1>1, <1>2, <1>3, <1>10 DEF MetaCase
  <2> QED
    BY <1>8, <2>1
<1>11. ASSUME line[p] \notin {LP, RP}, key.ok, key.v \notin MetaKeys, key.v # <<Keyword.flags>>
       PROVE  MetaPasses(line, at, key.i)
  <2>1. t = Skip(key.i)
    BY <1>0, <1>1, <1>2, <1>3, <1>11 DEF MetaCase
  <2> QED
    BY <1>7, <2>1
<1>12. ASSUME line[p] \notin {LP, RP}, key.ok, key.v = <<Keyword.flags>>,
              NEW list, NEW close, NEW e, list = skipSpace(line, key.i), close = FirstAt(line, list, {RP}), ~(close > Len(line)),
              e = [key |-> key.v, val |-> [ok |-> TRUE, i |-> close + 1, v |-> SubSeq(line, list, close)]]
       PROVE  MetaFinds(line, at, e, close + 1)
  <2>1. t = FlagsTurn(line, key.v, list, close)
    BY <1>0, <1>1, <1>2, <1>3, <1>12 DEF MetaCase
  <2>2. t = Yield(<<e>>, close + 1)
    BY <1>12, <2>1 DEF FlagsTurn
  <2> QED
    BY <1>8, <2>2
<1> QED
  BY <1>9, <1>10, <1>11, <1>12

\* A parenthesis is passed over.
LEMMA MetaParen ==
  ASSUME NEW line \in Text, NEW p \in 1 .. Len(line), line[p] \in {LP, RP}, NEW at, Reaches(line, at, p)
  PROVE  MetaPasses(line, at, p + 1)
<1>1. line[p] # SP
  BY DEF LP, RP, SP
<1> QED
  BY <1>1, MetaItemTurn

\* So is a word that is no key.
LEMMA MetaOther ==
  ASSUME NEW line \in Text, NEW p \in Nat \ {0}, p + 1 <= Len(line), Plain(line[p]), line[p + 1] \in Stops,
         <<line[p]>> \notin MetaKeys, <<line[p]>> # <<Keyword.flags>>, NEW at, Reaches(line, at, p)
  PROVE  MetaPasses(line, at, p + 1)
<1> DEFINE key == readAstring(line, p)
<1>0. Len(line) \in Nat /\ p \in 1 .. Len(line) /\ line[p] # SP /\ line[p] \notin {LP, RP}
  BY DEF Text, Plain, Stops
<1>1. key = [ok |-> TRUE, i |-> p + 1, v |-> <<line[p]>>]
  BY <1>0, ReadWord
<1> HIDE DEF key
<1>2. key.ok /\ key.v \notin MetaKeys /\ key.v # <<Keyword.flags>> /\ key.i = p + 1
  BY <1>1
<1>3. MetaPasses(line, at, key.i)
  BY <1>0, <1>2, MetaItemTurn DEF key
<1> QED
  BY <1>2, <1>3

\* A key and a word.
LEMMA MetaWordAt ==
  ASSUME NEW line \in Text, NEW p \in Nat \ {0}, NEW k \in Nat, NEW w \in Nat, Plain(k), Plain(w), <<k>> \in MetaKeys,
         <<k>> # <<Keyword.flags>>,
         At(line, p, <<k, SP, w>>), NEW q, q = p + 3
  PROVE  q <= Len(line) /\ line[q] \in Stops => \A at : Reaches(line, at, p) => MetaFinds(line, at, Entry(k, q, <<w>>), q)
<1>1. p + 2 <= Len(line) /\ line[p] = k /\ line[p + 1] = SP /\ line[p + 2] = w
  BY At3 DEF SP
<1> SUFFICES ASSUME q <= Len(line), line[q] \in Stops, NEW at, Reaches(line, at, p)
             PROVE  MetaFinds(line, at, Entry(k, q, <<w>>), q)
  OBVIOUS
<1> DEFINE key == readAstring(line, p)
           val == readAstring(line, p + 1)
<1>p. line[p] # SP /\ line[p] \notin {LP, RP} /\ SP \in Stops
  BY <1>1 DEF Stops, Plain
<1>n. Len(line) \in Nat
  BY DEF Text
<1>0. Len(line) \in Nat /\ p + 1 <= Len(line) /\ p + 2 \in Nat \ {0} /\ (p + 2) + 1 = q /\ (p + 2) - 1 = p + 1
      /\ p \in 1 .. Len(line) /\ SP \in Stops /\ p + 2 > 1 /\ line[p] # SP /\ line[p] \notin {LP, RP} /\ q <= Len(line)
  BY <1>1, <1>p, <1>n
<1>2. key = [ok |-> TRUE, i |-> p + 1, v |-> <<k>>]
  BY <1>0, <1>1, ReadWord
<1>3. val = [ok |-> TRUE, i |-> q, v |-> <<w>>]
  <2>1. p + 2 > 1 /\ line[(p + 2) - 1] = SP => readAstring(line, (p + 2) - 1) = [ok |-> TRUE, i |-> (p + 2) + 1, v |-> <<line[p + 2]>>]
    BY <1>0, <1>1, ReadWord
  <2> QED
    BY <1>0, <1>1, <2>1
<1> HIDE DEF key, val
<1>4. key.ok /\ key.v = <<k>> /\ key.i = p + 1 /\ val.i = q
  BY <1>2, <1>3
<1>5. MetaFinds(line, at, [key |-> key.v, val |-> readAstring(line, key.i)], readAstring(line, key.i).i)
  BY <1>0, <1>4, MetaItemTurn DEF key
<1>6. MetaFinds(line, at, [key |-> <<k>>, val |-> val], q)
  BY <1>4, <1>5 DEF val
<1> QED
  BY <1>3, <1>6 DEF Entry

\* A quoted string of one character.
LEMMA ReadQuotedOne ==
  ASSUME NEW s \in Text, NEW i \in Nat \ {0}, i + 1 <= Len(s), s[i] \notin {QT, BS}, s[i + 1] = QT
  PROVE  ReadQuoted(s, i) = [ok |-> TRUE, i |-> i + 2, v |-> <<s[i]>>]
<1> DEFINE n == Len(s)
           turn == QuotedTurns(s)
           L(k) == Loop(turn, n, k)
           kept == L(i)
           end == IF kept = <<>> THEN i ELSE Last(kept) + 1
<1>0. n \in Nat /\ DOMAIN s = 1 .. n /\ i \in 1 .. n /\ i + 1 \in 1 .. n /\ n + 1 \in (n + 1) .. (n + 2)
  BY DEF Text
<1>2. turn[i] = QuotedTurn(s, i) /\ turn[i + 1] = QuotedTurn(s, i + 1)
  BY <1>0 DEF QuotedTurns
<1>3. turn[i].out = <<i>> /\ turn[i].i = i + 1
  <2>1. QuotedTurn(s, i) = Yield(<<i>>, i + 1)
    BY DEF QuotedTurn
  <2> QED
    BY <1>2, <2>1 DEF Yield
<1>4. turn[i + 1].out = <<>> /\ turn[i + 1].i = n + 1
  <2>1. QuotedTurn(s, i + 1) = Skip(n + 1)
    BY DEF QuotedTurn
  <2> QED
    BY <1>2, <2>1 DEF Skip, Yield
<1>5. ReadQuoted(s, i) = [ok |-> TRUE, i |-> IF end <= n THEN end + 1 ELSE end, v |-> [k \in DOMAIN kept |-> s[kept[k]]]]
  BY Zenon DEF ReadQuoted, QuotedTurns
<1> HIDE DEF turn
<1>6. /\ \A j \in 1 .. n : L(j) = turn[j].out \o L(turn[j].i)
      /\ \A j \in (n + 1) .. (n + 2) : L(j) = <<>>
  BY QuotedStep DEF turn
<1> HIDE DEF L, n
<1>7. L(i) = <<i>> \o (<<>> \o <<>>)
  <2>1. L(i) = turn[i].out \o L(turn[i].i)
    BY <1>0, <1>6
  <2>2. L(i + 1) = turn[i + 1].out \o L(turn[i + 1].i)
    BY <1>0, <1>6
  <2>3. L(n + 1) = <<>>
    BY <1>0, <1>6
  <2> QED
    BY <1>3, <1>4, <2>1, <2>2, <2>3
<1>8. kept = <<i>>
  BY <1>7
<1> HIDE DEF kept
<1>9. kept # <<>> /\ Last(kept) = i /\ [k \in DOMAIN kept |-> s[kept[k]]] = <<s[i]>>
  <2>1. <<i>> # <<>> /\ Last(<<i>>) = i
    BY DEF Last
  <2>2. [k \in DOMAIN <<i>> |-> s[<<i>>[k]]] = <<s[i]>>
    <3> DEFINE f == [k \in DOMAIN <<i>> |-> s[<<i>>[k]]]
    <3>1. DOMAIN <<i>> = 1 .. 1 /\ <<i>>[1] = i /\ s[i] \in Nat
      BY <1>0 DEF Text
    <3>2. f \in Seq(Nat) /\ Len(f) = 1 /\ f[1] = s[i]
      <4>1. f \in [1 .. 1 -> Nat] /\ f[1] = s[i]
        BY <3>1
      <4> QED
        BY <4>1
    <3> HIDE DEF f
    <3>3. f = <<s[i]>>
      BY <3>1, <3>2
    <3> QED
      BY <3>3 DEF f
  <2> QED
    BY <1>8, <2>1, <2>2
<1>10. end = i + 1
  BY <1>9
<1> HIDE DEF end
<1>11. (IF end <= n THEN end + 1 ELSE end) = i + 2
  BY <1>0, <1>10
<1> QED
  BY <1>5, <1>9, <1>11

DateItem(w) == <<Keyword.date, SP, QT, w, QT>>

\* The date of a message.
LEMMA MetaDateAt ==
  ASSUME NEW line \in Text, NEW p \in Nat \ {0}, NEW w \in Nat, w \notin {QT, BS, LF}, At(line, p, DateItem(w)), NEW q, q = p + 5
  PROVE  /\ NoLf(line, p, p + 4)
         /\ \A at : Reaches(line, at, p) => MetaFinds(line, at, Entry(Keyword.date, q, <<w>>), q)
<1>1. p + 4 <= Len(line) /\ line[p] = Keyword.date /\ line[p + 1] = SP /\ line[p + 2] = QT /\ line[p + 3] = w /\ line[p + 4] = QT
  <2> DEFINE x == DateItem(w)
  <2>1. Len(x) = 5 /\ x[1] = Keyword.date /\ x[2] = SP /\ x[3] = QT /\ x[4] = w /\ x[5] = QT
    BY DEF DateItem
  <2> HIDE DEF x
  <2>2. p + 5 <= Len(line) + 1 /\ \A j \in 1 .. 5 : line[p + j - 1] = x[j]
    BY <2>1 DEF At, x
  <2>3. p + 1 - 1 = p /\ p + 2 - 1 = p + 1 /\ p + 3 - 1 = p + 2 /\ p + 4 - 1 = p + 3 /\ p + 5 - 1 = p + 4
    OBVIOUS
  <2>4. Len(line) \in Nat
    BY DEF Text
  <2>5. p + 4 <= Len(line)
    BY <2>2, <2>4
  <2>6. line[p + 1 - 1] = x[1] /\ line[p + 2 - 1] = x[2] /\ line[p + 3 - 1] = x[3] /\ line[p + 4 - 1] = x[4] /\ line[p + 5 - 1] = x[5]
    BY <2>2
  <2> QED
    BY <2>1, <2>3, <2>5, <2>6
<1>2. Plain(Keyword.date) /\ SP \in Stops /\ Keyword.date # LF /\ SP # LF /\ QT # LF /\ QT # SP /\ QT # LB
      /\ Keyword.date # SP /\ Keyword.date \notin {LP, RP} /\ <<Keyword.date>> \in MetaKeys /\ <<Keyword.date>> # <<Keyword.flags>>
  BY DEF Plain, Stops, Keyword, SP, CR, LF, LP, RP, QT, LB, MetaKeys
<1>3. NoLf(line, p, p + 4)
  <2> SUFFICES ASSUME NEW k \in p .. (p + 4) PROVE line[k] # LF
    BY DEF NoLf
  <2>1. k = p \/ k = p + 1 \/ k = p + 2 \/ k = p + 3 \/ k = p + 4
    OBVIOUS
  <2> QED
    BY <1>1, <1>2, <2>1
<1>0. Len(line) \in Nat /\ p \in 1 .. Len(line) /\ p + 1 <= Len(line) /\ p + 1 \in Nat \ {0} /\ (p + 1) + 1 = p + 2
      /\ (p + 1) + 1 <= Len(line) /\ (p + 2) + 1 = p + 3 /\ p + 3 \in Nat \ {0} /\ (p + 3) + 1 = p + 4 /\ (p + 3) + 2 = q
      /\ p + 2 <= Len(line) /\ p + 2 \in Nat /\ (p + 3) + 1 <= Len(line)
  <2>1. Len(line) \in Nat
    BY DEF Text
  <2> QED
    BY <1>1, <2>1
<1> DEFINE key == readAstring(line, p)
           val == readAstring(line, p + 1)
<1>4. key = [ok |-> TRUE, i |-> p + 1, v |-> <<Keyword.date>>]
  BY <1>0, <1>1, <1>2, ReadWord
<1>5. val = [ok |-> TRUE, i |-> q, v |-> <<w>>]
  <2>1. skipSpace(line, p + 1) = p + 2
    BY <1>0, <1>1, <1>2, OneSpace
  <2>2. val = ReadAt(line, p + 2)
    BY <2>1 DEF readAstring
  <2>3. ReadAt(line, p + 2) = ReadQuoted(line, p + 3)
    <3>1. ~(p + 2 > Len(line))
      BY <1>0
    <3> QED
      BY <1>0, <1>1, <3>1 DEF ReadAt
  <2>4. ReadQuoted(line, p + 3) = [ok |-> TRUE, i |-> (p + 3) + 2, v |-> <<line[p + 3]>>]
    BY <1>0, <1>1, ReadQuotedOne
  <2> QED
    BY <1>0, <1>1, <2>2, <2>3, <2>4
<1> HIDE DEF key, val
<1>6. key.ok /\ key.v = <<Keyword.date>> /\ key.i = p + 1 /\ val.i = q
  BY <1>4, <1>5
<1>7. ASSUME NEW at, Reaches(line, at, p) PROVE MetaFinds(line, at, Entry(Keyword.date, q, <<w>>), q)
  <2>1. MetaFinds(line, at, [key |-> key.v, val |-> readAstring(line, key.i)], readAstring(line, key.i).i)
    BY <1>0, <1>1, <1>2, <1>6, <1>7, MetaItemTurn DEF key
  <2>2. MetaFinds(line, at, [key |-> <<Keyword.date>>, val |-> val], q)
    BY <1>6, <2>1 DEF val
  <2> QED
    BY <1>5, <2>2 DEF Entry
<1> QED
  BY <1>3, <1>7

\* The flags of a message.
LEMMA MetaFlagsAt ==
  ASSUME NEW line \in Text, NEW p \in Nat \ {0}, NEW words \in Seq(FlagWords), At(line, p, FlagsItem(words)),
         NEW q, q = p + Len(FlagsItem(words))
  PROVE  /\ NoLf(line, p, q - 1) /\ q \in Nat
         /\ \A at : Reaches(line, at, p) => MetaFinds(line, at, Entry(Keyword.flags, q, ListText(words)), q)
<1> DEFINE T == ListText(words)
           a == <<Keyword.flags, SP>>
           list == p + 2
           close == q - 1
<1>a. Keyword.flags \in Nat /\ SP \in Nat /\ Plain(Keyword.flags) /\ SP \in Stops /\ Keyword.flags # LF /\ SP # LF /\ LP # SP
      /\ Keyword.flags # SP /\ Keyword.flags \notin {LP, RP}
  BY DEF Keyword, Plain, Stops, SP, CR, LF, LP, RP, QT, LB
<1>t. /\ T \in Text /\ Len(T) >= 2 /\ T[1] = LP /\ T[Len(T)] = RP
      /\ \A j \in 1 .. (Len(T) - 1) : T[j] # RP
      /\ \A j \in 1 .. Len(T) : T[j] # LF
  BY ListTextIs
<1>1. FlagsItem(words) = a \o T
  BY FlagsItemForm
<1>b. a \in Text /\ Len(a) = 2
  BY <1>a DEF Text
<1> HIDE DEF T
<1>2. Len(T) \in Nat /\ Len(line) \in Nat /\ Len(a \o T) = 2 + Len(T)
  <2>1. a \o T \in Text /\ Len(a \o T) = Len(a) + Len(T)
    BY <1>b, <1>t, TextConcat
  <2> QED
    BY <1>b, <1>t, <2>1 DEF Text
<1>3. At(line, p, a) /\ At(line, list, T) /\ list \in Nat \ {0}
  <2>1. list = p + Len(a)
    BY <1>b
  <2>2. At(line, p, a \o T)
    BY <1>1
  <2> HIDE DEF list, a
  <2> QED
    BY <1>b, <1>t, <2>1, <2>2, AtBoth
<1>4. p + 1 <= Len(line) /\ line[p] = Keyword.flags /\ line[p + 1] = SP
  BY <1>3, <1>a, At2
<1> HIDE DEF a
<1>5. q = list + Len(T) /\ q \in Nat /\ close \in Nat
  BY <1>1, <1>2
<1>6. list + Len(T) <= Len(line) + 1 /\ \A j \in 1 .. Len(T) : line[list + j - 1] = T[j]
  BY <1>3 DEF At
<1>7. SubSeq(line, list, close) = T
  <2>1. SubSeq(line, list, list + Len(T) - 1) = T
    BY <1>3, <1>t, AtPart
  <2> QED
    BY <1>5, <2>1
<1>8. /\ close \in list .. Len(line) /\ list <= Len(line) /\ line[close] = RP /\ line[list] = LP
      /\ \A j \in list .. (close - 1) : line[j] # RP
  <2>1. close \in list .. Len(line) /\ list <= Len(line)
    BY <1>2, <1>3, <1>5, <1>6, <1>t
  <2>2. line[list + Len(T) - 1] = RP /\ line[list + 1 - 1] = LP
    <3>1. Len(T) \in 1 .. Len(T) /\ 1 \in 1 .. Len(T)
      BY <1>2, <1>t
    <3> QED
      BY <1>6, <1>t, <3>1
  <2>3. list + Len(T) - 1 = close /\ list + 1 - 1 = list
    BY <1>3, <1>5
  <2>4. ASSUME NEW j \in list .. (close - 1) PROVE line[j] # RP
    <3>1. j - list + 1 \in 1 .. (Len(T) - 1) /\ j - list + 1 \in 1 .. Len(T) /\ list + (j - list + 1) - 1 = j
      BY <1>2, <1>3, <1>5
    <3> QED
      BY <1>6, <1>t, <3>1
  <2> QED
    BY <2>1, <2>2, <2>3, <2>4
<1>9. NoLf(line, p, close)
  <2> SUFFICES ASSUME NEW j \in p .. close PROVE line[j] # LF
    BY DEF NoLf
  <2>1. CASE j < list
    <3>1. j = p \/ j = p + 1
      BY <1>5, <2>1
    <3> QED
      BY <1>4, <1>a, <3>1
  <2>2. CASE ~(j < list)
    <3>1. j - list + 1 \in 1 .. Len(T) /\ list + (j - list + 1) - 1 = j
      BY <1>2, <1>3, <1>5, <2>2
    <3> QED
      BY <1>6, <1>t, <3>1
  <2> QED
    BY <2>1, <2>2
<1> DEFINE key == readAstring(line, p)
<1>10. key = [ok |-> TRUE, i |-> p + 1, v |-> <<Keyword.flags>>]
  BY <1>4, <1>a, ReadWord
<1>11. skipSpace(line, p + 1) = list
  <2>1. p + 1 \in Nat \ {0} /\ (p + 1) + 1 = list /\ (p + 1) + 1 <= Len(line) /\ line[(p + 1) + 1] # SP
    BY <1>8, <1>a
  <2> QED
    BY <1>4, <2>1, OneSpace
<1> HIDE DEF list, close
<1>12. FirstAt(line, list, {RP}) = close
  BY <1>3, <1>8, FirstAtIs
<1> HIDE DEF key
<1>13. key.ok /\ key.v = <<Keyword.flags>> /\ key.i = p + 1 /\ ~(close > Len(line)) /\ close + 1 = q
  <2>1. close + 1 = q
    BY <1>5 DEF close
  <2>2. ~(close > Len(line))
    BY <1>2, <1>5, <1>8
  <2> QED
    BY <1>10, <2>1, <2>2
<1>14. ASSUME NEW at, Reaches(line, at, p) PROVE MetaFinds(line, at, Entry(Keyword.flags, q, T), q)
  <2> DEFINE e == Entry(Keyword.flags, q, T)
  <2>0. p \in 1 .. Len(line) /\ line[p] # SP /\ line[p] \notin {LP, RP}
    BY <1>2, <1>4, <1>a
  <2>1. e = [key |-> key.v, val |-> [ok |-> TRUE, i |-> close + 1, v |-> SubSeq(line, list, close)]]
    BY <1>7, <1>13 DEF Entry
  <2> HIDE DEF e
  <2>2. list = skipSpace(line, key.i) /\ close = FirstAt(line, list, {RP})
    BY <1>11, <1>12, <1>13
  <2>3. MetaFinds(line, at, e, close + 1)
    BY <1>13, <1>14, <2>0, <2>1, <2>2, MetaItemTurn DEF key
  <2> QED
    BY <1>13, <2>3 DEF e
<1> QED
  BY <1>5, <1>9, <1>14 DEF close, T

\* One item has a key, and no other has it.
Holds(items, a, k, v) ==
  /\ a \in DOMAIN items /\ items[a].key = <<k>> /\ items[a].val.ok /\ items[a].val.v = v
  /\ \A j \in DOMAIN items : j # a => items[j].key # <<k>>
HasOnly(items, k, v) == \E a : Holds(items, a, k, v)
Lists4(items, a, b, c, d) == items = <<a>> \o (<<b>> \o (<<c>> \o (<<d>> \o <<>>)))

\* What a line of a listing has to give.
Info(u, words, s) ==
  [uid |-> u, flags |-> Range(words) \cap SystemFlags,
   keywords |-> Keep(words, {k \in DOMAIN words : words[k] \notin SystemFlags}), size |-> s, internal_date |-> s + 1]
MetaGives(items, u, words, s) == Under(items, <<Keyword.uid>>) # {} /\ MetaOf(items) = Info(u, words, s)

\* Four items of different keys.
LEMMA Quad ==
  ASSUME NEW items, NEW k1 \in Nat, NEW k2 \in Nat, NEW k3 \in Nat, NEW k4 \in Nat,
         k1 # k2, k1 # k3, k1 # k4, k2 # k3, k2 # k4, k3 # k4,
         NEW q1 \in Nat, NEW q2 \in Nat, NEW q3 \in Nat, NEW q4 \in Nat,
         NEW v1 \in Text, NEW v2 \in Text, NEW v3 \in Text, NEW v4 \in Text,
         Lists4(items, Entry(k1, q1, v1), Entry(k2, q2, v2), Entry(k3, q3, v3), Entry(k4, q4, v4))
  PROVE  items \in Seq(Item) /\ HasOnly(items, k1, v1) /\ HasOnly(items, k2, v2) /\ HasOnly(items, k3, v3) /\ HasOnly(items, k4, v4)
<1> DEFINE a == Entry(k1, q1, v1)
           b == Entry(k2, q2, v2)
           c == Entry(k3, q3, v3)
           d == Entry(k4, q4, v4)
           p == <<a>>
           y == <<b>> \o (<<c>> \o (<<d>> \o <<>>))
<1>0. a \in Item /\ b \in Item /\ c \in Item /\ d \in Item
  BY IsItem DEF Entry
<1>a. a.key = <<k1>> /\ a.val.ok /\ a.val.v = v1
  BY DEF Entry
<1>b. b.key = <<k2>> /\ b.val.ok /\ b.val.v = v2
  BY DEF Entry
<1>c. c.key = <<k3>> /\ c.val.ok /\ c.val.v = v3
  BY DEF Entry
<1>d. d.key = <<k4>> /\ d.val.ok /\ d.val.v = v4
  BY DEF Entry
<1>l. items = p \o y
  BY DEF Lists4
<1> HIDE DEF a, b, c, d
<1>1. y \in Seq(Item) /\ Len(y) = 3 /\ y[1] = b /\ y[2] = c /\ y[3] = d
  BY <1>0, Triple
<1>2. p \in Seq(Item) /\ Len(p) = 1 /\ p[1] = a
  BY <1>0
<1> HIDE DEF p, y
<1>3. items \in Seq(Item) /\ Len(items) = Len(p) + Len(y) /\ (\A i \in 1 .. Len(p) : items[i] = p[i])
      /\ \A i \in 1 .. Len(y) : items[Len(p) + i] = y[i]
  <2>1. p \in Seq(Item) /\ y \in Seq(Item)
    BY <1>1, <1>2
  <2> QED
    BY <2>1, <1>l, Concat, SMTT(30)
<1>4. items[1] = a /\ items[1 + 1] = b /\ items[1 + 2] = c /\ items[1 + 3] = d /\ Len(items) = 4
  BY <1>1, <1>2, <1>3
<1>5. DOMAIN items = 1 .. 4 /\ items[1] = a /\ items[2] = b /\ items[3] = c /\ items[4] = d
  <2>1. 1 + 1 = 2 /\ 1 + 2 = 3 /\ 1 + 3 = 4
    OBVIOUS
  <2>2. DOMAIN items = 1 .. Len(items)
    BY <1>3
  <2>3. Len(items) = 4
    BY <1>4
  <2>4. items[2] = b /\ items[3] = c /\ items[4] = d
    BY <1>4, <2>1
  <2> QED
    BY <1>4, <2>2, <2>3, <2>4
<1>6. \A i \in 1 .. 4 : i = 1 \/ i = 2 \/ i = 3 \/ i = 4
  OBVIOUS
<1>7. 1 \in 1 .. 4 /\ 2 \in 1 .. 4 /\ 3 \in 1 .. 4 /\ 4 \in 1 .. 4
  OBVIOUS
<1>8. <<k1>> # <<k2>> /\ <<k1>> # <<k3>> /\ <<k1>> # <<k4>> /\ <<k2>> # <<k3>> /\ <<k2>> # <<k4>> /\ <<k3>> # <<k4>>
  OBVIOUS
<1>9. Holds(items, 1, k1, v1)
  BY <1>a, <1>b, <1>c, <1>d, <1>5, <1>6, <1>7, <1>8 DEF Holds
<1>10. Holds(items, 2, k2, v2)
  BY <1>a, <1>b, <1>c, <1>d, <1>5, <1>6, <1>7, <1>8 DEF Holds
<1>11. Holds(items, 3, k3, v3)
  BY <1>a, <1>b, <1>c, <1>d, <1>5, <1>6, <1>7, <1>8 DEF Holds
<1>12. Holds(items, 4, k4, v4)
  BY <1>a, <1>b, <1>c, <1>d, <1>5, <1>6, <1>7, <1>8 DEF Holds
<1> QED
  BY <1>3, <1>9, <1>10, <1>11, <1>12 DEF HasOnly

\* The value under a key only one item has.
LEMMA OnlyLatest ==
  ASSUME NEW items \in Seq(Item), NEW k, NEW v, HasOnly(items, k, v)
  PROVE  Under(items, <<k>>) # {} /\ Latest(items, <<k>>) = v
<1>1. PICK a : Holds(items, a, k, v)
  BY DEF HasOnly
<1>2. a \in DOMAIN items /\ items[a].key = <<k>> /\ items[a].val.ok /\ items[a].val.v = v
      /\ \A j \in DOMAIN items : j # a => items[j].key # <<k>>
  BY <1>1 DEF Holds
<1>3. Under(items, <<k>>) # {} /\ Latest(items, <<k>>) = items[a].val.v
  BY <1>2, LatestIs
<1> QED
  BY <1>2, <1>3

\* A line with a UID, flags, a date and a size gives them.
LEMMA Metas ==
  ASSUME NEW items \in Seq(Item), NEW u \in Nat, NEW s \in Nat, NEW words \in Seq(FlagWords),
         HasOnly(items, Keyword.uid, <<Number(u)>>), HasOnly(items, Keyword.flags, ListText(words)),
         HasOnly(items, Keyword.date, <<Number(s + 1)>>), HasOnly(items, Keyword.size, <<Number(s)>>)
  PROVE  MetaGives(items, u, words, s)
<1> DEFINE F == <<Keyword.flags>>
           L == ListText(words)
           K == Keep(words, {k \in DOMAIN words : words[k] \notin SystemFlags})
           seqs == [k \in DOMAIN items |-> IF items[k].key = F THEN parseFlags(items[k].val.v).keywords ELSE <<>>]
<1>1. Under(items, <<Keyword.uid>>) # {} /\ Latest(items, <<Keyword.uid>>) = <<Number(u)>>
  BY OnlyLatest
<1>2. Latest(items, F) = L
  BY OnlyLatest
<1>3. Latest(items, <<Keyword.date>>) = <<Number(s + 1)>> /\ Latest(items, <<Keyword.size>>) = <<Number(s)>>
  BY OnlyLatest
<1>4. strtoul(<<Number(u)>>) = u /\ strtoul(<<Number(s + 1)>>) = s + 1 /\ strtoul(<<Number(s)>>) = s
  <2>1. \A n \in Nat : strtoul(<<Number(n)>>) = n
    BY DEF strtoul, IsNumber, Number
  <2>2. s + 1 \in Nat
    OBVIOUS
  <2> QED
    BY <2>1, <2>2
<1>5. parseFlags(L).flags = Range(words) \cap SystemFlags /\ parseFlags(L).keywords = K
  <2>1. parseFlags(L) = Sorted(words)
    BY ParsedFlags
  <2>2. Sorted(words) = [flags |-> Range(words) \cap SystemFlags, keywords |-> K]
    BY Zenon DEF Sorted
  <2> HIDE DEF L, K
  <2> QED
    BY <2>1, <2>2
<1>6. K \in Seq(FlagWords)
  BY KeepHas
<1>7. PICK a : Holds(items, a, Keyword.flags, L)
  BY DEF HasOnly
<1>8. a \in DOMAIN items /\ items[a].key = F /\ items[a].val.v = L /\ \A j \in DOMAIN items : j # a => items[j].key # F
  BY <1>7 DEF Holds
<1> HIDE DEF L, K
<1>9. seqs[a] = K /\ \A k \in DOMAIN items : k # a => seqs[k] = <<>>
  BY <1>5, <1>8
<1>10. DOMAIN items = 1 .. Len(items) /\ Len(items) \in Nat /\ DOMAIN seqs = DOMAIN items
  OBVIOUS
<1> HIDE DEF seqs
<1>11. seqs \in Seq(Seq(FlagWords)) /\ Len(seqs) = Len(items)
  <2>1. \A k \in DOMAIN items : seqs[k] \in Seq(FlagWords)
    <3>1. <<>> \in Seq(FlagWords)
      OBVIOUS
    <3> QED
      BY <1>6, <1>8, <1>9, <3>1
  <2>2. seqs = [k \in 1 .. Len(items) |-> seqs[k]]
    BY <1>10 DEF seqs
  <2>3. seqs \in [1 .. Len(items) -> Seq(FlagWords)]
    BY <1>10, <2>1, <2>2
  <2>4. seqs \in Seq(Seq(FlagWords))
    BY <1>10, <2>3
  <2>5. DOMAIN seqs = 1 .. Len(seqs) /\ Len(seqs) \in Nat
    BY <2>4
  <2>6. 1 .. Len(seqs) = 1 .. Len(items)
    BY <1>10, <2>5
  <2>7. Len(seqs) = Len(items)
    BY <1>10, <2>5, <2>6
  <2> QED
    BY <2>4, <2>7
<1>12. FlattenSeq(seqs) = K
  <2>1. a \in 1 .. Len(seqs) /\ \A k \in 1 .. Len(seqs) : k # a => seqs[k] = <<>>
    BY <1>8, <1>9, <1>10, <1>11
  <2>2. FlattenSeq(seqs) = seqs[a]
    BY <1>11, <2>1, FlattenOnly
  <2> QED
    BY <1>9, <2>2
<1>13. MetaOf(items) = [uid |-> strtoul(Latest(items, <<Keyword.uid>>)), flags |-> parseFlags(Latest(items, F)).flags,
                        keywords |-> FlattenSeq(seqs), internal_date |-> strtoul(Latest(items, <<Keyword.date>>)),
                        size |-> strtoul(Latest(items, <<Keyword.size>>))]
  BY DEF MetaOf, seqs
<1> HIDE DEF F
<1>14. MetaOf(items) = [uid |-> u, flags |-> Range(words) \cap SystemFlags, keywords |-> K, size |-> s, internal_date |-> s + 1]
  BY <1>1, <1>2, <1>3, <1>4, <1>5, <1>12, <1>13
<1> QED
  BY <1>1, <1>14 DEF MetaGives, Info, K

\* Four items up to the end of the line.
LEMMA MetaListed4 ==
  ASSUME NEW line, NEW p, NEW q, NEW r, NEW s, NEW t, NEW a, NEW b, NEW c, NEW d, MetaFinds(line, p, a, q), MetaFinds(line, q, b, r),
         MetaFinds(line, r, c, s), MetaFinds(line, s, d, t), MetaFrom(line, t) = <<>>
  PROVE  Lists4(MetaFrom(line, p), a, b, c, d)
  BY DEF MetaFinds, Lists4

\* Something that is passed over before an item.
LEMMA MetaAfter ==
  ASSUME NEW line, NEW p, NEW q, NEW a, NEW r, MetaPasses(line, p, q), MetaFinds(line, q, a, r)
  PROVE  MetaFinds(line, p, a, r)
  BY DEF MetaFinds, MetaPasses

\* The end of a line.
LEMMA MetaEnd ==
  ASSUME NEW T \in Text, NEW q \in Nat \ {0}, Len(T) = q, T[q] = RP
  PROVE  q <= Len(T) /\ T[q] \in Stops /\ NoLf(T, q, Len(T)) /\ T[Len(T)] # RB /\ T # <<>> /\ MetaFrom(T, q) = <<>>
<1>1. q <= Len(T) /\ T[q] \in Stops /\ NoLf(T, q, Len(T)) /\ T[Len(T)] # RB /\ T # <<>>
  BY EndAt
<1>2. q \in 1 .. Len(T) /\ Reaches(T, q, q) /\ T[q] \in {LP, RP}
  BY DEF Reaches
<1>3. MetaPasses(T, q, q + 1)
  BY <1>2, MetaParen
<1> QED
  BY <1>1, <1>3, MetaStep DEF MetaPasses

\* The items parseFetchResponse() finds in a FETCH line.
LEMMA MetaTextIs ==
  ASSUME NEW X \in Text
  PROVE  MetaItems(FetchText(X)) = MetaFrom(FetchText(X), 8)
<1> DEFINE T == FetchText(X)
<1>0. T \in Text /\ Len(T) = 8 + Len(X) /\ Len(X) \in Nat /\ FetchText(X) = T
  BY FetchTextIs DEF Text
<1>1. At(T, 1, Opening)
  <2> DEFINE r == <<RP>>
             y == X \o r
  <2>1. Opening \in Text /\ r \in Text
    BY DEF Text, Opening, STAR, SP, Number, Keyword, LP, RP
  <2>2. Opening \o X \in Text
    BY <2>1, TextConcat
  <2>3. T = (Opening \o X) \o r
    BY DEF FetchText
  <2> HIDE DEF T, r
  <2>4. At(T, 1, (Opening \o X) \o r) /\ 1 \in Nat \ {0}
    BY <1>0, <2>3, AtSelf
  <2>5. At(T, 1, Opening \o X)
    BY <1>0, <2>1, <2>2, <2>4, AtConcat
  <2> QED
    BY <1>0, <2>1, <2>4, <2>5, AtConcat
<1> HIDE DEF T
<1>2. FetchItems(T) = 7 /\ 7 <= Len(T) /\ T[7] = LP
  BY <1>0, <1>1, FetchItemsAt
<1>3. MetaItems(T) = MetaFrom(T, 7)
  <2>1. MetaItems(T) = Items(T, MetaTurns(T))
    BY DEF MetaItems, MetaTurns
  <2>2. Items(T, MetaTurns(T)) = Loop(MetaTurns(T), Len(T), 7)
    BY <1>2 DEF Items
  <2> QED
    BY <2>1, <2>2 DEF MetaFrom
<1>4. MetaPasses(T, 7, 7 + 1)
  <2>1. 7 \in 1 .. Len(T) /\ Reaches(T, 7, 7) /\ T[7] \in {LP, RP}
    BY <1>0, <1>2 DEF Reaches
  <2> QED
    BY <1>0, <2>1, MetaParen
<1> QED
  BY <1>3, <1>4 DEF MetaPasses, T

----------------------------------------------------------------------------
(* The lines of a listing, piece by piece.                                 *)

\* A piece of a line that gives one item, wherever it stands: it has no line
\* feed, and the loop comes from its start to its end with that item.
PieceAt(T, p, q, k, v) ==
  /\ NoLf(T, p, q - 1)
  /\ q <= Len(T) /\ T[q] \in Stops => \A at : Reaches(T, at, p) => \E r \in Nat : MetaFinds(T, at, Entry(k, r, v), q)
Piece(x, k, v) ==
  /\ x \in Text /\ k \in Nat /\ v \in Text
  /\ \A T \in Text, p \in Nat \ {0} : \A q : At(T, p, x) /\ q = p + Len(x) => PieceAt(T, p, q, k, v)

\* A key and a word.
LEMMA WordPiece ==
  ASSUME NEW k \in Nat, NEW w \in Nat, Plain(k), Plain(w), <<k>> \in MetaKeys, <<k>> # <<Keyword.flags>>
  PROVE  Piece(<<k, SP, w>>, k, <<w>>)
<1> DEFINE x == <<k, SP, w>>
<1>1. x \in Text /\ Len(x) = 3 /\ <<w>> \in Text
  BY DEF Text, SP
<1>2. ASSUME NEW T \in Text, NEW p \in Nat \ {0}, NEW q, At(T, p, x), q = p + Len(x) PROVE PieceAt(T, p, q, k, <<w>>)
  <2>1. q = p + 3 /\ q - 1 = p + 2 /\ q \in Nat /\ At(T, p, <<k, SP, w>>)
    BY <1>1, <1>2
  <2>2. NoLf(T, p, p + 2)
    BY <2>1, WordAt
  <2>3. q <= Len(T) /\ T[q] \in Stops => \A at : Reaches(T, at, p) => MetaFinds(T, at, Entry(k, q, <<w>>), q)
    BY <2>1, MetaWordAt
  <2> QED
    BY <2>1, <2>2, <2>3 DEF PieceAt
<1> HIDE DEF x
<1>3. Piece(x, k, <<w>>)
  BY <1>1, <1>2 DEF Piece
<1> QED
  BY <1>3 DEF x

\* The keys and the words of a listing.
LEMMA MetaOctet ==
  /\ Keyword.uid \in Nat /\ Keyword.size \in Nat /\ Keyword.date \in Nat /\ Keyword.flags \in Nat
  /\ Keyword.uid # Keyword.size /\ Keyword.uid # Keyword.date /\ Keyword.uid # Keyword.flags
  /\ Keyword.size # Keyword.date /\ Keyword.size # Keyword.flags /\ Keyword.date # Keyword.flags
  /\ <<Keyword.uid>> \in MetaKeys /\ <<Keyword.size>> \in MetaKeys /\ <<Keyword.uid>> # <<Keyword.flags>>
  /\ <<Keyword.size>> # <<Keyword.flags>> /\ <<Keyword.other>> \notin MetaKeys /\ <<Keyword.other>> # <<Keyword.flags>>
  /\ Plain(Keyword.other) /\ Keyword.other \in Nat /\ Keyword.other # LF
  /\ \A n \in Nat : Number(n) \in Nat /\ Number(n) \notin {QT, BS, LF} /\ <<Number(n)>> \notin MetaKeys /\ <<Number(n)>> # <<Keyword.flags>>
  BY DEF Keyword, MetaKeys, Plain, Stops, SP, CR, LF, LP, RP, QT, LB, BS, Number

\* The items of a message.
LEMMA Pieces ==
  ASSUME NEW u \in Nat, NEW words \in Seq(FlagWords)
  PROVE  /\ Piece(UidItem(u), Keyword.uid, <<Number(u)>>)
         /\ Piece(<<Keyword.size, SP, Number(u)>>, Keyword.size, <<Number(u)>>)
         /\ Piece(DateItem(Number(u)), Keyword.date, <<Number(u)>>)
         /\ Piece(FlagsItem(words), Keyword.flags, ListText(words))
<1> DEFINE n == Number(u)
<1>0. n \in Nat /\ Plain(n) /\ n \notin {QT, BS, LF} /\ <<n>> \in Text
  <2>1. n \in Nat /\ n \notin {QT, BS, LF}
    BY MetaOctet
  <2>2. Plain(n)
    BY Octet
  <2> HIDE DEF n
  <2>3. <<n>> \in Text
    BY <2>1 DEF Text
  <2> QED
    BY <2>1, <2>2, <2>3
<1>1. Piece(UidItem(u), Keyword.uid, <<n>>)
  <2>1. UidItem(u) = <<Keyword.uid, SP, n>>
    BY DEF UidItem
  <2> HIDE DEF n
  <2>2. Piece(<<Keyword.uid, SP, n>>, Keyword.uid, <<n>>)
    BY <1>0, Octet, MetaOctet, WordPiece
  <2> QED
    BY <2>1, <2>2
<1>2. Piece(<<Keyword.size, SP, n>>, Keyword.size, <<n>>)
  <2> HIDE DEF n
  <2> QED
    BY <1>0, Octet, MetaOctet, WordPiece
<1>3. Piece(DateItem(n), Keyword.date, <<n>>)
  <2> HIDE DEF n
  <2> DEFINE x == DateItem(n)
  <2>1. x \in Text /\ Len(x) = 5
    <3>1. Keyword.date \in Nat /\ SP \in Nat /\ QT \in Nat
      BY DEF Keyword, SP, QT
    <3> QED
      BY <1>0, <3>1 DEF Text, DateItem
  <2>2. ASSUME NEW T \in Text, NEW p \in Nat \ {0}, NEW q, At(T, p, x), q = p + Len(x) PROVE PieceAt(T, p, q, Keyword.date, <<n>>)
    <3>1. q = p + 5 /\ q - 1 = p + 4 /\ q \in Nat /\ At(T, p, DateItem(n))
      BY <2>1, <2>2
    <3>2. NoLf(T, p, p + 4) /\ \A at : Reaches(T, at, p) => MetaFinds(T, at, Entry(Keyword.date, q, <<n>>), q)
      BY <1>0, <3>1, MetaDateAt
    <3> QED
      BY <3>1, <3>2 DEF PieceAt
  <2> HIDE DEF x
  <2>3. Piece(x, Keyword.date, <<n>>)
    BY <1>0, <2>1, <2>2, MetaOctet DEF Piece
  <2> QED
    BY <2>3 DEF x
<1>4. Piece(FlagsItem(words), Keyword.flags, ListText(words))
  <2> DEFINE x == FlagsItem(words)
             v == ListText(words)
  <2>1. x \in Text /\ v \in Text
    <3>1. v \in Text
      BY ListTextIs
    <3>2. <<Keyword.flags, SP>> \in Text
      BY DEF Text, Keyword, SP
    <3> HIDE DEF v
    <3>3. x = <<Keyword.flags, SP>> \o v
      BY FlagsItemForm DEF v
    <3> QED
      BY <3>1, <3>2, <3>3, TextConcat
  <2>2. ASSUME NEW T \in Text, NEW p \in Nat \ {0}, NEW q, At(T, p, x), q = p + Len(x) PROVE PieceAt(T, p, q, Keyword.flags, v)
    <3>1. /\ NoLf(T, p, q - 1) /\ q \in Nat
          /\ \A at : Reaches(T, at, p) => MetaFinds(T, at, Entry(Keyword.flags, q, v), q)
      BY <2>2, MetaFlagsAt
    <3> QED
      BY <3>1 DEF PieceAt
  <2> HIDE DEF x, v
  <2>3. Piece(x, Keyword.flags, v)
    BY <2>1, <2>2, MetaOctet DEF Piece
  <2> QED
    BY <2>3 DEF x, v
<1> QED
  BY <1>1, <1>2, <1>3, <1>4 DEF n

\* What a space leads from and to.
LEMMA PieceThen ==
  ASSUME NEW T \in Text, NEW p \in Nat \ {0}, NEW x, NEW k, NEW v, Piece(x, k, v), At(T, p, x), NEW q, q = p + Len(x),
         q <= Len(T), T[q] \in Stops, NEW at, Reaches(T, at, p)
  PROVE  NoLf(T, p, q - 1) /\ q \in Nat \ {0} /\ \E r \in Nat : MetaFinds(T, at, Entry(k, r, v), q)
<1>1. PieceAt(T, p, q, k, v)
  BY DEF Piece
<1>2. Len(x) \in Nat
  BY DEF Piece, Text
<1> QED
  BY <1>1, <1>2 DEF PieceAt

\* An item nobody asked for, and the list that is its value.
OtherItem == <<SP, Keyword.other, SP, LP, Number(4), RP>>

\* Where it stands.
LEMMA OtherAt ==
  ASSUME NEW T \in Text, NEW p \in Nat \ {0}, At(T, p, OtherItem)
  PROVE  /\ p + 5 <= Len(T) /\ T[p] = SP /\ T[p + 1] = Keyword.other /\ T[p + 2] = SP /\ T[p + 3] = LP
         /\ T[p + 4] = Number(4) /\ T[p + 5] = RP
<1> DEFINE o == OtherItem
<1>1. Len(o) = 6 /\ o[1] = SP /\ o[2] = Keyword.other /\ o[3] = SP /\ o[4] = LP /\ o[5] = Number(4) /\ o[6] = RP
  BY DEF OtherItem
<1>0. At(T, p, o) /\ Len(T) \in Nat
  BY DEF Text
<1> HIDE DEF o
<1>2. p + 6 <= Len(T) + 1 /\ \A j \in 1 .. 6 : T[p + j - 1] = o[j]
  BY <1>0, <1>1 DEF At
<1>3. T[p + 1 - 1] = o[1] /\ T[p + 2 - 1] = o[2] /\ T[p + 3 - 1] = o[3] /\ T[p + 4 - 1] = o[4] /\ T[p + 5 - 1] = o[5] /\ T[p + 6 - 1] = o[6]
  BY <1>2
<1>4. p + 1 - 1 = p /\ p + 2 - 1 = p + 1 /\ p + 3 - 1 = p + 2 /\ p + 4 - 1 = p + 3 /\ p + 5 - 1 = p + 4 /\ p + 6 - 1 = p + 5
  OBVIOUS
<1>5. p + 5 <= Len(T)
  BY <1>0, <1>2
<1> QED
  BY <1>1, <1>3, <1>4, <1>5

\* It is passed over.
LEMMA OtherPasses ==
  ASSUME NEW T \in Text, NEW p \in Nat \ {0}, At(T, p, OtherItem)
  PROVE  NoLf(T, p, p + 5) /\ MetaPasses(T, p, p + 6)
<1>1. /\ p + 5 <= Len(T) /\ T[p] = SP /\ T[p + 1] = Keyword.other /\ T[p + 2] = SP /\ T[p + 3] = LP
      /\ T[p + 4] = Number(4) /\ T[p + 5] = RP
  BY OtherAt
<1>a. Number(4) \in Nat /\ <<Number(4)>> \notin MetaKeys /\ <<Number(4)>> # <<Keyword.flags>> /\ Plain(Number(4)) /\ Number(4) # LF
  <2>1. 4 \in Nat
    OBVIOUS
  <2> QED
    BY <2>1, MetaOctet, Octet
<1>b. /\ Plain(Keyword.other) /\ <<Keyword.other>> \notin MetaKeys /\ <<Keyword.other>> # <<Keyword.flags>> /\ Keyword.other # LF
      /\ SP \in Stops /\ RP \in Stops /\ SP # LF /\ LP # LF /\ RP # LF
  BY MetaOctet, Octet
<1>n. Len(T) \in Nat
  BY DEF Text
<1>2. NoLf(T, p, p + 5)
  <2> SUFFICES ASSUME NEW k \in p .. (p + 5) PROVE T[k] # LF
    BY DEF NoLf
  <2>1. k = p \/ k = p + 1 \/ k = p + 2 \/ k = p + 3 \/ k = p + 4 \/ k = p + 5
    OBVIOUS
  <2> QED
    BY <1>1, <1>a, <1>b, <2>1
<1>3. MetaPasses(T, p, p + 2)
  <2> DEFINE i == p + 1
  <2>1. i \in Nat \ {0} /\ i + 1 <= Len(T) /\ i + 1 = p + 2 /\ T[i] = Keyword.other /\ T[i + 1] = SP /\ Reaches(T, p, i)
    BY <1>1, <1>n DEF Reaches
  <2> HIDE DEF i
  <2>2. MetaPasses(T, p, i + 1)
    BY <1>b, <2>1, MetaOther
  <2> QED
    BY <2>1, <2>2
<1>4. MetaPasses(T, p + 2, p + 4)
  <2> DEFINE i == p + 3
             j == p + 2
  <2>1. i \in 1 .. Len(T) /\ i + 1 = p + 4 /\ T[i] \in {LP, RP} /\ Reaches(T, j, i)
    BY <1>1, <1>n DEF Reaches
  <2> HIDE DEF i, j
  <2>2. MetaPasses(T, j, i + 1)
    BY <2>1, MetaParen
  <2> QED
    BY <2>1, <2>2 DEF j
<1>5. MetaPasses(T, p + 4, p + 5)
  <2> DEFINE i == p + 4
  <2>1. i \in Nat \ {0} /\ i + 1 <= Len(T) /\ i + 1 = p + 5 /\ T[i] = Number(4) /\ T[i + 1] = RP /\ Reaches(T, i, i)
    BY <1>1, <1>n DEF Reaches
  <2> HIDE DEF i
  <2>2. MetaPasses(T, i, i + 1)
    BY <1>a, <1>b, <2>1, MetaOther
  <2>3. i = p + 4
    BY DEF i
  <2> QED
    BY <2>1, <2>2, <2>3
<1>6. MetaPasses(T, p + 5, p + 6)
  <2> DEFINE i == p + 5
  <2>1. i \in 1 .. Len(T) /\ i + 1 = p + 6 /\ T[i] \in {LP, RP} /\ Reaches(T, i, i)
    BY <1>1, <1>n DEF Reaches
  <2> HIDE DEF i
  <2>2. MetaPasses(T, i, i + 1)
    BY <2>1, MetaParen
  <2>3. i = p + 5
    BY DEF i
  <2> QED
    BY <2>1, <2>2, <2>3
<1> QED
  BY <1>2, <1>3, <1>4, <1>5, <1>6 DEF MetaPasses

\* The UID with the other item after it.
LEMMA UidOther ==
  ASSUME NEW u \in Nat
  PROVE  Piece(UidItem(u) \o OtherItem, Keyword.uid, <<Number(u)>>)
<1> DEFINE a == UidItem(u)
           o == OtherItem
           x == a \o o
           k == Keyword.uid
           v == <<Number(u)>>
<1>1. a \in Text /\ Len(a) = 3 /\ o \in Text /\ Len(o) = 6
  <2>1. o \in Text /\ Len(o) = 6
    BY DEF OtherItem, Text, SP, Keyword, LP, RP, Number
  <2> QED
    BY <2>1, UidItemIs
<1>2. Piece(a, k, v)
  <2>1. <<>> \in Seq(FlagWords)
    OBVIOUS
  <2> QED
    BY <2>1, Pieces
<1>3. k \in Nat /\ v \in Text
  BY <1>2 DEF Piece
<1>o. o = OtherItem
  OBVIOUS
<1> HIDE DEF a, o, k, v
<1>4. x \in Text /\ Len(x) = 9
  <2>1. x \in Text /\ Len(x) = Len(a) + Len(o)
    BY <1>1, TextConcat
  <2> QED
    BY <1>1, <2>1
<1>5. ASSUME NEW T \in Text, NEW p \in Nat \ {0}, NEW q, At(T, p, x), q = p + Len(x) PROVE PieceAt(T, p, q, k, v)
  <2> DEFINE m == p + 3
  <2>0. q = p + 9 /\ q = m + 6 /\ q - 1 = m + 5 /\ m \in Nat \ {0} /\ m = p + Len(a) /\ m - 1 \in Int /\ m = (m - 1) + 1
        /\ q - 1 \in Int /\ p \in Int /\ m \in Int
    BY <1>1, <1>4, <1>5
  <2> HIDE DEF m
  <2>1. At(T, p, a) /\ At(T, m, o)
    BY <1>1, <1>5, <2>0, AtBoth
  <2>2. NoLf(T, m, m + 5) /\ MetaPasses(T, m, m + 6)
    BY <1>o, <2>0, <2>1, OtherPasses
  <2>3. T[m] \in Stops /\ m <= Len(T)
    <3>1. m + 5 <= Len(T) /\ T[m] = SP
      BY <1>o, <2>0, <2>1, OtherAt
    <3>2. Len(T) \in Nat
      BY DEF Text
    <3> QED
      BY <2>0, <3>1, <3>2, Octet
  <2>4. PieceAt(T, p, m, k, v)
    BY <1>2, <2>0, <2>1 DEF Piece
  <2>5. NoLf(T, p, m - 1) /\ \A at : Reaches(T, at, p) => \E r \in Nat : MetaFinds(T, at, Entry(k, r, v), m)
    BY <2>3, <2>4 DEF PieceAt
  <2>6. NoLf(T, p, q - 1)
    BY <2>0, <2>2, <2>5, NoLfJoin
  <2>7. ASSUME NEW at, Reaches(T, at, p) PROVE \E r \in Nat : MetaFinds(T, at, Entry(k, r, v), q)
    <3>1. PICK r \in Nat : MetaFinds(T, at, Entry(k, r, v), m)
      BY <2>5, <2>7
    <3>2. MetaFinds(T, at, Entry(k, r, v), q)
      BY <2>0, <2>2, <3>1 DEF MetaFinds, MetaPasses
    <3> QED
      BY <3>2
  <2> QED
    BY <2>6, <2>7 DEF PieceAt
<1> HIDE DEF x
<1>6. Piece(x, k, v)
  BY <1>3, <1>4, <1>5 DEF Piece
<1> QED
  BY <1>6 DEF x, a, o, k, v

\* A line of four pieces.
Row(a, b, c, d) == (((((a \o <<SP>>) \o b) \o <<SP>>) \o c) \o <<SP>>) \o d

\* One item of a line has a key.
Gets(X, k, v) == HasOnly(MetaItems(FetchText(X)), k, v)

\* A line of four pieces has their four items.
LEMMA FourPieces ==
  ASSUME NEW a, NEW b, NEW c, NEW d, NEW k1, NEW k2, NEW k3, NEW k4, NEW v1, NEW v2, NEW v3, NEW v4,
         Piece(a, k1, v1), Piece(b, k2, v2), Piece(c, k3, v3), Piece(d, k4, v4),
         k1 # k2, k1 # k3, k1 # k4, k2 # k3, k2 # k4, k3 # k4, NEW X, X = Row(a, b, c, d)
  PROVE  /\ Fits(X) /\ MetaItems(FetchText(X)) \in Seq(Item)
         /\ Gets(X, k1, v1) /\ Gets(X, k2, v2) /\ Gets(X, k3, v3) /\ Gets(X, k4, v4)
<1> DEFINE e == <<SP>>
           y1 == a \o e
           y2 == y1 \o b
           y3 == y2 \o e
           y4 == y3 \o c
           y5 == y4 \o e
           y6 == y5 \o d
           T == FetchText(X)
<1>x. X = y6
  BY DEF Row
<1>0. a \in Text /\ b \in Text /\ c \in Text /\ d \in Text /\ e \in Text /\ Len(e) = 1
  BY Octet DEF Piece
<1>t. /\ k1 \in Nat /\ k2 \in Nat /\ k3 \in Nat /\ k4 \in Nat
      /\ v1 \in Text /\ v2 \in Text /\ v3 \in Text /\ v4 \in Text
  BY DEF Piece
<1>e. e = <<SP>> /\ T = FetchText(X)
  OBVIOUS
<1>l. Len(a) \in Nat /\ Len(b) \in Nat /\ Len(c) \in Nat /\ Len(d) \in Nat
  BY <1>0 DEF Text
<1> HIDE DEF e, y1, y2, y3, y4, y5, y6, T
<1>y1. y1 \in Text /\ Len(y1) = Len(a) + Len(e)
  BY <1>0, TextConcat DEF y1
<1>y2. y2 \in Text /\ Len(y2) = Len(y1) + Len(b)
  BY <1>0, <1>y1, TextConcat DEF y2
<1>y3. y3 \in Text /\ Len(y3) = Len(y2) + Len(e)
  BY <1>0, <1>y2, TextConcat DEF y3
<1>y4. y4 \in Text /\ Len(y4) = Len(y3) + Len(c)
  BY <1>0, <1>y3, TextConcat DEF y4
<1>y5. y5 \in Text /\ Len(y5) = Len(y4) + Len(e)
  BY <1>0, <1>y4, TextConcat DEF y5
<1>y6. y6 \in Text /\ Len(y6) = Len(y5) + Len(d)
  BY <1>0, <1>y5, TextConcat DEF y6
<1> DEFINE p0 == 8
           p1 == p0 + Len(a)
           p2 == p1 + 1
           p3 == p2 + Len(b)
           p4 == p3 + 1
           p5 == p4 + Len(c)
           p6 == p5 + 1
           p7 == p6 + Len(d)
<1>p. /\ p0 \in Nat \ {0} /\ p1 \in Nat \ {0} /\ p2 \in Nat \ {0} /\ p3 \in Nat \ {0} /\ p4 \in Nat \ {0} /\ p5 \in Nat \ {0} /\ p6 \in Nat \ {0} /\ p7 \in Nat \ {0}
      /\ p0 - 1 \in Int /\ p0 = (p0 - 1) + 1 /\ p1 - 1 \in Int /\ p1 = (p1 - 1) + 1 /\ p2 - 1 \in Int /\ p2 = (p2 - 1) + 1 /\ p3 - 1 \in Int /\ p3 = (p3 - 1) + 1
      /\ p4 - 1 \in Int /\ p4 = (p4 - 1) + 1 /\ p5 - 1 \in Int /\ p5 = (p5 - 1) + 1 /\ p6 - 1 \in Int /\ p6 = (p6 - 1) + 1 /\ p7 - 1 \in Int /\ p7 = (p7 - 1) + 1
      /\ p2 - 1 = p1 /\ p2 = p1 + 1 /\ p4 - 1 = p3 /\ p4 = p3 + 1 /\ p6 - 1 = p5 /\ p6 = p5 + 1
      /\ p1 = p0 + Len(a) /\ p3 = p2 + Len(b) /\ p5 = p4 + Len(c) /\ p7 = p6 + Len(d) /\ p0 = 8 /\ p0 - 1 = 7
  BY <1>l
<1>q. /\ p1 = p0 + Len(a) /\ p2 = p0 + Len(y1) /\ p3 = p0 + Len(y2) /\ p4 = p0 + Len(y3) /\ p5 = p0 + Len(y4) /\ p6 = p0 + Len(y5)
      /\ p7 = 8 + Len(X)
  BY <1>0, <1>l, <1>x, <1>y1, <1>y2, <1>y3, <1>y4, <1>y5, <1>y6
<1> HIDE DEF p0, p1, p2, p3, p4, p5, p6, p7
<1>2. /\ T \in Text /\ Len(T) = p7 /\ At(T, p0, X) /\ T[p7] = RP /\ MetaItems(T) = MetaFrom(T, p0)
      /\ FetchLine(X) = T \o EOL /\ NoLf(T, 1, 7)
  <2>1. X \in Text
    BY <1>x, <1>y6
  <2> QED
    BY <1>p, <1>q, <1>e, <2>1, FetchTextIs, MetaTextIs DEF NoLf
<1>3. At(T, p0, a) /\ At(T, p1, e) /\ At(T, p2, b) /\ At(T, p3, e) /\ At(T, p4, c) /\ At(T, p5, e) /\ At(T, p6, d)
  <2>7. At(T, p0, y6)
    BY <1>2, <1>x
  <2>6. At(T, p0, y5) /\ At(T, p6, d)
    <3>1. At(T, p0, y5 \o d) /\ y5 \in Text
      BY <1>0, <1>y5, <2>7 DEF y6
    <3>2. p6 = p0 + Len(y5) /\ p0 \in Nat \ {0} /\ T \in Text /\ d \in Text
      BY <1>0, <1>2, <1>p, <1>q
    <3> QED
      BY <3>1, <3>2, AtBoth
  <2>5. At(T, p0, y4) /\ At(T, p5, e)
    <3>1. At(T, p0, y4 \o e) /\ y4 \in Text
      BY <1>0, <1>y4, <2>6 DEF y5
    <3>2. p5 = p0 + Len(y4) /\ p0 \in Nat \ {0} /\ T \in Text /\ e \in Text
      BY <1>0, <1>2, <1>p, <1>q
    <3> QED
      BY <3>1, <3>2, AtBoth
  <2>4. At(T, p0, y3) /\ At(T, p4, c)
    <3>1. At(T, p0, y3 \o c) /\ y3 \in Text
      BY <1>0, <1>y3, <2>5 DEF y4
    <3>2. p4 = p0 + Len(y3) /\ p0 \in Nat \ {0} /\ T \in Text /\ c \in Text
      BY <1>0, <1>2, <1>p, <1>q
    <3> QED
      BY <3>1, <3>2, AtBoth
  <2>3. At(T, p0, y2) /\ At(T, p3, e)
    <3>1. At(T, p0, y2 \o e) /\ y2 \in Text
      BY <1>0, <1>y2, <2>4 DEF y3
    <3>2. p3 = p0 + Len(y2) /\ p0 \in Nat \ {0} /\ T \in Text /\ e \in Text
      BY <1>0, <1>2, <1>p, <1>q
    <3> QED
      BY <3>1, <3>2, AtBoth
  <2>2. At(T, p0, y1) /\ At(T, p2, b)
    <3>1. At(T, p0, y1 \o b) /\ y1 \in Text
      BY <1>0, <1>y1, <2>3 DEF y2
    <3>2. p2 = p0 + Len(y1) /\ p0 \in Nat \ {0} /\ T \in Text /\ b \in Text
      BY <1>0, <1>2, <1>p, <1>q
    <3> QED
      BY <3>1, <3>2, AtBoth
  <2>1. At(T, p0, a) /\ At(T, p1, e)
    <3>1. At(T, p0, a \o e) /\ a \in Text
      BY <1>0, <2>2 DEF y1
    <3>2. p1 = p0 + Len(a) /\ p0 \in Nat \ {0} /\ T \in Text /\ e \in Text
      BY <1>0, <1>2, <1>p, <1>q
    <3> QED
      BY <3>1, <3>2, AtBoth
  <2> QED
    BY <2>1, <2>2, <2>3, <2>4, <2>5, <2>6
<1>4. p7 <= Len(T) /\ T[p7] \in Stops /\ NoLf(T, p7, Len(T)) /\ T[Len(T)] # RB /\ T # <<>> /\ MetaFrom(T, p7) = <<>>
  BY <1>2, <1>p, MetaEnd
<1>s1. p1 <= Len(T) /\ T[p1] \in Stops /\ Reaches(T, p1, p2) /\ NoLf(T, p1, p2 - 1)
  <2>1. p1 <= Len(T) /\ T[p1] \in Stops /\ Reaches(T, p1, p2) /\ NoLf(T, p1, p1)
    BY <1>2, <1>3, <1>e, <1>p, SpaceAt
  <2> QED
    BY <1>p, <2>1
<1>s3. p3 <= Len(T) /\ T[p3] \in Stops /\ Reaches(T, p3, p4) /\ NoLf(T, p3, p4 - 1)
  <2>1. p3 <= Len(T) /\ T[p3] \in Stops /\ Reaches(T, p3, p4) /\ NoLf(T, p3, p3)
    BY <1>2, <1>3, <1>e, <1>p, SpaceAt
  <2> QED
    BY <1>p, <2>1
<1>s5. p5 <= Len(T) /\ T[p5] \in Stops /\ Reaches(T, p5, p6) /\ NoLf(T, p5, p6 - 1)
  <2>1. p5 <= Len(T) /\ T[p5] \in Stops /\ Reaches(T, p5, p6) /\ NoLf(T, p5, p5)
    BY <1>2, <1>3, <1>e, <1>p, SpaceAt
  <2> QED
    BY <1>p, <2>1
<1>s0. Reaches(T, p0, p0)
  BY DEF Reaches
<1>w0. NoLf(T, p0, p1 - 1) /\ \E r \in Nat : MetaFinds(T, p0, Entry(k1, r, v1), p1)
  BY <1>2, <1>3, <1>p, <1>s1, <1>s0, PieceThen
<1>w2. NoLf(T, p2, p3 - 1) /\ \E r \in Nat : MetaFinds(T, p1, Entry(k2, r, v2), p3)
  BY <1>2, <1>3, <1>p, <1>s3, <1>s1, PieceThen
<1>w4. NoLf(T, p4, p5 - 1) /\ \E r \in Nat : MetaFinds(T, p3, Entry(k3, r, v3), p5)
  BY <1>2, <1>3, <1>p, <1>s5, <1>s3, PieceThen
<1>w6. NoLf(T, p6, p7 - 1) /\ \E r \in Nat : MetaFinds(T, p5, Entry(k4, r, v4), p7)
  BY <1>2, <1>3, <1>p, <1>4, <1>s5, PieceThen
<1>5. NoLf(T, 1, p7 - 1)
  <2>0. NoLf(T, 1, p0 - 1)
    BY <1>2, <1>p
  <2>1. NoLf(T, 1, p1 - 1)
    <3>1. 1 \in Int /\ p0 - 1 \in Int /\ p1 - 1 \in Int /\ p0 \in Int /\ p0 = (p0 - 1) + 1
      BY <1>p
    <3> QED
      BY <1>w0, <2>0, <3>1, NoLfJoin
  <2>2. NoLf(T, 1, p2 - 1)
    <3>1. 1 \in Int /\ p1 - 1 \in Int /\ p2 - 1 \in Int /\ p1 \in Int /\ p1 = (p1 - 1) + 1
      BY <1>p
    <3> QED
      BY <1>s1, <2>1, <3>1, NoLfJoin
  <2>3. NoLf(T, 1, p3 - 1)
    <3>1. 1 \in Int /\ p2 - 1 \in Int /\ p3 - 1 \in Int /\ p2 \in Int /\ p2 = (p2 - 1) + 1
      BY <1>p
    <3> QED
      BY <1>w2, <2>2, <3>1, NoLfJoin
  <2>4. NoLf(T, 1, p4 - 1)
    <3>1. 1 \in Int /\ p3 - 1 \in Int /\ p4 - 1 \in Int /\ p3 \in Int /\ p3 = (p3 - 1) + 1
      BY <1>p
    <3> QED
      BY <1>s3, <2>3, <3>1, NoLfJoin
  <2>5. NoLf(T, 1, p5 - 1)
    <3>1. 1 \in Int /\ p4 - 1 \in Int /\ p5 - 1 \in Int /\ p4 \in Int /\ p4 = (p4 - 1) + 1
      BY <1>p
    <3> QED
      BY <1>w4, <2>4, <3>1, NoLfJoin
  <2>6. NoLf(T, 1, p6 - 1)
    <3>1. 1 \in Int /\ p5 - 1 \in Int /\ p6 - 1 \in Int /\ p5 \in Int /\ p5 = (p5 - 1) + 1
      BY <1>p
    <3> QED
      BY <1>s5, <2>5, <3>1, NoLfJoin
  <2>7. NoLf(T, 1, p7 - 1)
    <3>1. 1 \in Int /\ p6 - 1 \in Int /\ p7 - 1 \in Int /\ p6 \in Int /\ p6 = (p6 - 1) + 1
      BY <1>p
    <3> QED
      BY <1>w6, <2>6, <3>1, NoLfJoin
  <2> QED
    BY <2>7
<1>6. Whole(T)
  <2>1. NoLf(T, 1, Len(T))
    <3>1. 1 \in Int /\ p7 - 1 \in Int /\ p7 \in Int /\ p7 = (p7 - 1) + 1 /\ Len(T) \in Int
      BY <1>2, <1>p
    <3> QED
      BY <1>4, <1>5, <3>1, NoLfJoin
  <2> QED
    BY <1>4, <2>1 DEF Whole, PlainLine, NoLf
<1>7. Fits(X)
  BY <1>2, <1>6, <1>e DEF Fits
<1>8. PICK r1 \in Nat : MetaFinds(T, p0, Entry(k1, r1, v1), p1)
  BY <1>w0
<1>9. PICK r2 \in Nat : MetaFinds(T, p1, Entry(k2, r2, v2), p3)
  BY <1>w2
<1>10. PICK r3 \in Nat : MetaFinds(T, p3, Entry(k3, r3, v3), p5)
  BY <1>w4
<1>11. PICK r4 \in Nat : MetaFinds(T, p5, Entry(k4, r4, v4), p7)
  BY <1>w6
<1>12. Lists4(MetaFrom(T, p0), Entry(k1, r1, v1), Entry(k2, r2, v2), Entry(k3, r3, v3), Entry(k4, r4, v4))
  <2> HIDE DEF Entry
  <2> QED
    BY <1>4, <1>8, <1>9, <1>10, <1>11, MetaListed4
<1> DEFINE I == MetaFrom(T, p0)
<1>13. Lists4(I, Entry(k1, r1, v1), Entry(k2, r2, v2), Entry(k3, r3, v3), Entry(k4, r4, v4))
  BY <1>12
<1> HIDE DEF I
<1>14. I \in Seq(Item) /\ HasOnly(I, k1, v1) /\ HasOnly(I, k2, v2) /\ HasOnly(I, k3, v3) /\ HasOnly(I, k4, v4)
  BY <1>13, <1>t, Quad
<1>15. MetaItems(FetchText(X)) = I
  BY <1>2, <1>e DEF I
<1> QED
  BY <1>7, <1>14, <1>15 DEF Gets

\* A line of one piece that is no UID names no message.
LEMMA OnePiece ==
  ASSUME NEW a, NEW k, NEW v, Piece(a, k, v), k # Keyword.uid
  PROVE  Fits(a) /\ Under(MetaItems(FetchText(a)), <<Keyword.uid>>) = {}
<1> DEFINE T == FetchText(a)
           q == 8 + Len(a)
<1>0. a \in Text /\ k \in Nat /\ v \in Text /\ Len(a) \in Nat /\ T = FetchText(a)
  BY DEF Piece, Text
<1>p. q \in Nat \ {0} /\ q - 1 \in Int /\ q = (q - 1) + 1 /\ 8 \in Nat \ {0} /\ 8 = 7 + 1
  BY <1>0
<1>q. q = 8 + Len(a)
  OBVIOUS
<1> HIDE DEF T, q
<1>2. /\ T \in Text /\ Len(T) = q /\ At(T, 8, a) /\ T[q] = RP /\ MetaItems(T) = MetaFrom(T, 8)
      /\ FetchLine(a) = T \o EOL /\ NoLf(T, 1, 7)
  BY <1>0, <1>q, FetchTextIs, MetaTextIs DEF NoLf
<1>4. q <= Len(T) /\ T[q] \in Stops /\ NoLf(T, q, Len(T)) /\ T[Len(T)] # RB /\ T # <<>> /\ MetaFrom(T, q) = <<>>
  BY <1>2, <1>p, MetaEnd
<1>3. Reaches(T, 8, 8)
  BY DEF Reaches
<1>5. NoLf(T, 8, q - 1) /\ \E r \in Nat : MetaFinds(T, 8, Entry(k, r, v), q)
  BY <1>2, <1>3, <1>4, <1>p, <1>q, PieceThen
<1>6. Whole(T)
  <2>1. NoLf(T, 1, q - 1)
    BY <1>2, <1>5, <1>p, NoLfJoin
  <2>2. NoLf(T, 1, Len(T))
    <3>1. 1 \in Int /\ q - 1 \in Int /\ q \in Int /\ q = (q - 1) + 1 /\ Len(T) \in Int
      BY <1>2, <1>p
    <3> QED
      BY <1>4, <2>1, <3>1, NoLfJoin
  <2> QED
    BY <1>4, <2>2 DEF Whole, PlainLine, NoLf
<1>7. Fits(a)
  BY <1>0, <1>2, <1>6 DEF Fits
<1>8. PICK r \in Nat : MetaFinds(T, 8, Entry(k, r, v), q)
  BY <1>5
<1> DEFINE x == Entry(k, r, v)
           I == MetaItems(T)
<1>9. x.key = <<k>> /\ <<k>> # <<Keyword.uid>>
  <2>1. Keyword.uid \in Nat
    BY MetaOctet
  <2> QED
    BY <1>0, <2>1 DEF Entry
<1>10. MetaFinds(T, 8, x, q)
  BY <1>8
<1> HIDE DEF x
<1>11. I = <<x>> \o <<>>
  BY <1>2, <1>4, <1>10 DEF MetaFinds
<1>12. I = <<x>>
  BY <1>11
<1> HIDE DEF I
<1>13. Under(I, <<Keyword.uid>>) = {}
  <2>1. DOMAIN I = 1 .. 1 /\ \A j \in DOMAIN I : I[j] = x
    BY <1>12
  <2> QED
    BY <1>9, <2>1 DEF Under
<1> QED
  BY <1>0, <1>7, <1>13 DEF I

\* The other item and the space after it, as the line writes them.
LEMMA OtherThenSpace == <<SP, Keyword.other, SP, LP, Number(4), RP, SP>> = OtherItem \o <<SP>>
<1> DEFINE x == <<SP, Keyword.other, SP, LP, Number(4), RP, SP>>
           y == OtherItem
           z == <<SP>>
           t == y \o z
<1>0. SP \in Nat /\ Keyword.other \in Nat /\ LP \in Nat /\ RP \in Nat /\ Number(4) \in Nat
  BY DEF SP, Keyword, LP, RP, Number
<1>1. /\ x \in Seq(Nat) /\ Len(x) = 7 /\ x[1] = SP /\ x[2] = Keyword.other /\ x[3] = SP /\ x[4] = LP /\ x[5] = Number(4) /\ x[6] = RP /\ x[7] = SP
  BY <1>0
<1>2. /\ y \in Seq(Nat) /\ Len(y) = 6 /\ y[1] = SP /\ y[2] = Keyword.other /\ y[3] = SP /\ y[4] = LP /\ y[5] = Number(4) /\ y[6] = RP
  BY <1>0 DEF OtherItem
<1>3. z \in Seq(Nat) /\ Len(z) = 1 /\ z[1] = SP
  BY <1>0
<1> HIDE DEF x, y, z
<1>4. t \in Seq(Nat) /\ Len(t) = Len(y) + Len(z) /\ (\A i \in 1 .. Len(y) : t[i] = y[i])
      /\ \A i \in 1 .. Len(z) : t[Len(y) + i] = z[i]
  <2>1. y \in Seq(Nat) /\ z \in Seq(Nat)
    BY <1>2, <1>3
  <2> QED
    BY <2>1, Concat
<1> HIDE DEF t
<1>5. t[1] = SP /\ t[2] = Keyword.other /\ t[3] = SP /\ t[4] = LP /\ t[5] = Number(4) /\ t[6] = RP /\ t[6 + 1] = SP /\ Len(t) = 7
  BY <1>2, <1>3, <1>4
<1>6. \A i \in 1 .. 7 : i = 1 \/ i = 2 \/ i = 3 \/ i = 4 \/ i = 5 \/ i = 6 \/ i = 7
  OBVIOUS
<1>7. 6 + 1 = 7
  OBVIOUS
<1>8. \A i \in 1 .. Len(x) : x[i] = t[i]
  BY <1>1, <1>5, <1>6, <1>7
<1>9. x = t
  <2>1. x \in Seq(Nat) /\ t \in Seq(Nat) /\ Len(x) = Len(t)
    BY <1>1, <1>4, <1>5
  <2> QED
    BY <1>8, <2>1, SameSeq
<1> QED
  BY <1>9 DEF x, y, z, t

\* A line that is no FETCH response.
ExistsText == <<STAR, SP, Number(3), SP, Keyword.exists>>

\* It has no items.
LEMMA ExistsIs == ExistsText \in Text /\ Whole(ExistsText) /\ Under(MetaItems(ExistsText), <<Keyword.uid>>) = {}
<1> DEFINE T == ExistsText
           hits == {j \in 1 .. (Len(T) - 2) : SubSeq(T, j, j + 2) = <<SP, Keyword.fetch, SP>>}
<1>1. T \in Text /\ Len(T) = 5 /\ T[1] = STAR /\ T[2] = SP /\ T[3] = Number(3) /\ T[4] = SP /\ T[5] = Keyword.exists
  BY DEF ExistsText, Text, STAR, SP, Number, Keyword
<1>2. STAR # LF /\ SP # LF /\ Number(3) # LF /\ Keyword.exists # LF /\ Keyword.exists # RB /\ Keyword.fetch # SP /\ Keyword.fetch # Number(3)
  BY DEF STAR, SP, Number, Keyword, LF, RB
<1> HIDE DEF T
<1>3. \A i \in 1 .. 5 : i = 1 \/ i = 2 \/ i = 3 \/ i = 4 \/ i = 5
  OBVIOUS
<1>4. \A i \in 1 .. 5 : T[i] # LF
  BY <1>1, <1>2, <1>3
<1>5. Whole(T)
  BY <1>1, <1>2, <1>4 DEF Whole, PlainLine
<1>6. hits = {}
  <2> SUFFICES ASSUME NEW j \in hits PROVE FALSE
    OBVIOUS
  <2>1. j \in 1 .. 3 /\ SubSeq(T, j, j + 2) = <<SP, Keyword.fetch, SP>>
    BY <1>1
  <2> HIDE DEF hits
  <2>2. j \in Nat \ {0} /\ j + 2 <= Len(T) /\ j + 2 \in Nat
    BY <1>1, <2>1
  <2>3. SubSeq(T, j, j + 2)[2] = T[j + 2 - 1]
    <3> DEFINE w == SubSeq(T, j, j + 2)
    <3>1. Len(w) = (j + 2) - j + 1 /\ \A i \in 1 .. ((j + 2) - j + 1) : w[i] = T[j + i - 1]
      <4>1. j \in 1 .. Len(T) /\ j + 2 \in 1 .. Len(T) /\ T \in Seq(Nat)
        BY <1>1, <2>1 DEF Text
      <4> QED
        BY <1>1, <2>1, <4>1
    <3> HIDE DEF w
    <3>2. 2 \in 1 .. ((j + 2) - j + 1)
      BY <2>2
    <3> QED
      BY <3>1, <3>2 DEF w
  <2>4. T[j + 2 - 1] = Keyword.fetch
    <3>1. <<SP, Keyword.fetch, SP>>[2] = Keyword.fetch
      OBVIOUS
    <3>2. SubSeq(T, j, j + 2)[2] = <<SP, Keyword.fetch, SP>>[2]
      BY <2>1
    <3> QED
      BY <2>3, <3>1, <3>2
  <2>5. j + 2 - 1 = 2 \/ j + 2 - 1 = 3 \/ j + 2 - 1 = 4
    BY <2>1
  <2> QED
    BY <1>1, <1>2, <2>4, <2>5
<1>7. FetchItems(T) = 0
  BY <1>6 DEF FetchItems
<1>8. MetaItems(T) = <<>>
  BY <1>7 DEF MetaItems, Items
<1>9. Under(<<>>, <<Keyword.uid>>) = {}
  BY DEF Under
<1> QED
  BY <1>1, <1>5, <1>8, <1>9 DEF T

----------------------------------------------------------------------------
(* parseFetchResponse().                                                   *)

\* One of the five forms of a line.
MetaForm(f, a, b, c, d, e) ==
  CASE f = "asked" -> a [] f = "reordered" -> b [] f = "list item" -> c [] f = "no uid" -> d [] f = "exists" -> e

\* The items of a line, and the line without its end.
SizeItem(s) == <<Keyword.size, SP, Number(s)>>
AskedRow(m) == Row(UidItem(m.uid), FlagsItem(m.words), DateItem(Number(m.size + 1)), SizeItem(m.size))
ReorderedRow(m) == Row(DateItem(Number(m.size + 1)), SizeItem(m.size), FlagsItem(m.words), UidItem(m.uid))
OtherRow(m) == Row(UidItem(m.uid) \o OtherItem, SizeItem(m.size), DateItem(Number(m.size + 1)), FlagsItem(m.words))
MetaText(l) ==
  MetaForm(l.form, FetchText(AskedRow(l.m)), FetchText(ReorderedRow(l.m)), FetchText(OtherRow(l.m)),
           FetchText(FlagsItem(l.m.words)), ExistsText)

\* A message that may be listed, and a line about one.
Listable(m) == m.uid \in Nat /\ m.size \in Nat /\ m.words \in Seq(FlagWords)
Names(l) == l.form \notin {"no uid", "exists"}

\* The lines, as they are written.
LEMMA MetaLineForm ==
  ASSUME NEW l, Listable(l.m)
  PROVE  MetaLine(l) = MetaForm(l.form, FetchLine(AskedRow(l.m)), FetchLine(ReorderedRow(l.m)), FetchLine(OtherRow(l.m)),
                                FetchLine(FlagsItem(l.m.words)), ExistsText \o EOL)
<1> DEFINE u == UidItem(l.m.uid)
           f == FlagsItem(l.m.words)
           s == SizeItem(l.m.size)
           d == DateItem(Number(l.m.size + 1))
           o == <<SP, Keyword.other, SP, LP, Number(4), RP, SP>>
           x1 == u \o <<SP>> \o f \o <<SP>> \o d \o <<SP>> \o s
           x2 == d \o <<SP>> \o s \o <<SP>> \o f \o <<SP>> \o u
           x3 == u \o o \o s \o <<SP>> \o d \o <<SP>> \o f
<1>1. MetaLine(l) = MetaForm(l.form, FetchLine(x1), FetchLine(x2), FetchLine(x3), FetchLine(f), ExistsText \o EOL)
  BY Zenon DEF MetaLine, MetaForm, SizeItem, DateItem, ExistsText
<1>2. x1 = AskedRow(l.m) /\ x2 = ReorderedRow(l.m)
  BY Zenon DEF AskedRow, ReorderedRow, Row
<1>3. o = OtherItem \o <<SP>>
  BY OtherThenSpace
<1>4. u \in Text /\ OtherItem \in Text /\ <<SP>> \in Text
  <2>1. l.m.uid \in Nat
    BY DEF Listable
  <2>2. OtherItem \in Text
    BY DEF OtherItem, Text, SP, Keyword, LP, RP, Number
  <2> QED
    BY <2>1, <2>2, UidItemIs, Octet
<1> DEFINE t == <<SP>>
<1>5. t = <<SP>>
  OBVIOUS
<1> HIDE DEF t
<1>6. Assoc(u, OtherItem, t)
  <2>1. u \in Seq(Nat) /\ OtherItem \in Seq(Nat) /\ t \in Seq(Nat)
    BY <1>4, <1>5 DEF Text
  <2> HIDE DEF u
  <2> QED
    BY <2>1, ConcatAssoc
<1>7. u \o o = (u \o OtherItem) \o <<SP>>
  BY <1>3, <1>5, <1>6 DEF Assoc
<1>8. x3 = OtherRow(l.m)
  <2>1. x3 = ((((u \o o) \o s) \o <<SP>>) \o d) \o <<SP>> \o f
    OBVIOUS
  <2>2. OtherRow(l.m) = (((((u \o OtherItem) \o <<SP>>) \o s) \o <<SP>>) \o d) \o <<SP>> \o f
    BY Zenon DEF OtherRow, Row
  <2> DEFINE y == u \o o
             z == (u \o OtherItem) \o <<SP>>
  <2>3. x3 = (((y \o s) \o <<SP>>) \o d) \o <<SP>> \o f
    BY <2>1
  <2>4. OtherRow(l.m) = (((z \o s) \o <<SP>>) \o d) \o <<SP>> \o f
    BY <2>2
  <2>5. y = z
    BY <1>7
  <2> HIDE DEF x3, y, z, u, o, s, d, f
  <2> QED
    BY <2>3, <2>4, <2>5
<1> HIDE DEF x1, x2, x3, f
<1>9. MetaLine(l) = MetaForm(l.form, FetchLine(AskedRow(l.m)), FetchLine(ReorderedRow(l.m)), FetchLine(OtherRow(l.m)),
                             FetchLine(f), ExistsText \o EOL)
  BY <1>1, <1>2, <1>8
<1> QED
  BY <1>9 DEF f

\* A row of a UID, flags, a date and a size gives them.
LEMMA RowGives ==
  ASSUME NEW m, Listable(m), NEW X, Fits(X), MetaItems(FetchText(X)) \in Seq(Item),
         Gets(X, Keyword.uid, <<Number(m.uid)>>), Gets(X, Keyword.flags, ListText(m.words)),
         Gets(X, Keyword.date, <<Number(m.size + 1)>>), Gets(X, Keyword.size, <<Number(m.size)>>)
  PROVE  MetaGives(MetaItems(FetchText(X)), m.uid, m.words, m.size)
<1> DEFINE I == MetaItems(FetchText(X))
<1>1. m.uid \in Nat /\ m.size \in Nat /\ m.words \in Seq(FlagWords)
  BY DEF Listable
<1>2. /\ HasOnly(I, Keyword.uid, <<Number(m.uid)>>) /\ HasOnly(I, Keyword.flags, ListText(m.words))
      /\ HasOnly(I, Keyword.date, <<Number(m.size + 1)>>) /\ HasOnly(I, Keyword.size, <<Number(m.size)>>)
  BY DEF Gets
<1>3. I \in Seq(Item)
  OBVIOUS
<1> HIDE DEF I
<1>4. MetaGives(I, m.uid, m.words, m.size)
  BY <1>1, <1>2, <1>3, Metas
<1> QED
  BY <1>4 DEF I

\* A line that gives a message and what is said of it.
Full(X, m) == Fits(X) /\ MetaGives(MetaItems(FetchText(X)), m.uid, m.words, m.size)

\* The three forms that name a message are such lines, and flags alone are none.
LEMMA RowsAre ==
  ASSUME NEW m, Listable(m)
  PROVE  Full(AskedRow(m), m) /\ Full(ReorderedRow(m), m) /\ Full(OtherRow(m), m)
         /\ Fits(FlagsItem(m.words)) /\ Under(MetaItems(FetchText(FlagsItem(m.words))), <<Keyword.uid>>) = {}
<1> DEFINE u == UidItem(m.uid)
           f == FlagsItem(m.words)
           s == SizeItem(m.size)
           d == DateItem(Number(m.size + 1))
           w == UidItem(m.uid) \o OtherItem
           kf == Keyword.flags
           ku == Keyword.uid
           kd == Keyword.date
           ks == Keyword.size
           vu == <<Number(m.uid)>>
           vf == ListText(m.words)
           vd == <<Number(m.size + 1)>>
           vs == <<Number(m.size)>>
<1>0. m.uid \in Nat /\ m.size \in Nat /\ m.size + 1 \in Nat /\ m.words \in Seq(FlagWords)
  BY DEF Listable
<1>1. Piece(u, ku, vu) /\ Piece(f, kf, vf)
  BY <1>0, Pieces
<1>2. Piece(s, ks, vs)
  BY <1>0, Pieces DEF SizeItem
<1>3. Piece(d, kd, vd)
  BY <1>0, Pieces
<1>4. Piece(w, ku, vu)
  BY <1>0, UidOther
<1>5. ku # kf /\ ku # kd /\ ku # ks /\ kf # kd /\ kf # ks /\ kd # ks /\ ku = Keyword.uid
  BY MetaOctet
<1> DEFINE r1 == Row(u, f, d, s)
           r2 == Row(d, s, f, u)
           r3 == Row(w, s, d, f)
<1>r1. r1 = AskedRow(m)
  BY Zenon DEF AskedRow
<1>r2. r2 = ReorderedRow(m)
  BY Zenon DEF ReorderedRow
<1>r3. r3 = OtherRow(m)
  BY Zenon DEF OtherRow
<1>g. ASSUME NEW X, Fits(X), MetaItems(FetchText(X)) \in Seq(Item), Gets(X, ku, vu), Gets(X, kf, vf), Gets(X, kd, vd), Gets(X, ks, vs)
      PROVE  Full(X, m)
  BY <1>g, RowGives DEF Full
<1> HIDE DEF u, f, s, d, w, ku, kf, kd, ks, vu, vf, vd, vs
<1>6. Full(r1, m)
  <2> DEFINE X == r1
  <2>1. X = Row(u, f, d, s)
    OBVIOUS
  <2> HIDE DEF X
  <2>2. Fits(X) /\ MetaItems(FetchText(X)) \in Seq(Item) /\ Gets(X, ku, vu) /\ Gets(X, kf, vf) /\ Gets(X, kd, vd) /\ Gets(X, ks, vs)
    BY <1>1, <1>2, <1>3, <1>5, <2>1, FourPieces
  <2> QED
    BY <1>g, <2>2 DEF X
<1>7. Full(r2, m)
  <2> DEFINE X == r2
  <2>1. X = Row(d, s, f, u)
    OBVIOUS
  <2> HIDE DEF X
  <2>2. Fits(X) /\ MetaItems(FetchText(X)) \in Seq(Item) /\ Gets(X, ku, vu) /\ Gets(X, kf, vf) /\ Gets(X, kd, vd) /\ Gets(X, ks, vs)
    BY <1>1, <1>2, <1>3, <1>5, <2>1, FourPieces
  <2> QED
    BY <1>g, <2>2 DEF X
<1>8. Full(r3, m)
  <2> DEFINE X == r3
  <2>1. X = Row(w, s, d, f)
    OBVIOUS
  <2> HIDE DEF X
  <2>2. Fits(X) /\ MetaItems(FetchText(X)) \in Seq(Item) /\ Gets(X, ku, vu) /\ Gets(X, kf, vf) /\ Gets(X, kd, vd) /\ Gets(X, ks, vs)
    BY <1>1, <1>2, <1>3, <1>4, <1>5, <2>1, FourPieces
  <2> QED
    BY <1>g, <2>2 DEF X
<1>9. Fits(f) /\ Under(MetaItems(FetchText(f)), <<Keyword.uid>>) = {}
  BY <1>1, <1>5, OnePiece
<1> QED
  BY <1>6, <1>7, <1>8, <1>9, <1>r1, <1>r2, <1>r3 DEF f

\* Every line is read whole; one that names a message gives what it says of it,
\* and the others give nothing.
LEMMA MetaLineIs ==
  ASSUME NEW l, Listable(l.m), l.form \in MetaForms
  PROVE  /\ MetaText(l) \in Text /\ MetaLine(l) = MetaText(l) \o EOL /\ Whole(MetaText(l))
         /\ Names(l) => MetaGives(MetaItems(MetaText(l)), l.m.uid, l.m.words, l.m.size)
         /\ ~Names(l) => Under(MetaItems(MetaText(l)), <<Keyword.uid>>) = {}
<1> DEFINE a == AskedRow(l.m)
           b == ReorderedRow(l.m)
           c == OtherRow(l.m)
           d == FlagsItem(l.m.words)
           m == l.m
<1>1. Full(a, m) /\ Full(b, m) /\ Full(c, m) /\ Fits(d) /\ Under(MetaItems(FetchText(d)), <<Keyword.uid>>) = {}
  BY RowsAre
<1>2. MetaLine(l) = MetaForm(l.form, FetchLine(a), FetchLine(b), FetchLine(c), FetchLine(d), ExistsText \o EOL)
  BY MetaLineForm
<1>3. MetaText(l) = MetaForm(l.form, FetchText(a), FetchText(b), FetchText(c), FetchText(d), ExistsText)
  BY DEF MetaText
<1>4. l.form = "asked" \/ l.form = "reordered" \/ l.form = "list item" \/ l.form = "no uid" \/ l.form = "exists"
  BY DEF MetaForms
<1>m. m = l.m
  OBVIOUS
<1> HIDE DEF a, b, c, d, m
<1>5. CASE l.form = "asked"
  <2>1. MetaText(l) = FetchText(a) /\ MetaLine(l) = FetchLine(a) /\ Names(l)
    BY <1>2, <1>3, <1>5 DEF MetaForm, Names
  <2> QED
    BY <1>1, <1>m, <2>1 DEF Full, Fits
<1>6. CASE l.form = "reordered"
  <2>1. MetaText(l) = FetchText(b) /\ MetaLine(l) = FetchLine(b) /\ Names(l)
    BY <1>2, <1>3, <1>6 DEF MetaForm, Names
  <2> QED
    BY <1>1, <1>m, <2>1 DEF Full, Fits
<1>7. CASE l.form = "list item"
  <2>1. MetaText(l) = FetchText(c) /\ MetaLine(l) = FetchLine(c) /\ Names(l)
    BY <1>2, <1>3, <1>7 DEF MetaForm, Names
  <2> QED
    BY <1>1, <1>m, <2>1 DEF Full, Fits
<1>8. CASE l.form = "no uid"
  <2>1. MetaText(l) = FetchText(d) /\ MetaLine(l) = FetchLine(d) /\ ~Names(l)
    BY <1>2, <1>3, <1>8 DEF MetaForm, Names
  <2> QED
    BY <1>1, <2>1 DEF Fits
<1>9. CASE l.form = "exists"
  <2>1. MetaText(l) = ExistsText /\ MetaLine(l) = ExistsText \o EOL /\ ~Names(l)
    BY <1>2, <1>3, <1>9 DEF MetaForm, Names
  <2> QED
    BY <2>1, ExistsIs
<1> QED
  BY <1>4, <1>5, <1>6, <1>7, <1>8, <1>9

\* The listing the lines spell.
ListingOf(lines) == Keep([k \in DOMAIN lines |-> Listed(lines[k])], {k \in DOMAIN lines : lines[k].form \notin {"no uid", "exists"}})

\* parseFetchResponse() on the octets of any lines the server may send.
LEMMA ParsedListing ==
  ASSUME NEW n \in Nat, NEW lines, DOMAIN lines = 1 .. n, \A k \in 1 .. n : Listable(lines[k].m) /\ lines[k].form \in MetaForms
  PROVE  parseFetchResponse(FlattenSeq([k \in DOMAIN lines |-> MetaLine(lines[k])])) = ListingOf(lines)
<1> DEFINE Ts == [k \in 1 .. n |-> MetaText(lines[k])]
           answer0 == FlattenSeq([k \in DOMAIN lines |-> MetaLine(lines[k])])
           items == [k \in DOMAIN Ts |-> MetaItems(Ts[k])]
           found == [k \in DOMAIN Ts |-> MetaOf(items[k])]
           K == {k \in DOMAIN Ts : Under(items[k], <<Keyword.uid>>) # {}}
           wanted == [k \in DOMAIN lines |-> Listed(lines[k])]
           W == {k \in DOMAIN lines : lines[k].form \notin {"no uid", "exists"}}
<1>1. \A k \in 1 .. n : /\ MetaText(lines[k]) \in Text /\ MetaLine(lines[k]) = MetaText(lines[k]) \o EOL /\ Whole(MetaText(lines[k]))
                        /\ Names(lines[k]) => MetaGives(MetaItems(MetaText(lines[k])), lines[k].m.uid, lines[k].m.words, lines[k].m.size)
                        /\ ~Names(lines[k]) => Under(MetaItems(MetaText(lines[k])), <<Keyword.uid>>) = {}
  BY MetaLineIs
<1>2. Ts \in Seq(Text) /\ DOMAIN Ts = 1 .. n /\ \A k \in 1 .. n : Ts[k] = MetaText(lines[k])
  <2>1. Ts \in [1 .. n -> Text]
    BY <1>1
  <2> QED
    BY <2>1
<1>3. answer0 = FlattenSeq([k \in DOMAIN Ts |-> Ts[k] \o EOL])
  <2>1. [k \in DOMAIN lines |-> MetaLine(lines[k])] = [k \in DOMAIN Ts |-> Ts[k] \o EOL]
    BY <1>1, <1>2
  <2> QED
    BY <2>1
<1> HIDE DEF Ts, answer0
<1>4. splitLines(answer0) = Ts
  BY <1>1, <1>2, <1>3, SplitLines
<1>5. parseFetchResponse(answer0) = Keep(found, K)
  BY <1>4 DEF parseFetchResponse
<1>6. \A k \in 1 .. n : items[k] = MetaItems(MetaText(lines[k])) /\ found[k] = MetaOf(items[k]) /\ (k \in K <=> Under(items[k], <<Keyword.uid>>) # {})
  BY <1>2
<1>7. DOMAIN found = 1 .. n /\ DOMAIN wanted = 1 .. n
  BY <1>2
<1>8. \A k \in 1 .. n : wanted[k] = Listed(lines[k]) /\ (k \in W <=> Names(lines[k]))
  BY DEF Names
<1>9. \A l : Listed(l) = Info(l.m.uid, l.m.words, l.m.size)
  BY Zenon DEF Listed, Info
<1> HIDE DEF items, found, K, wanted, W
<1>10. \A k \in 1 .. n : (k \in K <=> k \in W) /\ (k \in K => found[k] = wanted[k])
  <2> SUFFICES ASSUME NEW k \in 1 .. n PROVE (k \in K <=> k \in W) /\ (k \in K => found[k] = wanted[k])
    OBVIOUS
  <2>1. CASE Names(lines[k])
    <3>1. MetaGives(items[k], lines[k].m.uid, lines[k].m.words, lines[k].m.size)
      BY <1>1, <1>6, <2>1
    <3> QED
      BY <1>6, <1>8, <1>9, <2>1, <3>1 DEF MetaGives
  <2>2. CASE ~Names(lines[k])
    BY <1>1, <1>6, <1>8, <2>2
  <2> QED
    BY <2>1, <2>2
<1>11. Keep(found, K) = Keep(wanted, W)
  BY <1>7, <1>10, KeepSame
<1> QED
  BY <1>5, <1>11 DEF answer0, wanted, W, ListingOf

----------------------------------------------------------------------------
\* What listMessages() has to keep: its answer is made of lines the server may
\* send, and what it returns is their listing.
ListingInv ==
  op = "listing" =>
    /\ pc = "parse" =>
         /\ \E n \in Nat : DOMAIN meant = 1 .. n
         /\ \A k \in DOMAIN meant : Listable(meant[k].m) /\ meant[k].form \in MetaForms
         /\ answer = FlattenSeq([k \in DOMAIN meant |-> MetaLine(meant[k])])
    /\ pc = "done" => out = ListingOf(meant)

\* Every step preserves it.
LEMMA ListingStep == ListingInv /\ [Next]_vars => ListingInv'
<1> SUFFICES ASSUME ListingInv, [Next]_vars PROVE ListingInv'
  OBVIOUS
<1>1. CASE EmptyBatch \/ Request \/ Fails \/ AnswersBatch \/ AnswersFolders \/ AnswersSingle \/ HandOut \/ TakeSingle \/ TakeFolders
  <2>1. op' = op /\ (op = "listing" => pc' \notin {"parse", "done"})
    BY <1>1 DEF EmptyBatch, Request, Fails, AnswersBatch, AnswersFolders, AnswersSingle, HandOut, TakeSingle, TakeFolders, Answered, Returns
  <2> QED
    BY <2>1 DEF ListingInv
<1>2. CASE AnswersListing
  <2>1. PICK lines \in LinesOf([m : Mailbox, form : MetaForms]) : Answered(lines, FlattenSeq([k \in DOMAIN lines |-> MetaLine(lines[k])]))
    BY <1>2 DEF AnswersListing
  <2>2. pc' = "parse" /\ meant' = lines /\ answer' = FlattenSeq([k \in DOMAIN lines |-> MetaLine(lines[k])])
    BY <2>1 DEF Answered
  <2>3. PICK n \in 0 .. MaxLines : lines \in [1 .. n -> [m : Mailbox, form : MetaForms]]
    BY <2>1 DEF LinesOf
  <2>4. n \in Nat /\ DOMAIN lines = 1 .. n
    BY <2>3, FetchAssumption
  <2>5. \A m \in Mailbox : Listable(m)
    BY FetchAssumption DEF Listable
  <2>6. \A k \in DOMAIN lines : Listable(lines[k].m) /\ lines[k].form \in MetaForms
    BY <2>3, <2>5
  <2> QED
    BY <2>2, <2>4, <2>6 DEF ListingInv
<1>3. CASE TakeListing
  <2>1. pc = "parse" /\ op = "listing" /\ out' = parseFetchResponse(answer) /\ pc' = "done" /\ UNCHANGED <<op, meant>>
    BY <1>3 DEF TakeListing, Returns
  <2>2. PICK n \in Nat : DOMAIN meant = 1 .. n
    BY <2>1 DEF ListingInv
  <2>3. /\ \A k \in 1 .. n : Listable(meant[k].m) /\ meant[k].form \in MetaForms
        /\ answer = FlattenSeq([k \in DOMAIN meant |-> MetaLine(meant[k])])
    BY <2>1, <2>2 DEF ListingInv
  <2>4. out' = ListingOf(meant)
    BY <2>1, <2>2, <2>3, ParsedListing
  <2>5. ListingOf(meant)' = ListingOf(meant)
    BY <2>1 DEF ListingOf, Listed
  <2> QED
    BY <2>1, <2>4, <2>5 DEF ListingInv
<1>4. CASE UNCHANGED vars
  <2>1. UNCHANGED <<op, metas, pc, attempt, sent, meant, answer, out>>
    BY <1>4 DEF vars
  <2> QED
    BY <2>1 DEF ListingInv, ListingOf
<1> QED
  BY <1>1, <1>2, <1>3, <1>4 DEF Next

\* ListingExact, for every mailbox, all flags and every number of lines in any of
\* their forms: listMessages() returns the messages the server named, in order,
\* with their UIDs, flags, keywords, sizes and dates.
THEOREM ListingReturned == Spec => []ListingExact
<1>1. Init => ListingInv
  BY DEF Init, ListingInv
<1>2. ListingInv => ListingExact
  BY DEF ListingInv, ListingExact, ListingOf
<1> QED
  BY <1>1, <1>2, ListingStep, PTL DEF Spec
=============================================================================
