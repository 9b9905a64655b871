---------------------------- MODULE Blake2Proofs ----------------------------
(***************************************************************************)
(* That both ways of loading the message have the ten rounds right, and    *)
(* what Blake2 says of either kernel's loop, for every number of rounds    *)
(* and of calls.                                                           *)
(***************************************************************************)
EXTENDS Blake2, SequenceTheorems, TLAPS

(* What B2B_G makes of four words and two words of the message. *)
A1(a, b, c, d, x) == Plus({a, b, x})
D1(a, b, c, d, x) == Rotr(Xor({d, A1(a, b, c, d, x)}), 32)
C1(a, b, c, d, x) == Plus({c, D1(a, b, c, d, x)})
B1(a, b, c, d, x) == Rotr(Xor({b, C1(a, b, c, d, x)}), 24)
A2(a, b, c, d, x, y) == Plus({A1(a, b, c, d, x), B1(a, b, c, d, x), y})
D2(a, b, c, d, x, y) == Rotr(Xor({D1(a, b, c, d, x), A2(a, b, c, d, x, y)}), 16)
C2(a, b, c, d, x, y) == Plus({C1(a, b, c, d, x), D2(a, b, c, d, x, y)})
B2(a, b, c, d, x, y) == Rotr(Xor({B1(a, b, c, d, x), C2(a, b, c, d, x, y)}), 63)

Words(v) == v = [n \in 0 .. 15 |-> v[n]]

(* One call: the four lanes of w are those of v mixed. *)
MixedFrom(v, w, q, x, y) ==
  /\ w[q[1]] = A2(v[q[1]], v[q[2]], v[q[3]], v[q[4]], x, y)
  /\ w[q[2]] = B2(v[q[1]], v[q[2]], v[q[3]], v[q[4]], x, y)
  /\ w[q[3]] = C2(v[q[1]], v[q[2]], v[q[3]], v[q[4]], x, y)
  /\ w[q[4]] = D2(v[q[1]], v[q[2]], v[q[3]], v[q[4]], x, y)

LEMMA CallMixes ==
  ASSUME NEW v, Words(v), NEW x, NEW y, NEW q,
         \A j \in 1 .. 4 : q[j] \in 0 .. 15,
         \A j, k \in 1 .. 4 : j # k => q[j] # q[k],
         NEW w, w = B2B_G(v, q[1], q[2], q[3], q[4], x, y)
  PROVE  /\ Words(w) /\ MixedFrom(v, w, q, x, y)
         /\ \A n \in 0 .. 15 : (\A j \in 1 .. 4 : n # q[j]) => w[n] = v[n]
<1>1. PICK a \in 0 .. 15, b \in 0 .. 15, c \in 0 .. 15, d \in 0 .. 15 :
        a = q[1] /\ b = q[2] /\ c = q[3] /\ d = q[4]
  <2>1. q[1] \in 0 .. 15 /\ q[2] \in 0 .. 15 /\ q[3] \in 0 .. 15 /\ q[4] \in 0 .. 15
    OBVIOUS
  <2>. QED BY <2>1, Zenon
<1>2. a # b /\ a # c /\ a # d /\ b # c /\ b # d /\ c # d
  BY <1>1
<1> DEFINE a2 == A2(v[a], v[b], v[c], v[d], x, y)
           b2 == B2(v[a], v[b], v[c], v[d], x, y)
           c2 == C2(v[a], v[b], v[c], v[d], x, y)
           d2 == D2(v[a], v[b], v[c], v[d], x, y)
           f  == [v EXCEPT ![a] = a2, ![b] = b2, ![c] = c2, ![d] = d2]
<1>3. B2B_G(v, a, b, c, d, x, y) = f
  BY DEF B2B_G, A1, B1, C1, D1, A2, B2, C2, D2
<1> HIDE DEF a2, b2, c2, d2
<1>4. /\ Words(f) /\ f[a] = a2 /\ f[b] = b2 /\ f[c] = c2 /\ f[d] = d2
      /\ \A n \in 0 .. 15 : n \notin {a, b, c, d} => f[n] = v[n]
  BY <1>2 DEF Words
<1> HIDE DEF f
<1>5. MixedFrom(v, f, q, x, y)
  BY <1>1, <1>4, Zenon DEF MixedFrom, a2, b2, c2, d2
<1>6. \A n \in 0 .. 15 : (\A j \in 1 .. 4 : n # q[j]) => f[n] = v[n]
  BY <1>1, <1>4
<1>. QED BY <1>1, <1>3, <1>4, <1>5, <1>6, Zenon

(* The lanes of the eight calls. *)
LEMMA QuadsRows ==
  /\ Quads[1][1] = 0 /\ Quads[1][2] = 4 /\ Quads[1][3] = 8 /\ Quads[1][4] = 12
  /\ Quads[2][1] = 1 /\ Quads[2][2] = 5 /\ Quads[2][3] = 9 /\ Quads[2][4] = 13
  /\ Quads[3][1] = 2 /\ Quads[3][2] = 6 /\ Quads[3][3] = 10 /\ Quads[3][4] = 14
  /\ Quads[4][1] = 3 /\ Quads[4][2] = 7 /\ Quads[4][3] = 11 /\ Quads[4][4] = 15
  /\ Quads[5][1] = 0 /\ Quads[5][2] = 5 /\ Quads[5][3] = 10 /\ Quads[5][4] = 15
  /\ Quads[6][1] = 1 /\ Quads[6][2] = 6 /\ Quads[6][3] = 11 /\ Quads[6][4] = 12
  /\ Quads[7][1] = 2 /\ Quads[7][2] = 7 /\ Quads[7][3] = 8 /\ Quads[7][4] = 13
  /\ Quads[8][1] = 3 /\ Quads[8][2] = 4 /\ Quads[8][3] = 9 /\ Quads[8][4] = 14
  BY DEF Quads

LEMMA LanesInRows ==
  \A k \in 1 .. 8, j \in 1 .. 4 : Quads[k][j] \in 4 * j - 4 .. 4 * j - 1
<1>. SUFFICES ASSUME NEW k \in 1 .. 8, NEW j \in 1 .. 4
              PROVE  Quads[k][j] \in 4 * j - 4 .. 4 * j - 1
  OBVIOUS
<1>1. j = 1 \/ j = 2 \/ j = 3 \/ j = 4
  OBVIOUS
<1>2. k = 1 \/ k = 2 \/ k = 3 \/ k = 4 \/ k = 5 \/ k = 6 \/ k = 7 \/ k = 8
  OBVIOUS
<1>. QED BY <1>1, <1>2, QuadsRows

LEMMA LanesApart ==
  \A e \in {0, 4}, l \in 1 .. 4, m \in 1 .. 4, j \in 1 .. 4 :
    l # m => Quads[e + l][j] # Quads[e + m][j]
<1>. SUFFICES ASSUME NEW e \in {0, 4}, NEW l \in 1 .. 4, NEW m \in 1 .. 4, NEW j \in 1 .. 4, l # m
              PROVE  Quads[e + l][j] # Quads[e + m][j]
  OBVIOUS
<1>1. j = 1 \/ j = 2 \/ j = 3 \/ j = 4
  OBVIOUS
<1>. QED BY <1>1, QuadsRows

(* The words of the message that the k-th call is given. *)
X(r, k) == M(sigma[r + 1][2 * k - 1])
Y(r, k) == M(sigma[r + 1][2 * k])

Mix(v, r, k) == B2B_G(v, Quads[k][1], Quads[k][2], Quads[k][3], Quads[k][4], X(r, k), Y(r, k))

(* The calls of a scalar round, one after the other. *)
LEMMA RoundUnfolds ==
  ASSUME NEW r \in Round
  PROVE  \E v : /\ v[0] = Before /\ v[8] = GenericRound(r)
                /\ \A k \in 1 .. 8 : v[k] = Mix(v[k - 1], r, k)
<1> DEFINE Meets(v) == v = [k \in 0 .. 8 |->
                              IF k = 0 THEN Before ELSE Mix(v[k - 1], r, k)]
           s == CHOOSE v : Meets(v)
<1>1. GenericRound(r) = s[8]
  BY DEF GenericRound, Mix, X, Y
<1>2. \E v : Meets(v)
  <2> DEFINE v1 == Mix(Before, r, 1)
             v2 == Mix(v1, r, 2)
             v3 == Mix(v2, r, 3)
             v4 == Mix(v3, r, 4)
             v5 == Mix(v4, r, 5)
             v6 == Mix(v5, r, 6)
             v7 == Mix(v6, r, 7)
             v8 == Mix(v7, r, 8)
             f == [k \in 0 .. 8 |-> IF k = 0 THEN Before ELSE <<v1, v2, v3, v4, v5, v6, v7, v8>>[k]]
  <2>1. /\ v2 = Mix(v1, r, 2) /\ v3 = Mix(v2, r, 3) /\ v4 = Mix(v3, r, 4)
        /\ v5 = Mix(v4, r, 5) /\ v6 = Mix(v5, r, 6) /\ v7 = Mix(v6, r, 7)
        /\ v8 = Mix(v7, r, 8) /\ v1 = Mix(Before, r, 1)
    OBVIOUS
  <2> HIDE DEF v1, v2, v3, v4, v5, v6, v7, v8
  <2>2. /\ f[0] = Before /\ f[1] = v1 /\ f[2] = v2 /\ f[3] = v3 /\ f[4] = v4 /\ f[5] = v5
        /\ f[6] = v6 /\ f[7] = v7 /\ f[8] = v8
    OBVIOUS
  <2> DEFINE dom == 0 .. 8
  <2>3. f = [k \in dom |-> f[k]]
    OBVIOUS
  <2> HIDE DEF f
  <2>4. ASSUME NEW k \in dom PROVE f[k] = IF k = 0 THEN Before ELSE Mix(f[k - 1], r, k)
    <3>1. k = 0 \/ k = 1 \/ k = 2 \/ k = 3 \/ k = 4 \/ k = 5 \/ k = 6 \/ k = 7 \/ k = 8
      OBVIOUS
    <3>. QED BY <2>1, <2>2, <3>1
  <2> HIDE DEF dom
  <2>5. f = [k \in dom |-> IF k = 0 THEN Before ELSE Mix(f[k - 1], r, k)]
    BY <2>3, <2>4, Zenon
  <2>. QED BY <2>5, Zenon DEF dom
<1> HIDE DEF Meets
<1>3. Meets(s)
  BY <1>2
<1> HIDE DEF s
<1>4. \A k \in 0 .. 8 : s[k] = IF k = 0 THEN Before ELSE Mix(s[k - 1], r, k)
  BY <1>3 DEF Meets
<1>5. s[0] = Before
  BY <1>4
<1>6. \A k \in 1 .. 8 : s[k] = Mix(s[k - 1], r, k)
  BY <1>4
<1>. QED BY <1>1, <1>5, <1>6, Zenon

(* After k of the four calls of a half round that starts from u. *)
Partly(u, v, r, e, k) ==
  /\ Words(v)
  /\ \A l \in 1 .. k : MixedFrom(u, v, Quads[e + l], X(r, e + l), Y(r, e + l))
  /\ \A l \in k + 1 .. 4, j \in 1 .. 4 : v[Quads[e + l][j]] = u[Quads[e + l][j]]

LEMMA OneCall ==
  ASSUME NEW u, NEW v, NEW r, NEW e \in {0, 4}, NEW k \in 1 .. 4,
         Partly(u, v, r, e, k - 1)
  PROVE  Partly(u, Mix(v, r, e + k), r, e, k)
<1> DEFINE n == e + k
           q == Quads[n]
           w == Mix(v, r, n)
<1>1. n \in 1 .. 8
  OBVIOUS
<1>2. \A j \in 1 .. 4 : q[j] \in 0 .. 15
  BY <1>1, LanesInRows
<1>3. \A j, m \in 1 .. 4 : j # m => q[j] # q[m]
  BY <1>1, LanesInRows
<1>4. \A m \in 1 .. 4, j, h \in 1 .. 4 : m # k => Quads[e + m][j] # q[h]
  <2> SUFFICES ASSUME NEW m \in 1 .. 4, NEW j \in 1 .. 4, NEW h \in 1 .. 4, m # k
               PROVE  Quads[e + m][j] # q[h]
    OBVIOUS
  <2>1. CASE j = h
    BY <2>1, LanesApart
  <2>2. CASE j # h
    <3>1. e + m \in 1 .. 8
      OBVIOUS
    <3>2. Quads[e + m][j] \in 4 * j - 4 .. 4 * j - 1 /\ q[h] \in 4 * h - 4 .. 4 * h - 1
      BY <1>1, <3>1, LanesInRows
    <3> HIDE DEF q
    <3>. QED BY <2>2, <3>2
  <2>. QED BY <2>1, <2>2
<1>5. \A m \in 1 .. 4, j \in 1 .. 4 : Quads[e + m][j] \in 0 .. 15
  <2> SUFFICES ASSUME NEW m \in 1 .. 4, NEW j \in 1 .. 4 PROVE Quads[e + m][j] \in 0 .. 15
    OBVIOUS
  <2>1. e + m \in 1 .. 8
    OBVIOUS
  <2>. QED BY <2>1, LanesInRows
<1>6. w = B2B_G(v, q[1], q[2], q[3], q[4], X(r, n), Y(r, n))
  BY DEF Mix
<1>7. Words(v)
  BY DEF Partly
<1> HIDE DEF n, q, w
<1>8. /\ Words(w) /\ MixedFrom(v, w, q, X(r, n), Y(r, n))
      /\ \A h \in 0 .. 15 : (\A j \in 1 .. 4 : h # q[j]) => w[h] = v[h]
  BY <1>2, <1>3, <1>6, <1>7, CallMixes
<1>9. \A m \in 1 .. 4, j \in 1 .. 4 : m # k => w[Quads[e + m][j]] = v[Quads[e + m][j]]
  BY <1>4, <1>5, <1>8, Zenon
<1>10. \A j \in 1 .. 4 : v[q[j]] = u[q[j]]
  BY DEF Partly, q, n
<1>11. MixedFrom(u, w, q, X(r, n), Y(r, n))
  BY <1>8, <1>10 DEF MixedFrom
<1>12. ASSUME NEW l \in 1 .. k PROVE MixedFrom(u, w, Quads[e + l], X(r, e + l), Y(r, e + l))
  <2>1. CASE l = k
    BY <1>11, <2>1 DEF q, n
  <2>2. CASE l # k
    <3>1. l \in 1 .. k - 1 /\ l \in 1 .. 4
      BY <2>2
    <3>2. MixedFrom(u, v, Quads[e + l], X(r, e + l), Y(r, e + l))
      BY <3>1, Zenon DEF Partly
    <3>3. \A j \in 1 .. 4 : w[Quads[e + l][j]] = v[Quads[e + l][j]]
      BY <1>9, <2>2, <3>1, Zenon
    <3>. QED BY <3>2, <3>3 DEF MixedFrom
  <2>. QED BY <2>1, <2>2
<1>13. ASSUME NEW l \in k + 1 .. 4, NEW j \in 1 .. 4 PROVE w[Quads[e + l][j]] = u[Quads[e + l][j]]
  <2>1. l \in 1 .. 4 /\ l # k /\ l \in k - 1 + 1 .. 4
    OBVIOUS
  <2>2. v[Quads[e + l][j]] = u[Quads[e + l][j]]
    BY <2>1, Zenon DEF Partly
  <2>. QED BY <1>9, <2>1, <2>2, Zenon
<1>14. Partly(u, w, r, e, k)
  BY <1>8, <1>12, <1>13, Zenon DEF Partly
<1>. QED BY <1>14 DEF w, n

LEMMA FourCalls ==
  ASSUME NEW u, Words(u), NEW r, NEW e \in {0, 4}, NEW v, v[e] = u,
         \A k \in 1 .. 8 : v[k] = Mix(v[k - 1], r, k)
  PROVE  Words(v[e + 4]) /\ \A l \in 1 .. 4 :
           MixedFrom(u, v[e + 4], Quads[e + l], X(r, e + l), Y(r, e + l))
<1>1. Partly(u, v[e], r, e, 0)
  BY DEF Partly
<1>2. ASSUME NEW k \in 1 .. 4, Partly(u, v[e + k - 1], r, e, k - 1)
      PROVE  Partly(u, v[e + k], r, e, k)
  <2>1. v[e + k] = Mix(v[e + k - 1], r, e + k)
    <3>1. e + k \in 1 .. 8
      OBVIOUS
    <3>. QED BY <3>1
  <2>. QED BY <1>2, <2>1, OneCall
<1>3. Partly(u, v[e + 1], r, e, 1)
  BY <1>1, <1>2
<1>4. Partly(u, v[e + 2], r, e, 2)
  BY <1>3, <1>2
<1>5. Partly(u, v[e + 3], r, e, 3)
  BY <1>4, <1>2
<1>6. Partly(u, v[e + 4], r, e, 4)
  BY <1>5, <1>2
<1>. QED BY <1>6, Zenon DEF Partly

(* A round is four calls on the columns and four on the diagonals. *)
LEMMA RoundMixes ==
  ASSUME NEW r \in Round
  PROVE  Words(GenericRound(r)) /\ \E u : Words(u) /\ \A l \in 1 .. 4 :
           /\ MixedFrom(Before, u, Quads[l], X(r, l), Y(r, l))
           /\ MixedFrom(u, GenericRound(r), Quads[4 + l], X(r, 4 + l), Y(r, 4 + l))
<1>1. PICK v : /\ v[0] = Before /\ v[8] = GenericRound(r)
               /\ \A k \in 1 .. 8 : v[k] = Mix(v[k - 1], r, k)
  BY RoundUnfolds
<1>2. Words(Before)
  BY DEF Words, Before
<1>3. Words(v[4]) /\ \A l \in 1 .. 4 : MixedFrom(Before, v[4], Quads[l], X(r, l), Y(r, l))
  <2>1. Words(v[0 + 4]) /\ \A l \in 1 .. 4 :
          MixedFrom(Before, v[0 + 4], Quads[0 + l], X(r, 0 + l), Y(r, 0 + l))
    BY <1>1, <1>2, FourCalls
  <2>. QED BY <2>1
<1>4. /\ Words(v[8])
      /\ \A l \in 1 .. 4 : MixedFrom(v[4], v[8], Quads[4 + l], X(r, 4 + l), Y(r, 4 + l))
  <2>1. Words(v[4 + 4]) /\ \A l \in 1 .. 4 :
          MixedFrom(v[4], v[4 + 4], Quads[4 + l], X(r, 4 + l), Y(r, 4 + l))
    BY <1>1, <1>3, FourCalls
  <2>. QED BY <2>1
<1>. QED BY <1>1, <1>3, <1>4, Zenon

-----------------------------------------------------------------------------
(* The registers. *)

LEMMA Rotations == ROTATE24 = 24 /\ ROTATE16 = 16
<1> DEFINE Fits(from, n) == \A j \in 0 .. 7 : from[j + 1] = (j + n) % 8
<1>1. \A j \in 0 .. 7 : j = 0 \/ j = 1 \/ j = 2 \/ j = 3 \/ j = 4 \/ j = 5 \/ j = 6 \/ j = 7
  OBVIOUS
<1>2. Shift(<<3, 4, 5, 6, 7, 0, 1, 2>>) = 3
  <2> DEFINE s == <<3, 4, 5, 6, 7, 0, 1, 2>>
  <2>1. Fits(s, 3)
    BY <1>1
  <2>2. \A n \in 0 .. 7 : s[0 + 1] = (0 + n) % 8 => n = 3
    OBVIOUS
  <2>3. \A n \in 0 .. 7 : Fits(s, n) => n = 3
    BY <2>2
  <2> HIDE DEF s, Fits
  <2>4. (CHOOSE n \in 0 .. 7 : Fits(s, n)) = 3
    BY <2>1, <2>3
  <2>. QED BY <2>4 DEF Shift, s, Fits
<1>3. Shift(<<2, 3, 4, 5, 6, 7, 0, 1>>) = 2
  <2> DEFINE s == <<2, 3, 4, 5, 6, 7, 0, 1>>
  <2>1. Fits(s, 2)
    BY <1>1
  <2>2. \A n \in 0 .. 7 : s[0 + 1] = (0 + n) % 8 => n = 2
    OBVIOUS
  <2>3. \A n \in 0 .. 7 : Fits(s, n) => n = 2
    BY <2>2
  <2> HIDE DEF s, Fits
  <2>4. (CHOOSE n \in 0 .. 7 : Fits(s, n)) = 2
    BY <2>1, <2>3
  <2>. QED BY <2>4 DEF Shift, s, Fits
<1>. QED BY <1>2, <1>3 DEF ROTATE24, ROTATE16

(* The four lanes of a register are mixed side by side. *)
LEMMA RegistersMix ==
  ASSUME NEW p, NEW m, NEW n, NEW l \in 1 .. 4
  PROVE  LET q == G2_V1(G1_V1(p, m), n)
         IN /\ q.a[l] = A2(p.a[l], p.b[l], p.c[l], p.d[l], M(m[l]), M(n[l]))
            /\ q.b[l] = B2(p.a[l], p.b[l], p.c[l], p.d[l], M(m[l]), M(n[l]))
            /\ q.c[l] = C2(p.a[l], p.b[l], p.c[l], p.d[l], M(m[l]), M(n[l]))
            /\ q.d[l] = D2(p.a[l], p.b[l], p.c[l], p.d[l], M(m[l]), M(n[l]))
<1>1. PICK q : q = G1_V1(p, m)
  OBVIOUS
<1>2. /\ q.a[l] = A1(p.a[l], p.b[l], p.c[l], p.d[l], M(m[l]))
      /\ q.b[l] = B1(p.a[l], p.b[l], p.c[l], p.d[l], M(m[l]))
      /\ q.c[l] = C1(p.a[l], p.b[l], p.c[l], p.d[l], M(m[l]))
      /\ q.d[l] = D1(p.a[l], p.b[l], p.c[l], p.d[l], M(m[l]))
  BY <1>1, Rotations DEF G1_V1, G_V1, A1, B1, C1, D1, ROT32
<1>3. PICK w : w = G2_V1(q, n)
  OBVIOUS
<1>4. /\ w.a[l] = Plus({q.a[l], q.b[l], M(n[l])})
      /\ w.d[l] = Rotr(Xor({q.d[l], w.a[l]}), 16)
      /\ w.c[l] = Plus({q.c[l], w.d[l]})
      /\ w.b[l] = Rotr(Xor({q.b[l], w.c[l]}), 63)
  BY <1>3, Rotations DEF G2_V1, G_V1, ROT63
<1>5. /\ w.a[l] = A2(p.a[l], p.b[l], p.c[l], p.d[l], M(m[l]), M(n[l]))
      /\ w.b[l] = B2(p.a[l], p.b[l], p.c[l], p.d[l], M(m[l]), M(n[l]))
      /\ w.c[l] = C2(p.a[l], p.b[l], p.c[l], p.d[l], M(m[l]), M(n[l]))
      /\ w.d[l] = D2(p.a[l], p.b[l], p.c[l], p.d[l], M(m[l]), M(n[l]))
  BY <1>2, <1>4 DEF A2, B2, C2, D2
<1>. QED BY <1>1, <1>3, <1>5

LEMMA Turned ==
  ASSUME NEW x
  PROVE  /\ rotated(x, 1)[1] = x[2] /\ rotated(x, 1)[2] = x[3]
         /\ rotated(x, 1)[3] = x[4] /\ rotated(x, 1)[4] = x[1]
         /\ rotated(x, 2)[1] = x[3] /\ rotated(x, 2)[2] = x[4]
         /\ rotated(x, 2)[3] = x[1] /\ rotated(x, 2)[4] = x[2]
         /\ rotated(x, 3)[1] = x[4] /\ rotated(x, 3)[2] = x[1]
         /\ rotated(x, 3)[3] = x[2] /\ rotated(x, 3)[4] = x[3]
  BY DEF rotated

(* Turning changes three of the rows of a register file. *)
LEMMA MixIsRecord ==
  ASSUME NEW p, NEW m, NEW n
  PROVE  LET q == G2_V1(G1_V1(p, m), n) IN q = [a |-> q.a, b |-> q.b, c |-> q.c, d |-> q.d]
BY DEF G2_V1, G_V1

LEMMA DiagTurns ==
  ASSUME NEW q, q = [a |-> q.a, b |-> q.b, c |-> q.c, d |-> q.d]
  PROVE  LET t == DIAG_V1(q)
             z == UNDIAG_V1(q)
         IN /\ t.a = rotated(q.a, 3) /\ t.b = q.b /\ t.c = rotated(q.c, 1) /\ t.d = rotated(q.d, 2)
            /\ z.a = rotated(q.a, 1) /\ z.b = q.b /\ z.c = rotated(q.c, 3) /\ z.d = rotated(q.d, 2)
<1>1. DOMAIN q = {"a", "b", "c", "d"}
  OBVIOUS
<1>. QED BY <1>1 DEF DIAG_V1, UNDIAG_V1

(* The message words that the registers of a round have to hold: x and y of the
   calls on the columns, then of those on the diagonals, the last of them first. *)
Arranged(m, r) ==
  /\ \A l \in 1 .. 4 : m[1][l] = sigma[r + 1][2 * l - 1] /\ m[2][l] = sigma[r + 1][2 * l]
  /\ m[3][1] = sigma[r + 1][15] /\ m[4][1] = sigma[r + 1][16]
  /\ \A l \in 2 .. 4 : m[3][l] = sigma[r + 1][2 * l + 5] /\ m[4][l] = sigma[r + 1][2 * l + 6]

(* A round whose registers hold the words of row r of sigma makes what the
   scalar round makes. *)
LEMMA RoundRight ==
  ASSUME NEW r \in Round, NEW m, Arranged(m, r)
  PROVE  ROUND_V1(m) = GenericRound(r)
<1>1. PICK u : Words(u) /\ \A l \in 1 .. 4 :
           /\ MixedFrom(Before, u, Quads[l], X(r, l), Y(r, l))
           /\ MixedFrom(u, GenericRound(r), Quads[4 + l], X(r, 4 + l), Y(r, 4 + l))
  BY RoundMixes
<1>2. PICK g : g = GenericRound(r) /\ Words(g)
  BY RoundMixes
<1>3. PICK p : p = G2_V1(G1_V1(Rows(Before), m[1]), m[2])
  OBVIOUS
<1>4. p = [a |-> p.a, b |-> p.b, c |-> p.c, d |-> p.d]
  BY <1>3, MixIsRecord
<1>5. ASSUME NEW l \in 1 .. 4
      PROVE  p.a[l] = u[l - 1] /\ p.b[l] = u[l + 3] /\ p.c[l] = u[l + 7] /\ p.d[l] = u[l + 11]
  <2>1. Quads[l][1] = l - 1 /\ Quads[l][2] = l + 3 /\ Quads[l][3] = l + 7 /\ Quads[l][4] = l + 11
    BY QuadsRows
  <2>2. /\ Rows(Before).a[l] = Before[l - 1] /\ Rows(Before).b[l] = Before[l + 3]
        /\ Rows(Before).c[l] = Before[l + 7] /\ Rows(Before).d[l] = Before[l + 11]
    BY DEF Rows
  <2>3. M(m[1][l]) = X(r, l) /\ M(m[2][l]) = Y(r, l)
    BY DEF Arranged, X, Y
  <2>4. MixedFrom(Before, u, Quads[l], X(r, l), Y(r, l))
    BY <1>1
  <2>5. /\ p.a[l] = A2(Before[l - 1], Before[l + 3], Before[l + 7], Before[l + 11], X(r, l), Y(r, l))
        /\ p.b[l] = B2(Before[l - 1], Before[l + 3], Before[l + 7], Before[l + 11], X(r, l), Y(r, l))
        /\ p.c[l] = C2(Before[l - 1], Before[l + 3], Before[l + 7], Before[l + 11], X(r, l), Y(r, l))
        /\ p.d[l] = D2(Before[l - 1], Before[l + 3], Before[l + 7], Before[l + 11], X(r, l), Y(r, l))
    BY <1>3, <2>2, <2>3, RegistersMix
  <2>. QED BY <2>1, <2>4, <2>5 DEF MixedFrom
<1>6. PICK t : t = DIAG_V1(p)
  OBVIOUS
<1>7. /\ t.a[1] = u[3] /\ t.b[1] = u[4] /\ t.c[1] = u[9] /\ t.d[1] = u[14]
      /\ t.a[2] = u[0] /\ t.b[2] = u[5] /\ t.c[2] = u[10] /\ t.d[2] = u[15]
      /\ t.a[3] = u[1] /\ t.b[3] = u[6] /\ t.c[3] = u[11] /\ t.d[3] = u[12]
      /\ t.a[4] = u[2] /\ t.b[4] = u[7] /\ t.c[4] = u[8] /\ t.d[4] = u[13]
  <2>1. t.a = rotated(p.a, 3) /\ t.b = p.b /\ t.c = rotated(p.c, 1) /\ t.d = rotated(p.d, 2)
    BY <1>4, <1>6, DiagTurns
  <2>2. /\ p.a[1] = u[0] /\ p.a[2] = u[1] /\ p.a[3] = u[2] /\ p.a[4] = u[3]
        /\ p.b[1] = u[4] /\ p.b[2] = u[5] /\ p.b[3] = u[6] /\ p.b[4] = u[7]
        /\ p.c[1] = u[8] /\ p.c[2] = u[9] /\ p.c[3] = u[10] /\ p.c[4] = u[11]
        /\ p.d[1] = u[12] /\ p.d[2] = u[13] /\ p.d[3] = u[14] /\ p.d[4] = u[15]
    BY <1>5
  <2>. QED BY <2>1, <2>2, Turned
<1>8. PICK w : w = G2_V1(G1_V1(t, m[3]), m[4])
  OBVIOUS
<1>9. /\ w.a[1] = g[3] /\ w.b[1] = g[4] /\ w.c[1] = g[9] /\ w.d[1] = g[14]
      /\ w.a[2] = g[0] /\ w.b[2] = g[5] /\ w.c[2] = g[10] /\ w.d[2] = g[15]
      /\ w.a[3] = g[1] /\ w.b[3] = g[6] /\ w.c[3] = g[11] /\ w.d[3] = g[12]
      /\ w.a[4] = g[2] /\ w.b[4] = g[7] /\ w.c[4] = g[8] /\ w.d[4] = g[13]
  <2>1. ASSUME NEW l \in 1 .. 4, NEW k \in 1 .. 4,
               t.a[l] = u[Quads[4 + k][1]], t.b[l] = u[Quads[4 + k][2]],
               t.c[l] = u[Quads[4 + k][3]], t.d[l] = u[Quads[4 + k][4]],
               m[3][l] = sigma[r + 1][2 * (4 + k) - 1], m[4][l] = sigma[r + 1][2 * (4 + k)]
        PROVE  /\ w.a[l] = g[Quads[4 + k][1]] /\ w.b[l] = g[Quads[4 + k][2]]
               /\ w.c[l] = g[Quads[4 + k][3]] /\ w.d[l] = g[Quads[4 + k][4]]
    <3>1. M(m[3][l]) = X(r, 4 + k) /\ M(m[4][l]) = Y(r, 4 + k)
      BY <2>1 DEF X, Y
    <3>2. MixedFrom(u, g, Quads[4 + k], X(r, 4 + k), Y(r, 4 + k))
      BY <1>1, <1>2
    <3>3. /\ w.a[l] = A2(t.a[l], t.b[l], t.c[l], t.d[l], X(r, 4 + k), Y(r, 4 + k))
          /\ w.b[l] = B2(t.a[l], t.b[l], t.c[l], t.d[l], X(r, 4 + k), Y(r, 4 + k))
          /\ w.c[l] = C2(t.a[l], t.b[l], t.c[l], t.d[l], X(r, 4 + k), Y(r, 4 + k))
          /\ w.d[l] = D2(t.a[l], t.b[l], t.c[l], t.d[l], X(r, 4 + k), Y(r, 4 + k))
      BY <1>8, <3>1, RegistersMix
    <3>. QED BY <2>1, <3>2, <3>3, Zenon DEF MixedFrom
  <2>2. /\ m[3][1] = sigma[r + 1][15] /\ m[4][1] = sigma[r + 1][16]
        /\ m[3][2] = sigma[r + 1][9] /\ m[4][2] = sigma[r + 1][10]
        /\ m[3][3] = sigma[r + 1][11] /\ m[4][3] = sigma[r + 1][12]
        /\ m[3][4] = sigma[r + 1][13] /\ m[4][4] = sigma[r + 1][14]
    BY DEF Arranged
  <2>3. w.a[1] = g[3] /\ w.b[1] = g[4] /\ w.c[1] = g[9] /\ w.d[1] = g[14]
    BY <1>7, <2>1, <2>2, QuadsRows
  <2>4. w.a[2] = g[0] /\ w.b[2] = g[5] /\ w.c[2] = g[10] /\ w.d[2] = g[15]
    BY <1>7, <2>1, <2>2, QuadsRows
  <2>5. w.a[3] = g[1] /\ w.b[3] = g[6] /\ w.c[3] = g[11] /\ w.d[3] = g[12]
    BY <1>7, <2>1, <2>2, QuadsRows
  <2>6. w.a[4] = g[2] /\ w.b[4] = g[7] /\ w.c[4] = g[8] /\ w.d[4] = g[13]
    BY <1>7, <2>1, <2>2, QuadsRows
  <2>. QED BY <2>3, <2>4, <2>5, <2>6, Zenon
<1>10. PICK z : z = UNDIAG_V1(w)
  OBVIOUS
<1>11. /\ z.a[1] = g[0] /\ z.a[2] = g[1] /\ z.a[3] = g[2] /\ z.a[4] = g[3]
       /\ z.b[1] = g[4] /\ z.b[2] = g[5] /\ z.b[3] = g[6] /\ z.b[4] = g[7]
       /\ z.c[1] = g[8] /\ z.c[2] = g[9] /\ z.c[3] = g[10] /\ z.c[4] = g[11]
       /\ z.d[1] = g[12] /\ z.d[2] = g[13] /\ z.d[3] = g[14] /\ z.d[4] = g[15]
  <2>1. w = [a |-> w.a, b |-> w.b, c |-> w.c, d |-> w.d]
    BY <1>8, MixIsRecord
  <2>2. z.a = rotated(w.a, 1) /\ z.b = w.b /\ z.c = rotated(w.c, 3) /\ z.d = rotated(w.d, 2)
    BY <1>10, <2>1, DiagTurns
  <2>. QED BY <1>9, <2>2, Turned
<1>12. \A n \in 0 .. 15 : Lanes(z)[n] = g[n]
  <2> SUFFICES ASSUME NEW n \in 0 .. 15 PROVE Lanes(z)[n] = g[n]
    OBVIOUS
  <2>1. CASE n < 4
    <3>1. Lanes(z)[n] = z.a[n + 1]
      BY <2>1 DEF Lanes
    <3>. QED BY <1>11, <2>1, <3>1
  <2>2. CASE n \in 4 .. 7
    <3>1. Lanes(z)[n] = z.b[n - 3]
      BY <2>2 DEF Lanes
    <3>. QED BY <1>11, <2>2, <3>1
  <2>3. CASE n \in 8 .. 11
    <3>1. Lanes(z)[n] = z.c[n - 7]
      BY <2>3 DEF Lanes
    <3>. QED BY <1>11, <2>3, <3>1
  <2>4. CASE n \in 12 .. 15
    <3>1. Lanes(z)[n] = z.d[n - 11]
      BY <2>4 DEF Lanes
    <3>. QED BY <1>11, <2>4, <3>1
  <2>. QED BY <2>1, <2>2, <2>3, <2>4
<1>13. Words(Lanes(z))
  BY DEF Words, Lanes
<1>14. Lanes(z) = g
  BY <1>2, <1>12, <1>13, Zenon DEF Words
<1>15. ROUND_V1(m) = Lanes(z)
  BY <1>3, <1>6, <1>8, <1>10, Zenon DEF ROUND_V1
<1>. QED BY <1>2, <1>14, <1>15

-----------------------------------------------------------------------------
(* The tables. *)

(* The sixteen indices of a row of sigma, in the order of the registers. *)
Row(r) == LET s == sigma[r + 1]
          IN << <<s[1], s[3], s[5], s[7]>>, <<s[2], s[4], s[6], s[8]>>,
                <<s[15], s[9], s[11], s[13]>>, <<s[16], s[10], s[12], s[14]>> >>

LEMMA RowArranged ==
  ASSUME NEW r, NEW m, m[1] = Row(r)[1], m[2] = Row(r)[2], m[3] = Row(r)[3], m[4] = Row(r)[4]
  PROVE  Arranged(m, r)
<1>1. /\ m[1][1] = sigma[r + 1][1] /\ m[1][2] = sigma[r + 1][3]
      /\ m[1][3] = sigma[r + 1][5] /\ m[1][4] = sigma[r + 1][7]
      /\ m[2][1] = sigma[r + 1][2] /\ m[2][2] = sigma[r + 1][4]
      /\ m[2][3] = sigma[r + 1][6] /\ m[2][4] = sigma[r + 1][8]
      /\ m[3][1] = sigma[r + 1][15] /\ m[4][1] = sigma[r + 1][16]
      /\ m[3][2] = sigma[r + 1][9] /\ m[4][2] = sigma[r + 1][10]
      /\ m[3][3] = sigma[r + 1][11] /\ m[4][3] = sigma[r + 1][12]
      /\ m[3][4] = sigma[r + 1][13] /\ m[4][4] = sigma[r + 1][14]
  BY DEF Row
<1>2. \A l \in 1 .. 4 : m[1][l] = sigma[r + 1][2 * l - 1] /\ m[2][l] = sigma[r + 1][2 * l]
  <2> SUFFICES ASSUME NEW l \in 1 .. 4
               PROVE  m[1][l] = sigma[r + 1][2 * l - 1] /\ m[2][l] = sigma[r + 1][2 * l]
    OBVIOUS
  <2>1. l = 1 \/ l = 2 \/ l = 3 \/ l = 4
    OBVIOUS
  <2>. QED BY <1>1, <2>1
<1>3. \A l \in 2 .. 4 : m[3][l] = sigma[r + 1][2 * l + 5] /\ m[4][l] = sigma[r + 1][2 * l + 6]
  <2> SUFFICES ASSUME NEW l \in 2 .. 4
               PROVE  m[3][l] = sigma[r + 1][2 * l + 5] /\ m[4][l] = sigma[r + 1][2 * l + 6]
    OBVIOUS
  <2>1. l = 2 \/ l = 3 \/ l = 4
    OBVIOUS
  <2>. QED BY <1>1, <2>1
<1>. QED BY <1>1, <1>2, <1>3, Zenon DEF Arranged

(* The words of a load. *)
LEMMA LoWords == \A j, k \in 0 .. 7 : Lo(j, k) = <<2 * j, 2 * k, 2 * j, 2 * k>>
BY DEF Lo, Msg, unpacklo

LEMMA HiWords ==
  \A j, k \in 0 .. 7 : Hi(j, k) = <<2 * j + 1, 2 * k + 1, 2 * j + 1, 2 * k + 1>>
BY DEF Hi, Msg, unpackhi

LEMMA AlWords == \A j, k \in 0 .. 7 : Al(j, k) = <<2 * k + 1, 2 * j, 2 * k + 1, 2 * j>>
BY DEF Al, Msg, alignr8

LEMMA BlWords == \A j, k \in 0 .. 7 : Bl(j, k) = <<2 * k, 2 * j + 1, 2 * k, 2 * j + 1>>
BY DEF Bl, Msg, blend33

LEMMA SwapWords ==
  \A j \in 0 .. 7 : swap(Msg(j)) = <<2 * j + 1, 2 * j, 2 * j + 1, 2 * j>>
BY DEF swap, Msg

LEMMA Blended ==
  \A p, q, s, t : blendF0(<<p, q, p, q>>, <<s, t, s, t>>) = <<p, q, s, t>>
BY DEF blendF0

(* The straight rounds are two tuples of five. *)
LEMMA Joined ==
  ASSUME NEW a, NEW b, NEW c, NEW d, NEW e, NEW f, NEW g, NEW h, NEW m, NEW n
  PROVE  LET t == <<a, b, c, d, e>> \o <<f, g, h, m, n>>
         IN /\ t[1] = a /\ t[2] = b /\ t[3] = c /\ t[4] = d /\ t[5] = e
            /\ t[6] = f /\ t[7] = g /\ t[8] = h /\ t[9] = m /\ t[10] = n
OBVIOUS

LEMMA LoadTable ==
  LET t == LOAD_MSG_0_4 \o LOAD_MSG_5_9
  IN /\ \A n \in 1 .. 5 : t[n] = LOAD_MSG_0_4[n] /\ t[n + 5] = LOAD_MSG_5_9[n]
<1>1. PICK a, b, c, d, e : LOAD_MSG_0_4 = <<a, b, c, d, e>>
  BY DEF LOAD_MSG_0_4
<1>2. PICK f, g, h, m, p : LOAD_MSG_5_9 = <<f, g, h, m, p>>
  BY DEF LOAD_MSG_5_9
<1>3. \A n \in 1 .. 5 : n = 1 \/ n = 2 \/ n = 3 \/ n = 4 \/ n = 5
  OBVIOUS
<1>. QED BY <1>1, <1>2, <1>3, Joined

LEMMA StraightLoads ==
  /\ \A r \in 0 .. 4, k \in 1 .. 4 :
       Straight(r)[k] = blendF0(LOAD_MSG_0_4[r + 1][k][1], LOAD_MSG_0_4[r + 1][k][2])
  /\ \A r \in 5 .. 9, k \in 1 .. 4 :
       Straight(r)[k] = blendF0(LOAD_MSG_5_9[r - 4][k][1], LOAD_MSG_5_9[r - 4][k][2])
<1>1. PICK t : t = LOAD_MSG_0_4 \o LOAD_MSG_5_9
  OBVIOUS
<1>2. \A n \in 1 .. 5 : t[n] = LOAD_MSG_0_4[n] /\ t[n + 5] = LOAD_MSG_5_9[n]
  BY <1>1, LoadTable
<1>3. \A r \in 0 .. 4 : t[r + 1] = LOAD_MSG_0_4[r + 1]
  BY <1>2
<1>4. \A r \in 5 .. 9 : t[r + 1] = LOAD_MSG_5_9[r - 4]
  <2> SUFFICES ASSUME NEW r \in 5 .. 9 PROVE t[r + 1] = LOAD_MSG_5_9[r - 4]
    OBVIOUS
  <2>1. r - 4 \in 1 .. 5 /\ r - 4 + 5 = r + 1
    OBVIOUS
  <2>2. t[r - 4 + 5] = LOAD_MSG_5_9[r - 4]
    BY <1>2, <2>1, Zenon
  <2>. QED BY <2>1, <2>2
<1>5. \A r, k \in 0 .. 9 : k \in 1 .. 4 => Straight(r)[k] = blendF0(t[r + 1][k][1], t[r + 1][k][2])
  BY <1>1 DEF Straight
<1>6. 0 .. 4 \subseteq 0 .. 9 /\ 5 .. 9 \subseteq 0 .. 9 /\ 1 .. 4 \subseteq 0 .. 9
  OBVIOUS
<1>. QED BY <1>3, <1>4, <1>5, <1>6, Zenon

(* The gathered ones are four slices of a row. *)
LEMMA GatheredWords ==
  ASSUME NEW r, NEW k \in 1 .. 4
  PROVE  LET x == indices[r + 1]
         IN  Gathered(r)[k] = <<x[4 * k - 3], x[4 * k - 2], x[4 * k - 1], x[4 * k]>>
<1>1. PICK x : x = indices[r + 1]
  OBVIOUS
<1>2. PICK y : y = SubSeq(x, 4 * k - 3, 4 * k)
  OBVIOUS
<1>3. y = [l \in 1 .. 4 |-> x[l + (4 * k - 3) - 1]]
  BY <1>2
<1>4. y[1] = x[4 * k - 3] /\ y[2] = x[4 * k - 2] /\ y[3] = x[4 * k - 1] /\ y[4] = x[4 * k]
  BY <1>3
<1>5. y = <<y[1], y[2], y[3], y[4]>>
  <2>1. DOMAIN y = 1 .. 4 /\ y = [l \in 1 .. 4 |-> y[l]]
    BY <1>3
  <2>. QED BY <2>1
<1>6. Gathered(r)[k] = y
  BY <1>1, <1>2 DEF Gathered
<1>. QED BY <1>1, <1>4, <1>5, <1>6

(* Row by row: the sixteen words of both ways of loading the message. *)
LEMMA Round0 == Arranged(Straight(0), 0) /\ Arranged(Gathered(0), 0)
<1>1. sigma[1] = <<0, 1, 2, 3, 4, 5, 6, 7, 8, 9, 10, 11, 12, 13, 14, 15>>
  BY DEF sigma
<1>2. /\ Row(0)[1] = <<0, 2, 4, 6>> /\ Row(0)[2] = <<1, 3, 5, 7>>
      /\ Row(0)[3] = <<14, 8, 10, 12>> /\ Row(0)[4] = <<15, 9, 11, 13>>
  BY <1>1 DEF Row
<1>3. /\ Straight(0)[1] = blendF0(Lo(0, 1), Lo(2, 3))
      /\ Straight(0)[2] = blendF0(Hi(0, 1), Hi(2, 3))
      /\ Straight(0)[3] = blendF0(Lo(7, 4), Lo(5, 6))
      /\ Straight(0)[4] = blendF0(Hi(7, 4), Hi(5, 6))
  BY StraightLoads DEF LOAD_MSG_0_4
<1>4. blendF0(Lo(0, 1), Lo(2, 3)) = <<0, 2, 4, 6>>
  BY LoWords, Blended
<1>5. blendF0(Hi(0, 1), Hi(2, 3)) = <<1, 3, 5, 7>>
  BY HiWords, Blended
<1>6. blendF0(Lo(7, 4), Lo(5, 6)) = <<14, 8, 10, 12>>
  BY LoWords, Blended
<1>7. blendF0(Hi(7, 4), Hi(5, 6)) = <<15, 9, 11, 13>>
  BY HiWords, Blended
<1>8. /\ Gathered(0)[1] = <<0, 2, 4, 6>> /\ Gathered(0)[2] = <<1, 3, 5, 7>>
      /\ Gathered(0)[3] = <<14, 8, 10, 12>> /\ Gathered(0)[4] = <<15, 9, 11, 13>>
  BY GatheredWords DEF indices
<1>. QED BY <1>2, <1>3, <1>4, <1>5, <1>6, <1>7, <1>8, RowArranged

LEMMA Round1 == Arranged(Straight(1), 1) /\ Arranged(Gathered(1), 1)
<1>1. sigma[2] = <<14, 10, 4, 8, 9, 15, 13, 6, 1, 12, 0, 2, 11, 7, 5, 3>>
  BY DEF sigma
<1>2. /\ Row(1)[1] = <<14, 4, 9, 13>> /\ Row(1)[2] = <<10, 8, 15, 6>>
      /\ Row(1)[3] = <<5, 1, 0, 11>> /\ Row(1)[4] = <<3, 12, 2, 7>>
  BY <1>1 DEF Row
<1>3. /\ Straight(1)[1] = blendF0(Lo(7, 2), Hi(4, 6))
      /\ Straight(1)[2] = blendF0(Lo(5, 4), Al(3, 7))
      /\ Straight(1)[3] = blendF0(Hi(2, 0), Bl(5, 0))
      /\ Straight(1)[4] = blendF0(Al(6, 1), Bl(3, 1))
  BY StraightLoads DEF LOAD_MSG_0_4
<1>4. blendF0(Lo(7, 2), Hi(4, 6)) = <<14, 4, 9, 13>>
  BY LoWords, HiWords, Blended
<1>5. blendF0(Lo(5, 4), Al(3, 7)) = <<10, 8, 15, 6>>
  BY LoWords, AlWords, Blended
<1>6. blendF0(Hi(2, 0), Bl(5, 0)) = <<5, 1, 0, 11>>
  BY HiWords, BlWords, Blended
<1>7. blendF0(Al(6, 1), Bl(3, 1)) = <<3, 12, 2, 7>>
  BY AlWords, BlWords, Blended
<1>8. /\ Gathered(1)[1] = <<14, 4, 9, 13>> /\ Gathered(1)[2] = <<10, 8, 15, 6>>
      /\ Gathered(1)[3] = <<5, 1, 0, 11>> /\ Gathered(1)[4] = <<3, 12, 2, 7>>
  BY GatheredWords DEF indices
<1>. QED BY <1>2, <1>3, <1>4, <1>5, <1>6, <1>7, <1>8, RowArranged

LEMMA Round2 == Arranged(Straight(2), 2) /\ Arranged(Gathered(2), 2)
<1>1. sigma[3] = <<11, 8, 12, 0, 5, 2, 15, 13, 10, 14, 3, 6, 7, 1, 9, 4>>
  BY DEF sigma
<1>2. /\ Row(2)[1] = <<11, 12, 5, 15>> /\ Row(2)[2] = <<8, 0, 2, 13>>
      /\ Row(2)[3] = <<9, 10, 3, 7>> /\ Row(2)[4] = <<4, 14, 6, 1>>
  BY <1>1 DEF Row
<1>3. /\ Straight(2)[1] = blendF0(Al(6, 5), Hi(2, 7))
      /\ Straight(2)[2] = blendF0(Lo(4, 0), Bl(6, 1))
      /\ Straight(2)[3] = blendF0(Al(5, 4), Hi(1, 3))
      /\ Straight(2)[4] = blendF0(Lo(2, 7), Bl(0, 3))
  BY StraightLoads DEF LOAD_MSG_0_4
<1>4. blendF0(Al(6, 5), Hi(2, 7)) = <<11, 12, 5, 15>>
  BY HiWords, AlWords, Blended
<1>5. blendF0(Lo(4, 0), Bl(6, 1)) = <<8, 0, 2, 13>>
  BY LoWords, BlWords, Blended
<1>6. blendF0(Al(5, 4), Hi(1, 3)) = <<9, 10, 3, 7>>
  BY HiWords, AlWords, Blended
<1>7. blendF0(Lo(2, 7), Bl(0, 3)) = <<4, 14, 6, 1>>
  BY LoWords, BlWords, Blended
<1>8. /\ Gathered(2)[1] = <<11, 12, 5, 15>> /\ Gathered(2)[2] = <<8, 0, 2, 13>>
      /\ Gathered(2)[3] = <<9, 10, 3, 7>> /\ Gathered(2)[4] = <<4, 14, 6, 1>>
  BY GatheredWords DEF indices
<1>. QED BY <1>2, <1>3, <1>4, <1>5, <1>6, <1>7, <1>8, RowArranged

LEMMA Round3 == Arranged(Straight(3), 3) /\ Arranged(Gathered(3), 3)
<1>1. sigma[4] = <<7, 9, 3, 1, 13, 12, 11, 14, 2, 6, 5, 10, 4, 0, 15, 8>>
  BY DEF sigma
<1>2. /\ Row(3)[1] = <<7, 3, 13, 11>> /\ Row(3)[2] = <<9, 1, 12, 14>>
      /\ Row(3)[3] = <<15, 2, 5, 4>> /\ Row(3)[4] = <<8, 6, 10, 0>>
  BY <1>1 DEF Row
<1>3. /\ Straight(3)[1] = blendF0(Hi(3, 1), Hi(6, 5))
      /\ Straight(3)[2] = blendF0(Hi(4, 0), Lo(6, 7))
      /\ Straight(3)[3] = blendF0(Al(1, 7), swap(Msg(2)))
      /\ Straight(3)[4] = blendF0(Lo(4, 3), Lo(5, 0))
  BY StraightLoads DEF LOAD_MSG_0_4
<1>4. blendF0(Hi(3, 1), Hi(6, 5)) = <<7, 3, 13, 11>>
  BY HiWords, Blended
<1>5. blendF0(Hi(4, 0), Lo(6, 7)) = <<9, 1, 12, 14>>
  BY LoWords, HiWords, Blended
<1>6. blendF0(Al(1, 7), swap(Msg(2))) = <<15, 2, 5, 4>>
  BY AlWords, SwapWords, Blended
<1>7. blendF0(Lo(4, 3), Lo(5, 0)) = <<8, 6, 10, 0>>
  BY LoWords, Blended
<1>8. /\ Gathered(3)[1] = <<7, 3, 13, 11>> /\ Gathered(3)[2] = <<9, 1, 12, 14>>
      /\ Gathered(3)[3] = <<15, 2, 5, 4>> /\ Gathered(3)[4] = <<8, 6, 10, 0>>
  BY GatheredWords DEF indices
<1>. QED BY <1>2, <1>3, <1>4, <1>5, <1>6, <1>7, <1>8, RowArranged

LEMMA Round4 == Arranged(Straight(4), 4) /\ Arranged(Gathered(4), 4)
<1>1. sigma[5] = <<9, 0, 5, 7, 2, 4, 10, 15, 14, 1, 11, 12, 6, 8, 3, 13>>
  BY DEF sigma
<1>2. /\ Row(4)[1] = <<9, 5, 2, 10>> /\ Row(4)[2] = <<0, 7, 4, 15>>
      /\ Row(4)[3] = <<3, 14, 11, 6>> /\ Row(4)[4] = <<13, 1, 12, 8>>
  BY <1>1 DEF Row
<1>3. /\ Straight(4)[1] = blendF0(Hi(4, 2), Lo(1, 5))
      /\ Straight(4)[2] = blendF0(Bl(3, 0), Bl(7, 2))
      /\ Straight(4)[3] = blendF0(Al(7, 1), Al(3, 5))
      /\ Straight(4)[4] = blendF0(Hi(6, 0), Lo(6, 4))
  BY StraightLoads DEF LOAD_MSG_0_4
<1>4. blendF0(Hi(4, 2), Lo(1, 5)) = <<9, 5, 2, 10>>
  BY LoWords, HiWords, Blended
<1>5. blendF0(Bl(3, 0), Bl(7, 2)) = <<0, 7, 4, 15>>
  BY BlWords, Blended
<1>6. blendF0(Al(7, 1), Al(3, 5)) = <<3, 14, 11, 6>>
  BY AlWords, Blended
<1>7. blendF0(Hi(6, 0), Lo(6, 4)) = <<13, 1, 12, 8>>
  BY LoWords, HiWords, Blended
<1>8. /\ Gathered(4)[1] = <<9, 5, 2, 10>> /\ Gathered(4)[2] = <<0, 7, 4, 15>>
      /\ Gathered(4)[3] = <<3, 14, 11, 6>> /\ Gathered(4)[4] = <<13, 1, 12, 8>>
  BY GatheredWords DEF indices
<1>. QED BY <1>2, <1>3, <1>4, <1>5, <1>6, <1>7, <1>8, RowArranged

LEMMA Round5 == Arranged(Straight(5), 5) /\ Arranged(Gathered(5), 5)
<1>1. sigma[6] = <<2, 12, 6, 10, 0, 11, 8, 3, 4, 13, 7, 5, 15, 14, 1, 9>>
  BY DEF sigma
<1>2. /\ Row(5)[1] = <<2, 6, 0, 8>> /\ Row(5)[2] = <<12, 10, 11, 3>>
      /\ Row(5)[3] = <<1, 4, 7, 15>> /\ Row(5)[4] = <<9, 13, 5, 14>>
  BY <1>1 DEF Row
<1>3. /\ Straight(5)[1] = blendF0(Lo(1, 3), Lo(0, 4))
      /\ Straight(5)[2] = blendF0(Lo(6, 5), Hi(5, 1))
      /\ Straight(5)[3] = blendF0(Al(2, 0), Hi(3, 7))
      /\ Straight(5)[4] = blendF0(Hi(4, 6), Al(7, 2))
  BY StraightLoads DEF LOAD_MSG_5_9
<1>4. blendF0(Lo(1, 3), Lo(0, 4)) = <<2, 6, 0, 8>>
  BY LoWords, Blended
<1>5. blendF0(Lo(6, 5), Hi(5, 1)) = <<12, 10, 11, 3>>
  BY LoWords, HiWords, Blended
<1>6. blendF0(Al(2, 0), Hi(3, 7)) = <<1, 4, 7, 15>>
  BY HiWords, AlWords, Blended
<1>7. blendF0(Hi(4, 6), Al(7, 2)) = <<9, 13, 5, 14>>
  BY HiWords, AlWords, Blended
<1>8. /\ Gathered(5)[1] = <<2, 6, 0, 8>> /\ Gathered(5)[2] = <<12, 10, 11, 3>>
      /\ Gathered(5)[3] = <<1, 4, 7, 15>> /\ Gathered(5)[4] = <<9, 13, 5, 14>>
  BY GatheredWords DEF indices
<1>. QED BY <1>2, <1>3, <1>4, <1>5, <1>6, <1>7, <1>8, RowArranged

LEMMA Round6 == Arranged(Straight(6), 6) /\ Arranged(Gathered(6), 6)
<1>1. sigma[7] = <<12, 5, 1, 15, 14, 13, 4, 10, 0, 7, 6, 3, 9, 2, 8, 11>>
  BY DEF sigma
<1>2. /\ Row(6)[1] = <<12, 1, 14, 4>> /\ Row(6)[2] = <<5, 15, 13, 10>>
      /\ Row(6)[3] = <<8, 0, 6, 9>> /\ Row(6)[4] = <<11, 7, 3, 2>>
  BY <1>1 DEF Row
<1>3. /\ Straight(6)[1] = blendF0(Bl(0, 6), Lo(7, 2))
      /\ Straight(6)[2] = blendF0(Hi(2, 7), Al(5, 6))
      /\ Straight(6)[3] = blendF0(Lo(4, 0), Bl(4, 3))
      /\ Straight(6)[4] = blendF0(Hi(5, 3), swap(Msg(1)))
  BY StraightLoads DEF LOAD_MSG_5_9
<1>4. blendF0(Bl(0, 6), Lo(7, 2)) = <<12, 1, 14, 4>>
  BY LoWords, BlWords, Blended
<1>5. blendF0(Hi(2, 7), Al(5, 6)) = <<5, 15, 13, 10>>
  BY HiWords, AlWords, Blended
<1>6. blendF0(Lo(4, 0), Bl(4, 3)) = <<8, 0, 6, 9>>
  BY LoWords, BlWords, Blended
<1>7. blendF0(Hi(5, 3), swap(Msg(1))) = <<11, 7, 3, 2>>
  BY HiWords, SwapWords, Blended
<1>8. /\ Gathered(6)[1] = <<12, 1, 14, 4>> /\ Gathered(6)[2] = <<5, 15, 13, 10>>
      /\ Gathered(6)[3] = <<8, 0, 6, 9>> /\ Gathered(6)[4] = <<11, 7, 3, 2>>
  BY GatheredWords DEF indices
<1>. QED BY <1>2, <1>3, <1>4, <1>5, <1>6, <1>7, <1>8, RowArranged

LEMMA Round7 == Arranged(Straight(7), 7) /\ Arranged(Gathered(7), 7)
<1>1. sigma[8] = <<13, 11, 7, 14, 12, 1, 3, 9, 5, 0, 15, 4, 8, 6, 2, 10>>
  BY DEF sigma
<1>2. /\ Row(7)[1] = <<13, 7, 12, 3>> /\ Row(7)[2] = <<11, 14, 1, 9>>
      /\ Row(7)[3] = <<2, 5, 15, 8>> /\ Row(7)[4] = <<10, 0, 4, 6>>
  BY <1>1 DEF Row
<1>3. /\ Straight(7)[1] = blendF0(Hi(6, 3), Bl(1, 6))
      /\ Straight(7)[2] = blendF0(Al(7, 5), Hi(0, 4))
      /\ Straight(7)[3] = blendF0(Bl(2, 1), Al(4, 7))
      /\ Straight(7)[4] = blendF0(Lo(5, 0), Lo(2, 3))
  BY StraightLoads DEF LOAD_MSG_5_9
<1>4. blendF0(Hi(6, 3), Bl(1, 6)) = <<13, 7, 12, 3>>
  BY HiWords, BlWords, Blended
<1>5. blendF0(Al(7, 5), Hi(0, 4)) = <<11, 14, 1, 9>>
  BY HiWords, AlWords, Blended
<1>6. blendF0(Bl(2, 1), Al(4, 7)) = <<2, 5, 15, 8>>
  BY AlWords, BlWords, Blended
<1>7. blendF0(Lo(5, 0), Lo(2, 3)) = <<10, 0, 4, 6>>
  BY LoWords, Blended
<1>8. /\ Gathered(7)[1] = <<13, 7, 12, 3>> /\ Gathered(7)[2] = <<11, 14, 1, 9>>
      /\ Gathered(7)[3] = <<2, 5, 15, 8>> /\ Gathered(7)[4] = <<10, 0, 4, 6>>
  BY GatheredWords DEF indices
<1>. QED BY <1>2, <1>3, <1>4, <1>5, <1>6, <1>7, <1>8, RowArranged

LEMMA Round8 == Arranged(Straight(8), 8) /\ Arranged(Gathered(8), 8)
<1>1. sigma[9] = <<6, 15, 14, 9, 11, 3, 0, 8, 12, 2, 13, 7, 1, 4, 10, 5>>
  BY DEF sigma
<1>2. /\ Row(8)[1] = <<6, 14, 11, 0>> /\ Row(8)[2] = <<15, 9, 3, 8>>
      /\ Row(8)[3] = <<10, 12, 13, 1>> /\ Row(8)[4] = <<5, 2, 7, 4>>
  BY <1>1 DEF Row
<1>3. /\ Straight(8)[1] = blendF0(Lo(3, 7), Al(0, 5))
      /\ Straight(8)[2] = blendF0(Hi(7, 4), Al(4, 1))
      /\ Straight(8)[3] = blendF0(Lo(5, 6), Hi(6, 0))
      /\ Straight(8)[4] = blendF0(Al(1, 2), Al(2, 3))
  BY StraightLoads DEF LOAD_MSG_5_9
<1>4. blendF0(Lo(3, 7), Al(0, 5)) = <<6, 14, 11, 0>>
  BY LoWords, AlWords, Blended
<1>5. blendF0(Hi(7, 4), Al(4, 1)) = <<15, 9, 3, 8>>
  BY HiWords, AlWords, Blended
<1>6. blendF0(Lo(5, 6), Hi(6, 0)) = <<10, 12, 13, 1>>
  BY LoWords, HiWords, Blended
<1>7. blendF0(Al(1, 2), Al(2, 3)) = <<5, 2, 7, 4>>
  BY AlWords, Blended
<1>8. /\ Gathered(8)[1] = <<6, 14, 11, 0>> /\ Gathered(8)[2] = <<15, 9, 3, 8>>
      /\ Gathered(8)[3] = <<10, 12, 13, 1>> /\ Gathered(8)[4] = <<5, 2, 7, 4>>
  BY GatheredWords DEF indices
<1>. QED BY <1>2, <1>3, <1>4, <1>5, <1>6, <1>7, <1>8, RowArranged

LEMMA Round9 == Arranged(Straight(9), 9) /\ Arranged(Gathered(9), 9)
<1>1. sigma[10] = <<10, 2, 8, 4, 7, 6, 1, 5, 15, 11, 9, 14, 3, 12, 13, 0>>
  BY DEF sigma
<1>2. /\ Row(9)[1] = <<10, 8, 7, 1>> /\ Row(9)[2] = <<2, 4, 6, 5>>
      /\ Row(9)[3] = <<13, 15, 9, 3>> /\ Row(9)[4] = <<0, 11, 14, 12>>
  BY <1>1 DEF Row
<1>3. /\ Straight(9)[1] = blendF0(Lo(5, 4), Hi(3, 0))
      /\ Straight(9)[2] = blendF0(Lo(1, 2), Bl(2, 3))
      /\ Straight(9)[3] = blendF0(Hi(6, 7), Hi(4, 1))
      /\ Straight(9)[4] = blendF0(Bl(5, 0), Lo(7, 6))
  BY StraightLoads DEF LOAD_MSG_5_9
<1>4. blendF0(Lo(5, 4), Hi(3, 0)) = <<10, 8, 7, 1>>
  BY LoWords, HiWords, Blended
<1>5. blendF0(Lo(1, 2), Bl(2, 3)) = <<2, 4, 6, 5>>
  BY LoWords, BlWords, Blended
<1>6. blendF0(Hi(6, 7), Hi(4, 1)) = <<13, 15, 9, 3>>
  BY HiWords, Blended
<1>7. blendF0(Bl(5, 0), Lo(7, 6)) = <<0, 11, 14, 12>>
  BY LoWords, BlWords, Blended
<1>8. /\ Gathered(9)[1] = <<10, 8, 7, 1>> /\ Gathered(9)[2] = <<2, 4, 6, 5>>
      /\ Gathered(9)[3] = <<13, 15, 9, 3>> /\ Gathered(9)[4] = <<0, 11, 14, 12>>
  BY GatheredWords DEF indices
<1>. QED BY <1>2, <1>3, <1>4, <1>5, <1>6, <1>7, <1>8, RowArranged

LEMMA RoundsArranged ==
  ASSUME NEW r \in Round PROVE Arranged(Straight(r), r) /\ Arranged(Gathered(r), r)
<1>1. r = 0 \/ r = 1 \/ r = 2 \/ r = 3 \/ r = 4 \/ r = 5 \/ r = 6 \/ r = 7 \/ r = 8 \/ r = 9
  BY DEF Round
<1>. QED BY <1>1, Round0, Round1, Round2, Round3, Round4, Round5, Round6, Round7, Round8, Round9

-----------------------------------------------------------------------------
(* No two rows make the same words: the sum in lane 0 ends with a message word,
   which is another one in each row. *)

LEMMA LastWord ==
  ASSUME NEW a, NEW b, NEW m, NEW c, NEW d, NEW n,
         Plus({Plus(a), Rotr(b, 24), M(m)}) = Plus({Plus(c), Rotr(d, 24), M(n)})
  PROVE  m = n
<1>1. {Plus(a), Rotr(b, 24), M(m)} = {Plus(c), Rotr(d, 24), M(n)}
  BY DEF Plus
<1>2. M(m) = Plus(c) \/ M(m) = Rotr(d, 24) \/ M(m) = M(n)
  BY <1>1
<1>3. M(m) # Plus(c) /\ M(m) # Rotr(d, 24)
  BY DEF M, Plus, Rotr
<1>. QED BY <1>2, <1>3 DEF M

LEMMA LaneZero ==
  ASSUME NEW r \in Round
  PROVE  \E a, b : GenericRound(r)[0] = Plus({Plus(a), Rotr(b, 24), M(sigma[r + 1][10])})
<1>1. PICK u : MixedFrom(u, GenericRound(r), Quads[5], X(r, 5), Y(r, 5))
  <2>1. PICK u : \A l \in 1 .. 4 : MixedFrom(u, GenericRound(r), Quads[4 + l], X(r, 4 + l), Y(r, 4 + l))
    BY RoundMixes
  <2>. QED BY <2>1
<1>2. Y(r, 5) = M(sigma[r + 1][10])
  BY DEF Y
<1>3. GenericRound(r)[0] = A2(u[0], u[5], u[10], u[15], X(r, 5), Y(r, 5))
  BY <1>1, QuadsRows DEF MixedFrom
<1>. QED BY <1>2, <1>3 DEF A2, A1, B1

LEMMA LastColumn == \A r, s \in Round : sigma[r + 1][10] = sigma[s + 1][10] => r = s
<1>1. /\ sigma[1][10] = 9 /\ sigma[2][10] = 12 /\ sigma[3][10] = 14 /\ sigma[4][10] = 6
      /\ sigma[5][10] = 1 /\ sigma[6][10] = 13 /\ sigma[7][10] = 7 /\ sigma[8][10] = 0
      /\ sigma[9][10] = 2 /\ sigma[10][10] = 11
  BY DEF sigma
<1>2. \A r \in Round : \/ r = 0 /\ sigma[r + 1][10] = 9
                       \/ r = 1 /\ sigma[r + 1][10] = 12
                       \/ r = 2 /\ sigma[r + 1][10] = 14
                       \/ r = 3 /\ sigma[r + 1][10] = 6
                       \/ r = 4 /\ sigma[r + 1][10] = 1
                       \/ r = 5 /\ sigma[r + 1][10] = 13
                       \/ r = 6 /\ sigma[r + 1][10] = 7
                       \/ r = 7 /\ sigma[r + 1][10] = 0
                       \/ r = 8 /\ sigma[r + 1][10] = 2
                       \/ r = 9 /\ sigma[r + 1][10] = 11
  BY <1>1 DEF Round
<1>. QED BY <1>2

LEMMA RoundsDiffer ==
  ASSUME NEW r \in Round, NEW s \in Round, GenericRound(r) = GenericRound(s)
  PROVE  r = s
<1>1. PICK m, n : m = sigma[r + 1][10] /\ n = sigma[s + 1][10]
  OBVIOUS
<1>2. PICK a, b : GenericRound(r)[0] = Plus({Plus(a), Rotr(b, 24), M(m)})
  BY <1>1, LaneZero
<1>3. PICK c, d : GenericRound(s)[0] = Plus({Plus(c), Rotr(d, 24), M(n)})
  BY <1>1, LaneZero
<1>4. Plus({Plus(a), Rotr(b, 24), M(m)}) = Plus({Plus(c), Rotr(d, 24), M(n)})
  BY <1>2, <1>3
<1>5. m = n
  BY <1>4, LastWord
<1>. QED BY <1>1, <1>5, LastColumn

(* What a round stands for is the row it was made from. *)
LEMMA RowOfRound == ASSUME NEW r \in Round PROVE RowOf(GenericRound(r)) = r
<1>1. \A s \in Round : <<s, GenericRound(r)>> \in Meaning <=> s = r
  <2>1. \A s \in Round : <<s, GenericRound(r)>> \in Meaning => s = r
    <3> SUFFICES ASSUME NEW s \in Round, <<s, GenericRound(r)>> \in Meaning PROVE s = r
      OBVIOUS
    <3>1. PICK n \in Round : <<s, GenericRound(r)>> = <<n, GenericRound(n)>>
      BY DEF Meaning
    <3>. QED BY <3>1, RoundsDiffer
  <2>2. <<r, GenericRound(r)>> \in Meaning
    BY DEF Meaning
  <2>. QED BY <2>1, <2>2
<1>. QED BY <1>1 DEF RowOf

(* Both ways of loading the message have all ten rounds right. *)
LEMMA AllAgree == Agreeing = Round
<1>1. ASSUME NEW r \in Round PROVE StraightRow(r) = r /\ GatheredRow(r) = r
  <2>1. ROUND_V1(Straight(r)) = GenericRound(r) /\ ROUND_V1(Gathered(r)) = GenericRound(r)
    BY RoundsArranged, RoundRight
  <2>. QED BY <2>1, RowOfRound DEF StraightRow, GatheredRow
<1>. QED BY <1>1 DEF Agreeing

-----------------------------------------------------------------------------
(* The registers of the vectorised start hold the words of the scalar one. *)
LEMMA StartsAgree == \A f \in BOOLEAN : Avx2Start(f) = GenericStart(f)
<1>. SUFFICES ASSUME NEW f \in BOOLEAN PROVE Avx2Start(f) = GenericStart(f)
  OBVIOUS
<1>. DEFINE tf == <<{<<"t", 0>>}, {<<"t", 1>>}, IF f THEN {<<"ones">>} ELSE {}, {}>>
            a == [l \in 1 .. 4 |-> {<<"h", l - 1>>}]
            b == [l \in 1 .. 4 |-> {<<"h", l + 3>>}]
            c == [l \in 1 .. 4 |-> {<<"iv", l - 1>>}]
            d == [l \in 1 .. 4 |-> {<<"iv", l + 3>>} \cup tf[l]]
            q == [a |-> a, b |-> b, c |-> c, d |-> d]
<1>1. Avx2Start(f) = Lanes(q)
  BY DEF Avx2Start
<1>2. \A n \in 0 .. 15 : Lanes(q)[n] = CASE n < 4 -> a[n + 1]
                                          [] n \in 4 .. 7 -> b[n - 3]
                                          [] n \in 8 .. 11 -> c[n - 7]
                                          [] OTHER -> d[n - 11]
  <2>. HIDE DEF a, b, c, d
  <2>. QED BY DEF Lanes
<1>3. ASSUME NEW n \in 0 .. 15 PROVE Lanes(q)[n] = GenericStart(f)[n]
  <2>. HIDE DEF a, b, c, d, q
  <2>1. CASE n < 4
    <3>1. Lanes(q)[n] = a[n + 1] /\ n + 1 \in 1 .. 4  BY <1>2, <2>1
    <3>2. a[n + 1] = {<<"h", n>>}  BY <3>1 DEF a
    <3>. QED BY <2>1, <3>1, <3>2 DEF GenericStart
  <2>2. CASE n \in 4 .. 7
    <3>1. Lanes(q)[n] = b[n - 3] /\ n - 3 \in 1 .. 4  BY <1>2, <2>2
    <3>2. b[n - 3] = {<<"h", n>>}  BY <3>1 DEF b
    <3>. QED BY <2>2, <3>1, <3>2 DEF GenericStart
  <2>3. CASE n \in 8 .. 11
    <3>1. Lanes(q)[n] = c[n - 7] /\ n - 7 \in 1 .. 4  BY <1>2, <2>3
    <3>2. c[n - 7] = {<<"iv", n - 8>>}  BY <3>1 DEF c
    <3>. QED BY <2>3, <3>1, <3>2 DEF GenericStart
  <2>4. CASE n \in 12 .. 15
    <3>1. Lanes(q)[n] = d[n - 11] /\ n - 11 \in 1 .. 4  BY <1>2, <2>4
    <3>2. /\ tf[1] = {<<"t", 0>>} /\ tf[2] = {<<"t", 1>>}
          /\ tf[3] = IF f THEN {<<"ones">>} ELSE {}
          /\ tf[4] = {}
      OBVIOUS
    <3>. HIDE DEF tf
    <3>3. d[n - 11] = {<<"iv", n - 8>>} \cup tf[n - 11]  BY <3>1 DEF d
    <3>4. n \in {12, 13, 14, 15}  BY <2>4
    <3>. QED BY <3>1, <3>2, <3>3, <3>4 DEF GenericStart
  <2>. QED BY <2>1, <2>2, <2>3, <2>4
<1>4. Lanes(q) = [n \in 0 .. 15 |-> Lanes(q)[n]]  BY DEF Lanes
<1>5. GenericStart(f) = [n \in 0 .. 15 |-> GenericStart(f)[n]]  BY DEF GenericStart
<1>. HIDE DEF q
<1>. QED BY <1>1, <1>3, <1>4, <1>5

(* And what is taken out of them at the end is the same. *)
LEMMA FinishesAgree == Avx2Finish = GenericFinish
<1>. SUFFICES ASSUME NEW n \in 0 .. 7
              PROVE Avx2Finish[n] = GenericFinish[n]
  BY DEF Avx2Finish, GenericFinish
<1>1. CASE n < 4
  <2>1. Avx2Finish[n] = {<<"h", n>>} \cup {<<"v", n>>, <<"v", n + 8>>}
    BY <1>1 DEF Avx2Finish, Rows, Before
  <2>. QED BY <2>1 DEF GenericFinish
<1>2. CASE n \in 4 .. 7
  <2>1. Avx2Finish[n] = {<<"h", n>>} \cup {<<"v", n>>, <<"v", n + 8>>}
    BY <1>2 DEF Avx2Finish, Rows, Before
  <2>. QED BY <2>1 DEF GenericFinish
<1>. QED BY <1>1, <1>2

-----------------------------------------------------------------------------
(* The cycle of rows, continued by one round and by ten. *)
LEMMA OneMore == \A n \in Nat : Append(Rows10(n), n % 10) = Rows10(n + 1)
  BY DEF Rows10

LEMMA QuotientRemainder == \A q \in Nat, r \in 0 .. 9 : (10 * q + r) % 10 = r
  OBVIOUS

(* A concatenation as a function. *)
LEMMA Concatenation ==
  ASSUME NEW r \in Seq(Int), NEW s \in Seq(Int)
  PROVE  r \o s = [j \in 1 .. Len(r) + Len(s) |->
                     IF j <= Len(r) THEN r[j] ELSE s[j - Len(r)]]
<1>1. r \o s \in Seq(Int) /\ Len(r \o s) = Len(r) + Len(s)
  OBVIOUS
<1>2. r \o s = [j \in 1 .. Len(r) + Len(s) |-> (r \o s)[j]]
  <2>1. \A t \in Seq(Int) : t = [j \in 1 .. Len(t) |-> t[j]]
    OBVIOUS
  <2>. QED BY <1>1, <2>1, Zenon
<1>3. \A j \in 1 .. Len(r) + Len(s) :
        (r \o s)[j] = IF j <= Len(r) THEN r[j] ELSE s[j - Len(r)]
  BY ConcatProperties, Zenon
<1>. QED BY <1>2, <1>3, Zenon

LEMMA TenMore ==
  ASSUME NEW k \in Nat
  PROVE  Rows10(10 * k) \o [j \in 1 .. 10 |-> j - 1] = Rows10(10 * (k + 1))
<1>. DEFINE r == Rows10(10 * k)
            s == [j \in 1 .. 10 |-> j - 1]
<1>1. r \in Seq(Int) /\ Len(r) = 10 * k
  BY DEF Rows10
<1>2. s \in Seq(Int) /\ Len(s) = 10
  OBVIOUS
<1>3. r \o s = [j \in 1 .. 10 * k + 10 |-> IF j <= 10 * k THEN r[j] ELSE s[j - 10 * k]]
  <2>. HIDE DEF r, s
  <2>1. r \o s = [j \in 1 .. Len(r) + Len(s) |->
                    IF j <= Len(r) THEN r[j] ELSE s[j - Len(r)]]
    BY <1>1, <1>2, Concatenation, Zenon
  <2>. QED BY <1>1, <1>2, <2>1, Zenon
<1>4. ASSUME NEW j \in 1 .. 10 * k + 10
      PROVE  (IF j <= 10 * k THEN r[j] ELSE s[j - 10 * k]) = (j - 1) % 10
  <2>1. CASE j <= 10 * k
    BY <2>1 DEF Rows10
  <2>2. CASE j > 10 * k
    <3>1. j - 10 * k \in 1 .. 10  BY <2>2
    <3>2. s[j - 10 * k] = j - 10 * k - 1  BY <3>1
    <3>3. (j - 1) % 10 = j - 10 * k - 1  BY <3>1
    <3>. QED BY <2>2, <3>2, <3>3
  <2>. QED BY <2>1, <2>2
<1>5. 10 * (k + 1) = 10 * k + 10
  OBVIOUS
<1>. QED BY <1>3, <1>4, <1>5 DEF Rows10

-----------------------------------------------------------------------------
(* The invariant. *)

(* Types, as far as they are needed. *)
Shape ==
  /\ bytes = [sized |-> bytes.sized, rounds |-> bytes.rounds, f |-> bytes.f, h |-> bytes.h]
  /\ bytes.rounds \in Nat /\ i \in Nat /\ avx2 \in BOOLEAN
  /\ pc \in {"idle", "trap", "generic", "rounds", "avx2", "tens", "ones", "finish"}

(* Either kernel starts from the words of the scalar one. *)
Started ==
  pc \in {"rounds", "tens", "ones", "finish"} => start = GenericStart(bytes.f = 1)

(* How far in sigma's cycle each place of the code is. *)
Progress ==
  \E n \in Nat :
    /\ applied = Rows10(n)
    /\ pc \in {"generic", "avx2"} => i = 0 /\ n = 0
    /\ pc = "rounds" => n = i /\ i <= bytes.rounds
    /\ pc = "tens" => n = 10 * i /\ i <= bytes.rounds \div 10
    /\ pc = "ones" => n = 10 * (bytes.rounds \div 10) + i /\ i <= bytes.rounds % 10
    /\ pc = "finish" => n = bytes.rounds

Inv == Shape /\ Started /\ Progress

LEMMA Rows10Length == \A n \in Nat : Len(Rows10(n)) = n
  BY DEF Rows10

LEMMA AgreeRows == \A r \in Round : StraightRow(r) = r /\ GatheredRow(r) = r
  BY AllAgree DEF Agreeing

LEMMA InvInit == Init => Inv
<1>. SUFFICES ASSUME Init PROVE Inv
  OBVIOUS
<1>. USE DEF Init
<1>1. Shape
  BY BoundsAssumption DEF Shape, Params
<1>2. Started
  BY DEF Started
<1>3. applied = Rows10(0)
  BY DEF Rows10
<1>. QED BY <1>1, <1>2, <1>3 DEF Inv, Progress

LEMMA InvStep == Inv /\ [Next]_vars => Inv'
<1>. SUFFICES ASSUME Inv, [Next]_vars PROVE Inv'
  OBVIOUS
<1>. USE DEF Inv, Shape
<1>. PICK n \in Nat :
       /\ applied = Rows10(n)
       /\ pc \in {"generic", "avx2"} => i = 0 /\ n = 0
       /\ pc = "rounds" => n = i /\ i <= bytes.rounds
       /\ pc = "tens" => n = 10 * i /\ i <= bytes.rounds \div 10
       /\ pc = "ones" => n = 10 * (bytes.rounds \div 10) + i /\ i <= bytes.rounds % 10
       /\ pc = "finish" => n = bytes.rounds
  BY DEF Progress
<1>1. CASE Call
  <2>1. Rows10(0) = <<>>  BY DEF Rows10
  <2>. QED BY <1>1, <2>1 DEF Call, Started, Progress
<1>2. CASE Misaligned
  BY <1>2 DEF Misaligned, Started, Progress
<1>3. CASE Finish
  <2>1. /\ pc' = "idle" /\ UNCHANGED <<avx2, i, start, applied>>
        /\ bytes' = [sized |-> bytes.sized, rounds |-> bytes.rounds, f |-> bytes.f,
                     h |-> bytes'.h]
    <3>. DEFINE h == Compressed(bytes.h, [start |-> start, rows |-> applied,
                       finish |-> IF avx2 THEN Avx2Finish ELSE GenericFinish])
    <3>1. bytes' = [bytes EXCEPT !.h = h] /\ pc' = "idle" /\ UNCHANGED <<avx2, i, start, applied>>
      BY <1>3 DEF Finish
    <3>. HIDE DEF h
    <3>. QED BY <3>1
  <2>. QED BY <2>1 DEF Started, Progress
<1>4. CASE Generic
  BY <1>4 DEF Generic, Started, Progress
<1>5. CASE GenericLoop
  <2>1. CASE i < bytes.rounds
    <3>1. applied' = Rows10(n + 1)
      BY <1>5, <2>1, OneMore DEF GenericLoop
    <3>. QED BY <1>5, <2>1, <3>1 DEF GenericLoop, Started, Progress
  <2>2. CASE ~ (i < bytes.rounds)
    BY <1>5, <2>2 DEF GenericLoop, Started, Progress
  <2>. QED BY <2>1, <2>2
<1>6. CASE Avx2
  <2>1. Avx2Start(bytes.f = 1) = GenericStart(bytes.f = 1)
    BY StartsAgree, Zenon
  <2>2. start' = GenericStart(bytes.f = 1)
    BY <1>6, <2>1 DEF Avx2
  <2>. QED BY <1>6, <2>2 DEF Avx2, Started, Progress
<1>7. CASE Tens
  <2>1. CASE i < bytes.rounds \div 10
    <3>1. [k \in 1 .. 10 |-> StraightRow(k - 1)] = [j \in 1 .. 10 |-> j - 1]
      BY AgreeRows DEF Round
    <3>2. applied' = Rows10(10 * (i + 1))
      BY <1>7, <2>1, <3>1, TenMore DEF Tens
    <3>. QED BY <1>7, <2>1, <3>2 DEF Tens, Started, Progress
  <2>2. CASE ~ (i < bytes.rounds \div 10)
    BY <1>7, <2>2 DEF Tens, Started, Progress
  <2>. QED BY <2>1, <2>2
<1>8. CASE Ones
  <2>1. CASE i < bytes.rounds % 10
    <3>. DEFINE q == bytes.rounds \div 10
    <3>1. q \in Nat /\ i \in 0 .. 9
      BY <2>1
    <3>. HIDE DEF q
    <3>2. i \in Round /\ n % 10 = i
      <4>1. n = 10 * q + i
        BY <1>8 DEF Ones, q
      <4>2. (10 * q + i) % 10 = i
        BY <3>1, QuotientRemainder, Zenon
      <4>. QED BY <3>1, <4>1, <4>2, Zenon DEF Round
    <3>3. applied' = Rows10(n + 1)
      BY <1>8, <2>1, <3>2, OneMore, AgreeRows DEF Ones
    <3>. QED BY <1>8, <2>1, <3>3 DEF Ones, Started, Progress
  <2>2. CASE ~ (i < bytes.rounds % 10)
    BY <1>8, <2>2 DEF Ones, Started, Progress
  <2>. QED BY <2>1, <2>2
<1>9. CASE UNCHANGED vars
  BY <1>9 DEF vars, Started, Progress
<1>. QED BY <1>1, <1>2, <1>3, <1>4, <1>5, <1>6, <1>7, <1>8, <1>9 DEF Next

LEMMA InvAlways == Spec => []Inv
BY InvInit, InvStep, PTL DEF Spec

-----------------------------------------------------------------------------
(* TablesAgree: each of the ten rounds that are written out, and each of the ten
   that gather by the table, makes the words of the scalar round of its row, in
   every state since it is a fact about the tables. *)
THEOREM TablesRight == Spec => []TablesAgree
<1>1. TablesAgree
  BY AllAgree DEF TablesAgree
<1>. QED BY <1>1, PTL

(* RowsInOrder: for every number of rounds, either kernel goes through the rows
   of sigma's cycle in their order, and through as many as it was asked for. *)
THEOREM Cycles == Spec => []RowsInOrder
<1>1. Inv => RowsInOrder
  BY Rows10Length DEF Inv, Progress, RowsInOrder
<1>. QED BY <1>1, InvAlways, PTL

(* The step that writes h applies the function the scalar kernel stands for. *)
LEMMA FinishWhole ==
  ASSUME Inv, Finish
  PROVE  bytes' = [bytes EXCEPT !.h = F(bytes)] /\ outcomes' = Append(outcomes, F(bytes))
<1>. DEFINE c == [start |-> start, rows |-> applied,
                  finish |-> IF avx2 THEN Avx2Finish ELSE GenericFinish]
<1>1. pc = "finish"
  BY DEF Finish
<1>2. applied = Rows10(bytes.rounds) /\ start = GenericStart(bytes.f = 1)
  BY <1>1 DEF Inv, Progress, Started
<1>3. Compressed(bytes.h, c) = F(bytes)
  BY <1>2, FinishesAgree DEF F
<1>. QED BY <1>3 DEF Finish

(* WholeSteps: whichever kernel runs and however many rounds are asked for, the
   argument's memory changes by whole compressions only. *)
THEOREM Whole == Spec => WholeSteps
<1>1. Inv /\ [Next]_vars =>
        [bytes' # bytes => /\ bytes' = [bytes EXCEPT !.h = F(bytes)]
                           /\ outcomes' = Append(outcomes, F(bytes))]_vars
  <2>. SUFFICES ASSUME Inv, [Next]_vars, bytes' # bytes PROVE Finish
    BY FinishWhole
  <2>. QED BY DEF Next, vars, Call, Misaligned, Generic, GenericLoop, Avx2, Tens, Ones
<1>. QED BY <1>1, InvAlways, PTL DEF Spec, WholeSteps

=============================================================================
