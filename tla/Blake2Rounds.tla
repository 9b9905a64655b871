--------------------------- MODULE Blake2Rounds ---------------------------
(***************************************************************************)
(* The arithmetic of the two kernels of the Blake2b compression function,  *)
(* plugin-c/blake2-generic.cpp and plugin-c/blake2-avx2.cpp, on symbolic   *)
(* words: a word is a name, or an operation on words.  Sums and exclusive  *)
(* ors are sets of words, which makes the order they are taken in          *)
(* irrelevant, as it is.  A message word is its index.  An AVX2 register   *)
(* is the tuple of its four words, the lowest first.                       *)
(***************************************************************************)
EXTENDS Integers, Sequences

Round == 0 .. 9

Plus(ws) == <<"plus", ws>>
Xor(ws) == <<"xor", ws>>
Rotr(w, n) == <<"rotr", w, n>>

(* The words a round finds in the sixteen lanes. *)
Before == [n \in 0 .. 15 |-> <<"v", n>>]

M(n) == <<"m", n>>

-----------------------------------------------------------------------------
(* blake2-generic.cpp. *)

B2B_G(v, a, b, c, d, x, y) ==
  LET a1 == Plus({v[a], v[b], x})    d1 == Rotr(Xor({v[d], a1}), 32)
      c1 == Plus({v[c], d1})         b1 == Rotr(Xor({v[b], c1}), 24)
      a2 == Plus({a1, b1, y})        d2 == Rotr(Xor({d1, a2}), 16)
      c2 == Plus({c1, d2})           b2 == Rotr(Xor({b1, c2}), 63)
  IN [v EXCEPT ![a] = a2, ![b] = b2, ![c] = c2, ![d] = d2]

sigma == <<
  <<0, 1, 2, 3, 4, 5, 6, 7, 8, 9, 10, 11, 12, 13, 14, 15>>,
  <<14, 10, 4, 8, 9, 15, 13, 6, 1, 12, 0, 2, 11, 7, 5, 3>>,
  <<11, 8, 12, 0, 5, 2, 15, 13, 10, 14, 3, 6, 7, 1, 9, 4>>,
  <<7, 9, 3, 1, 13, 12, 11, 14, 2, 6, 5, 10, 4, 0, 15, 8>>,
  <<9, 0, 5, 7, 2, 4, 10, 15, 14, 1, 11, 12, 6, 8, 3, 13>>,
  <<2, 12, 6, 10, 0, 11, 8, 3, 4, 13, 7, 5, 15, 14, 1, 9>>,
  <<12, 5, 1, 15, 14, 13, 4, 10, 0, 7, 6, 3, 9, 2, 8, 11>>,
  <<13, 11, 7, 14, 12, 1, 3, 9, 5, 0, 15, 4, 8, 6, 2, 10>>,
  <<6, 15, 14, 9, 11, 3, 0, 8, 12, 2, 13, 7, 1, 4, 10, 5>>,
  <<10, 2, 8, 4, 7, 6, 1, 5, 15, 11, 9, 14, 3, 12, 13, 0>> >>

(* The lanes of the eight calls of B2B_G in a round. *)
Quads == << <<0, 4, 8, 12>>, <<1, 5, 9, 13>>, <<2, 6, 10, 14>>, <<3, 7, 11, 15>>,
            <<0, 5, 10, 15>>, <<1, 6, 11, 12>>, <<2, 7, 8, 13>>, <<3, 4, 9, 14>> >>

(* The round of row r: v[k] is v after its first k calls of B2B_G. *)
GenericRound(r) ==
  LET v[k \in 0 .. 8] ==
        IF k = 0 THEN Before
        ELSE B2B_G(v[k - 1], Quads[k][1], Quads[k][2], Quads[k][3], Quads[k][4],
                   M(sigma[r + 1][2 * k - 1]), M(sigma[r + 1][2 * k]))
  IN v[8]

(* v before the first round, each word as the set of those it is the
   exclusive or of.  ~w is w with all ones. *)
GenericStart(f) ==
  [n \in 0 .. 15 |->
     CASE n < 8 -> {<<"h", n>>}
       [] n = 12 -> {<<"iv", 4>>, <<"t", 0>>}
       [] n = 13 -> {<<"iv", 5>>, <<"t", 1>>}
       [] n = 14 /\ f -> {<<"iv", 6>>, <<"ones">>}
       [] OTHER -> {<<"iv", n - 8>>}]

(* What h becomes after the last round. *)
GenericFinish == [n \in 0 .. 7 |-> {<<"h", n>>, <<"v", n>>, <<"v", n + 8>>}]

-----------------------------------------------------------------------------
(* blake2-avx2.cpp: registers. *)

unpacklo(x, y) == <<x[1], y[1], x[3], y[3]>>
unpackhi(x, y) == <<x[2], y[2], x[4], y[4]>>
alignr8(x, y) == <<y[2], x[1], y[4], x[3]>>
swap(x) == <<x[2], x[1], x[4], x[3]>>      \* shuffle_epi32, (1, 0, 3, 2)
blend33(x, y) == <<y[1], x[2], y[3], x[4]>>
blendF0(x, y) == <<x[1], x[2], y[3], y[4]>>

(* permute4x64 by _MM_SHUFFLE(3 + n, 2 + n, 1 + n, n), modulo 4. *)
rotated(x, n) == [l \in 1 .. 4 |-> x[((l - 1 + n) % 4) + 1]]

(* m_k: two message words, broadcast. *)
Msg(k) == <<2 * k, 2 * k + 1, 2 * k, 2 * k + 1>>
Lo(j, k) == unpacklo(Msg(j), Msg(k))
Hi(j, k) == unpackhi(Msg(j), Msg(k))
Al(j, k) == alignr8(Msg(j), Msg(k))
Bl(j, k) == blend33(Msg(j), Msg(k))

(* A byte shuffle of each word that takes byte j + n to byte j is a rotation
   by n bytes. *)
Shift(from) == CHOOSE n \in 0 .. 7 : \A j \in 0 .. 7 : from[j + 1] = (j + n) % 8

ROT32 == 32
ROTATE24 == 8 * Shift(<<3, 4, 5, 6, 7, 0, 1, 2>>)
ROTATE16 == 8 * Shift(<<2, 3, 4, 5, 6, 7, 0, 1>>)
ROT63 == 63

(* BLAKE2B_LOAD_MSG_r_k for the rounds r that are written out; t0, t1. *)
LOAD_MSG_0_4 == <<
  << <<Lo(0, 1), Lo(2, 3)>>, <<Hi(0, 1), Hi(2, 3)>>, <<Lo(7, 4), Lo(5, 6)>>, <<Hi(7, 4), Hi(5, 6)>> >>,
  << <<Lo(7, 2), Hi(4, 6)>>, <<Lo(5, 4), Al(3, 7)>>, <<Hi(2, 0), Bl(5, 0)>>, <<Al(6, 1), Bl(3, 1)>> >>,
  << <<Al(6, 5), Hi(2, 7)>>, <<Lo(4, 0), Bl(6, 1)>>, <<Al(5, 4), Hi(1, 3)>>, <<Lo(2, 7), Bl(0, 3)>> >>,
  << <<Hi(3, 1), Hi(6, 5)>>, <<Hi(4, 0), Lo(6, 7)>>, <<Al(1, 7), swap(Msg(2))>>, <<Lo(4, 3), Lo(5, 0)>> >>,
  << <<Hi(4, 2), Lo(1, 5)>>, <<Bl(3, 0), Bl(7, 2)>>, <<Al(7, 1), Al(3, 5)>>, <<Hi(6, 0), Lo(6, 4)>> >> >>

LOAD_MSG_5_9 == <<
  << <<Lo(1, 3), Lo(0, 4)>>, <<Lo(6, 5), Hi(5, 1)>>, <<Al(2, 0), Hi(3, 7)>>, <<Hi(4, 6), Al(7, 2)>> >>,
  << <<Bl(0, 6), Lo(7, 2)>>, <<Hi(2, 7), Al(5, 6)>>, <<Lo(4, 0), Bl(4, 3)>>, <<Hi(5, 3), swap(Msg(1))>> >>,
  << <<Hi(6, 3), Bl(1, 6)>>, <<Al(7, 5), Hi(0, 4)>>, <<Bl(2, 1), Al(4, 7)>>, <<Lo(5, 0), Lo(2, 3)>> >>,
  << <<Lo(3, 7), Al(0, 5)>>, <<Hi(7, 4), Al(4, 1)>>, <<Lo(5, 6), Hi(6, 0)>>, <<Al(1, 2), Al(2, 3)>> >>,
  << <<Lo(5, 4), Hi(3, 0)>>, <<Lo(1, 2), Bl(2, 3)>>, <<Hi(6, 7), Hi(4, 1)>>, <<Bl(5, 0), Lo(7, 6)>> >> >>

Straight(r) == LET row == (LOAD_MSG_0_4 \o LOAD_MSG_5_9)[r + 1]
               IN [k \in 1 .. 4 |-> blendF0(row[k][1], row[k][2])]

(* BLAKE2B_LOAD_MSG_i_k: gathered by a table.  No round reads the last two rows. *)
indices == <<
  <<0, 2, 4, 6, 1, 3, 5, 7, 14, 8, 10, 12, 15, 9, 11, 13>>,
  <<14, 4, 9, 13, 10, 8, 15, 6, 5, 1, 0, 11, 3, 12, 2, 7>>,
  <<11, 12, 5, 15, 8, 0, 2, 13, 9, 10, 3, 7, 4, 14, 6, 1>>,
  <<7, 3, 13, 11, 9, 1, 12, 14, 15, 2, 5, 4, 8, 6, 10, 0>>,
  <<9, 5, 2, 10, 0, 7, 4, 15, 3, 14, 11, 6, 13, 1, 12, 8>>,
  <<2, 6, 0, 8, 12, 10, 11, 3, 1, 4, 7, 15, 9, 13, 5, 14>>,
  <<12, 1, 14, 4, 5, 15, 13, 10, 8, 0, 6, 9, 11, 7, 3, 2>>,
  <<13, 7, 12, 3, 11, 14, 1, 9, 2, 5, 15, 8, 10, 0, 4, 6>>,
  <<6, 14, 11, 0, 15, 9, 3, 8, 10, 12, 13, 1, 5, 2, 7, 4>>,
  <<10, 8, 7, 1, 2, 4, 6, 5, 13, 15, 9, 3, 0, 11, 14, 12>>,
  <<0, 2, 4, 6, 1, 3, 5, 7, 14, 8, 10, 12, 15, 9, 11, 13>>,
  <<14, 4, 9, 13, 10, 8, 15, 6, 5, 1, 0, 11, 3, 12, 2, 7>> >>

Gathered(r) == [k \in 1 .. 4 |-> SubSeq(indices[r + 1], 4 * k - 3, 4 * k)]

-----------------------------------------------------------------------------
(* blake2-avx2.cpp: rounds.  q holds the rows a, b, c and d of v. *)

Rows(v) == [a |-> [l \in 1 .. 4 |-> v[l - 1]], b |-> [l \in 1 .. 4 |-> v[l + 3]],
            c |-> [l \in 1 .. 4 |-> v[l + 7]], d |-> [l \in 1 .. 4 |-> v[l + 11]]]

Lanes(q) == [n \in 0 .. 15 |->
               CASE n < 4 -> q.a[n + 1]       [] n \in 4 .. 7 -> q.b[n - 3]
                 [] n \in 8 .. 11 -> q.c[n - 7] [] OTHER -> q.d[n - 11]]

(* BLAKE2B_G1_V1 and G2_V1, which differ in the two rotations. *)
G_V1(q, m, rd, rb) ==
  LET a == [l \in 1 .. 4 |-> Plus({q.a[l], q.b[l], M(m[l])})]
      d == [l \in 1 .. 4 |-> Rotr(Xor({q.d[l], a[l]}), rd)]
      c == [l \in 1 .. 4 |-> Plus({q.c[l], d[l]})]
      b == [l \in 1 .. 4 |-> Rotr(Xor({q.b[l], c[l]}), rb)]
  IN [a |-> a, b |-> b, c |-> c, d |-> d]

G1_V1(q, m) == G_V1(q, m, ROT32, ROTATE24)
G2_V1(q, m) == G_V1(q, m, ROTATE16, ROT63)

(* Mutant: the rows are turned the way they are in the usual arrangement, where
   b turns and a does not. *)
UsualDIAG_V1(q) == [q EXCEPT !.b = rotated(@, 1), !.c = rotated(@, 2), !.d = rotated(@, 3)]

DIAG_V1(q) == [q EXCEPT !.a = rotated(@, 3), !.d = rotated(@, 2), !.c = rotated(@, 1)]
UNDIAG_V1(q) == [q EXCEPT !.a = rotated(@, 1), !.d = rotated(@, 2), !.c = rotated(@, 3)]

ROUND_V1(msg) ==
  LET columns == G2_V1(G1_V1(Rows(Before), msg[1]), msg[2])
      diagonals == G2_V1(G1_V1(DIAG_V1(columns), msg[3]), msg[4])
  IN Lanes(UNDIAG_V1(diagonals))

(* Mutant: the arguments of set_epi64x are written lowest first. *)
ReversedStart(f) ==
  LET iv(n) == <<"iv", n>>
      tf == <<{}, IF f THEN {<<"ones">>} ELSE {}, {<<"t", 1>>}, {<<"t", 0>>}>>
  IN Lanes([a |-> [l \in 1 .. 4 |-> {<<"h", l - 1>>}],
            b |-> [l \in 1 .. 4 |-> {<<"h", l + 3>>}],
            c |-> [l \in 1 .. 4 |-> {iv(l - 1)}],
            d |-> [l \in 1 .. 4 |-> {iv(l + 3)} \cup tf[l]]])

Avx2Start(f) ==
  LET iv(n) == <<"iv", n>>
      tf == <<{<<"t", 0>>}, {<<"t", 1>>}, IF f THEN {<<"ones">>} ELSE {}, {}>>
  IN Lanes([a |-> [l \in 1 .. 4 |-> {<<"h", l - 1>>}],
            b |-> [l \in 1 .. 4 |-> {<<"h", l + 3>>}],
            c |-> [l \in 1 .. 4 |-> {iv(l - 1)}],
            d |-> [l \in 1 .. 4 |-> {iv(l + 3)} \cup tf[l]]])

Avx2Finish ==
  LET q == Rows(Before)
  IN [n \in 0 .. 7 |-> {<<"h", n>>} \cup IF n < 4 THEN {q.a[n + 1], q.c[n + 1]}
                                                 ELSE {q.b[n - 3], q.d[n - 3]}]

-----------------------------------------------------------------------------
(* A round by its meaning: the row of sigma whose generic round makes the same
   sixteen words, or 10 if there is none. *)
Meaning == {<<r, GenericRound(r)>> : r \in Round}
RowOf(words) == IF \E r \in Round : <<r, words>> \in Meaning
                THEN CHOOSE r \in Round : <<r, words>> \in Meaning ELSE 10

StraightRow(r) == RowOf(ROUND_V1(Straight(r)))
GatheredRow(r) == RowOf(ROUND_V1(Gathered(r)))

(* The rounds that both ways of loading the message have right. *)
Agreeing == {r \in Round : StraightRow(r) = r /\ GatheredRow(r) = r}

=============================================================================
