-------------------------- MODULE EngineLoopProofs --------------------------
(***************************************************************************)
(* Until a write is cut off the pipe, pages and all, is a queue of whole   *)
(* messages; the masks of the sensors that are polled follow the switches  *)
(* of the polling trips through it; and the polling interval follows the   *)
(* masks. All of it for any number of sensors, any pipe and any number of  *)
(* calls from other threads.                                               *)
(*                                                                         *)
(* What the recursive functions of the model compute is shown by induction *)
(* in the form of the least counterexample.                                *)
(***************************************************************************)
EXTENDS EngineLoop, FiniteSetTheorems, SequenceTheorems, WellFoundedInduction, TLAPS

\* A set of naturals has a least element: the form in which induction is used.
LEMMA LeastNatural ==
    ASSUME NEW T, T \subseteq Nat, T # {}
    PROVE  \E x \in T : \A y \in T : x <= y
<1> DEFINE R == {ss \in Nat \X Nat : ss[1] < ss[2]}
<1>1. IsWellFoundedOn(R, Nat)
  BY NatLessThanWellFounded DEF OpToRel
<1>2. PICK x \in T : \A y \in T : ~(<<y, x>> \in R)
  BY Zenon, <1>1, WFMin
<1>3. ASSUME NEW y \in T PROVE x <= y
  <2>1. x \in Nat /\ y \in Nat
    OBVIOUS
  <2>2. y < x => <<y, x>> \in R
    BY <2>1
  <2> HIDE DEF R
  <2>3. ~(y < x)
    BY <1>2, <2>2
  <2> QED
    BY <2>1, <2>3
<1> QED
  BY <1>3

\* A sequence that was appended to is not empty.
LEMMA AppendNotEmpty ==
    ASSUME NEW S, NEW q \in Seq(S), NEW e \in S
    PROVE  Append(q, e) \in Seq(S) /\ Append(q, e) # << >>
<1>1. Append(q, e) \in Seq(S) /\ Len(Append(q, e)) = Len(q) + 1 /\ Len(q) \in Nat
  BY AppendProperties, LenProperties
<1>2. Len(Append(q, e)) # 0
  BY <1>1
<1> QED
  BY <1>1, <1>2, EmptySeq

-----------------------------------------------------------------------------
(* The pipe as a queue of messages.                                        *)

MessageType == [msg_id : Nat, sensor : Nat]

PieceType == [m : MessageType, from : Nat, to : Nat, at : Nat]

\* Pieces a and b are message m.
Halves(a, b, m) ==
    /\ a.m = m /\ b.m = m
    /\ a.from = 0 /\ a.to = b.from /\ b.to = MessageWords
    /\ 1 <= a.to /\ a.to < MessageWords

\* The pieces in data are those of the messages ms, and of nothing else.
Whole(data, ms) ==
    /\ ms \in Seq(MessageType)
    /\ data \in Seq(PieceType)
    /\ Len(data) = 2 * Len(ms)
    /\ \A j \in 1 .. Len(ms) : Halves(data[2 * j - 1], data[2 * j], ms[j])

PagesFit(data) == Cardinality(PageStarts(data)) <= PipePages

\* Lengths and types of a pipe with whole messages.
LEMMA WholeFacts ==
    ASSUME NEW data, NEW ms, Whole(data, ms)
    PROVE  /\ Len(ms) \in Nat /\ Len(data) \in Nat /\ Len(data) = 2 * Len(ms)
           /\ DOMAIN ms = 1 .. Len(ms) /\ DOMAIN data = 1 .. Len(data)
           /\ \A k \in 1 .. Len(data) : data[k] \in PieceType
           /\ \A j \in 1 .. Len(ms) : ms[j] \in MessageType
           /\ data = << >> <=> ms = << >>
           /\ ms = << >> <=> Len(ms) = 0
<1>1. ms \in Seq(MessageType) /\ data \in Seq(PieceType) /\ Len(data) = 2 * Len(ms)
  BY DEF Whole
<1>2. /\ Len(ms) \in Nat /\ Len(data) \in Nat
      /\ DOMAIN ms = 1 .. Len(ms) /\ DOMAIN data = 1 .. Len(data)
      /\ \A k \in 1 .. Len(data) : data[k] \in PieceType
      /\ \A j \in 1 .. Len(ms) : ms[j] \in MessageType
  BY <1>1, LenProperties, ElementOfSeq
<1>3. (data = << >> <=> Len(data) = 0) /\ (ms = << >> <=> Len(ms) = 0)
  BY <1>1, EmptySeq
<1>4. Len(data) = 0 <=> Len(ms) = 0
  BY <1>1, <1>2
<1> QED
  BY <1>1, <1>2, <1>3, <1>4

\* A message laid out behind whole messages makes one more.
LEMMA LaidWhole ==
    ASSUME NEW data, NEW ms, Whole(data, ms), NEW m \in MessageType
    PROVE  /\ Whole(Laid(data, m), Append(ms, m))
           /\ Laid(data, m) \in Seq(PieceType)
           /\ Len(Laid(data, m)) = Len(data) + 2
           /\ \A k \in 1 .. Len(data) : Laid(data, m)[k] = data[k]
<1> DEFINE n    == Len(data)
           one  == IF n > 0 /\ data[n].at < PageWords
                   THEN Piece(m, 0, 1, data[n].at + 1) ELSE Piece(m, 0, PageWords, PageWords)
           two  == IF n > 0 /\ data[n].at < PageWords
                   THEN Piece(m, 1, MessageWords, PageWords) ELSE Piece(m, PageWords, MessageWords, 1)
           both == <<one, two>>
           laid == Laid(data, m)
<1>1. /\ n \in Nat /\ data \in Seq(PieceType) /\ \A k \in 1 .. n : data[k] \in PieceType
      /\ Len(ms) \in Nat /\ n = 2 * Len(ms) /\ ms \in Seq(MessageType)
  BY WholeFacts DEF Whole
<1>2. laid = data \o both
  BY DEF Laid
<1>3. one \in PieceType /\ two \in PieceType
  <2>1. n > 0 => data[n] \in PieceType
    <3> HIDE DEF n
    <3>1. n > 0 => n \in 1 .. n
      BY <1>1
    <3> QED
      BY <1>1, <3>1
  <2> QED
    BY <2>1 DEF Piece, PieceType, PageWords, MessageWords
<1>4. Halves(one, two, m)
  BY DEF Halves, Piece, PageWords, MessageWords
<1> HIDE DEF one, two, laid
<1>5. both \in Seq(PieceType) /\ Len(both) = 2 /\ both[1] = one /\ both[2] = two
  BY <1>3
<1> HIDE DEF both
<1>6. /\ laid \in Seq(PieceType) /\ Len(laid) = n + 2
      /\ \A k \in 1 .. n + 2 : laid[k] = IF k <= n THEN data[k] ELSE both[k - n]
  <2>1. /\ data \o both \in Seq(PieceType) /\ Len(data \o both) = n + Len(both)
        /\ \A k \in 1 .. n + Len(both) :
             (data \o both)[k] = IF k <= n THEN data[k] ELSE both[k - n]
    BY Zenon, <1>1, <1>5, ConcatProperties
  <2> HIDE DEF n
  <2> QED
    BY Zenon, <1>2, <1>5, <2>1
<1> DEFINE q == Append(ms, m)
<1>7. /\ q \in Seq(MessageType) /\ Len(q) = Len(ms) + 1
      /\ \A j \in 1 .. Len(ms) : q[j] = ms[j]
      /\ q[Len(ms) + 1] = m
  BY <1>1, AppendProperties
<1> HIDE DEF n, q
<1>8. ASSUME NEW j \in 1 .. Len(q) PROVE Halves(laid[2 * j - 1], laid[2 * j], q[j])
  <2>1. CASE j = Len(ms) + 1
    <3>1. /\ 2 * j - 1 = n + 1 /\ 2 * j = n + 2 /\ ~(n + 1 <= n) /\ ~(n + 2 <= n)
          /\ n + 1 \in 1 .. n + 2 /\ n + 2 \in 1 .. n + 2 /\ (n + 1) - n = 1 /\ (n + 2) - n = 2
      BY <1>1, <2>1 DEF n
    <3>2. laid[2 * j - 1] = one /\ laid[2 * j] = two
      BY <1>5, <1>6, <3>1
    <3> QED
      BY <1>4, <1>7, <2>1, <3>2
  <2>2. CASE j # Len(ms) + 1
    <3>1. /\ j \in 1 .. Len(ms) /\ 2 * j - 1 <= n /\ 2 * j <= n
          /\ 2 * j - 1 \in 1 .. n + 2 /\ 2 * j \in 1 .. n + 2
      BY <1>1, <1>7, <2>2 DEF n
    <3>2. laid[2 * j - 1] = data[2 * j - 1] /\ laid[2 * j] = data[2 * j] /\ q[j] = ms[j]
      BY <1>6, <1>7, <3>1
    <3> QED
      BY <3>1, <3>2 DEF Whole
  <2> QED
    BY <2>1, <2>2
<1>9. Len(laid) = 2 * Len(q)
  BY <1>1, <1>6, <1>7 DEF n
<1>10. Whole(laid, q)
  BY Zenon, <1>6, <1>7, <1>8, <1>9 DEF Whole
<1>11. \A k \in 1 .. n : laid[k] = data[k]
  BY <1>1, <1>6 DEF n
<1> QED
  BY <1>6, <1>10, <1>11 DEF laid, q, n

\* A message that is sent is put behind the others as a whole, or its loss is noted.
LEMMA SendWhole ==
    ASSUME NEW p, NEW ms, Whole(p.data, ms), PagesFit(p.data), NEW m \in MessageType
    PROVE  LET r == send_message(p, m)
           IN  ~r.lost => Whole(r.data, Append(ms, m)) /\ PagesFit(r.data)
<1> DEFINE data == p.data
           n    == Len(data)
           laid == Laid(data, m)
           F    == {k \in n .. Len(laid) : Cardinality(PageStarts(SubSeq(laid, 1, k))) <= PipePages}
           fits == Max(F)
           r    == send_message(p, m)
<1>1. r.data = SubSeq(laid, 1, fits) /\ r.lost = (p.lost \/ fits < Len(laid))
  BY Zenon DEF send_message
<1>2. /\ n \in Nat /\ data \in Seq(PieceType) /\ laid \in Seq(PieceType) /\ Len(laid) = n + 2
      /\ \A k \in 1 .. n : laid[k] = data[k]
      /\ Whole(laid, Append(ms, m))
  <2>1. n \in Nat /\ data \in Seq(PieceType)
    BY WholeFacts DEF Whole
  <2>2. /\ laid \in Seq(PieceType) /\ Len(laid) = Len(data) + 2
        /\ \A k \in 1 .. Len(data) : laid[k] = data[k]
        /\ Whole(laid, Append(ms, m))
    BY LaidWhole
  <2> QED
    BY <2>1, <2>2
<1> HIDE DEF r, laid, n
<1>3. SubSeq(laid, 1, n) = data
  <2>1. \A i \in 1 .. n : laid[i] \in PieceType
    <3>1. \A i \in 1 .. Len(laid) : laid[i] \in PieceType
      BY <1>2, ElementOfSeq
    <3> QED
      BY <1>2, <3>1
  <2>2. /\ SubSeq(laid, 1, n) \in Seq(PieceType)
        /\ Len(SubSeq(laid, 1, n)) = IF 1 <= n THEN n - 1 + 1 ELSE 0
        /\ \A i \in 1 .. n - 1 + 1 : SubSeq(laid, 1, n)[i] = laid[1 + i - 1]
    BY <1>2, <2>1, SubSeqProperties
  <2> DEFINE s == SubSeq(laid, 1, n)
  <2>3. s \in Seq(PieceType) /\ Len(s) = n /\ \A i \in 1 .. n : s[i] = data[i]
    <3> HIDE DEF s
    <3>1. n - 1 + 1 = n /\ (1 <= n \/ n = 0) /\ \A i \in 1 .. n : 1 + i - 1 = i
      BY <1>2
    <3>2. s \in Seq(PieceType) /\ Len(s) = n
      BY <2>2, <3>1 DEF s
    <3>3. \A i \in 1 .. n : s[i] = laid[i]
      BY <2>2, <3>1 DEF s
    <3> QED
      BY <1>2, <3>2, <3>3
  <2> HIDE DEF s
  <2> QED
    BY <1>2, <2>3, SeqEqual DEF s, n
<1>4. SubSeq(laid, 1, Len(laid)) = laid
  BY <1>2, SubSeqFull
<1>5. n \in F
  <2>1. n \in n .. Len(laid)
    BY <1>2
  <2> QED
    BY Zenon, <1>3, <2>1 DEF PagesFit
<1>6. fits \in F
  <2>1. F \subseteq n .. n + 2
    BY <1>2
  <2> HIDE DEF F
  <2>2. \E x \in F : \A y \in F : x >= y
    <3>1. \A y \in F : y = n \/ y = n + 1 \/ y = n + 2
      BY <1>2, <2>1
    <3>2. CASE n + 2 \in F
      BY <1>2, <3>1, <3>2
    <3>3. CASE n + 2 \notin F /\ n + 1 \in F
      BY <1>2, <3>1, <3>3
    <3>4. CASE n + 2 \notin F /\ n + 1 \notin F
      BY <1>2, <1>5, <3>1, <3>4
    <3> QED
      BY <3>2, <3>3, <3>4
  <2> QED
    BY <2>2 DEF Max
<1>7. ASSUME ~r.lost PROVE fits = Len(laid) /\ fits \in F
  <2>1. ~(fits < Len(laid))
    BY Zenon, <1>1, <1>7
  <2>2. fits \in n .. Len(laid)
    BY <1>6
  <2> HIDE DEF fits, F
  <2> QED
    BY <1>2, <1>6, <2>1, <2>2
<1>8. ASSUME ~r.lost PROVE Whole(r.data, Append(ms, m)) /\ PagesFit(r.data)
  <2>1. r.data = laid
    BY <1>1, <1>4, <1>7, <1>8
  <2>2. Cardinality(PageStarts(SubSeq(laid, 1, fits))) <= PipePages
    BY <1>7, <1>8
  <2> QED
    BY Zenon, <1>1, <1>2, <2>1, <2>2 DEF PagesFit
<1> QED
  BY <1>8 DEF r

\* What is lost stays lost, and the pipe stays what it is.
IsPipe(p) == p = [f \in {"data", "lost"} |-> p[f]]

\* A write does not undo a loss.
LEMMA SendKeepsLost ==
    ASSUME NEW p, NEW m
    PROVE  IsPipe(send_message(p, m)) /\ (p.lost => send_message(p, m).lost)
<1> DEFINE r == send_message(p, m)
<1>1. IsPipe(r)
  BY Zenon DEF send_message, IsPipe
<1>2. \E x : r.lost = (p.lost \/ x)
  BY Zenon DEF send_message
<1> QED
  BY Zenon, <1>1, <1>2

\* Nor does a read.
LEMMA UnreadKeepsLost ==
    ASSUME NEW p, IsPipe(p)
    PROVE  IsPipe(Unread(p)) /\ Unread(p).lost = p.lost
<1>1. PICK x : Unread(p) = [p EXCEPT !.data = x]
  BY Zenon DEF Unread
<1> QED
  BY <1>1 DEF IsPipe

\* read() finds the message at the head.
LEMMA ReadWhole ==
    ASSUME NEW data, NEW ms, Whole(data, ms), data # << >>
    PROVE  ms # << >> /\ ReadMessages(data) = {ms[1]}
<1>1. /\ ms # << >> /\ Len(ms) \in Nat /\ Len(ms) >= 1 /\ Len(data) = 2 * Len(ms)
      /\ ms[1] \in MessageType
  BY WholeFacts
<1>2. Len(data) > 1
  BY <1>1
<1>3. Halves(data[1], data[2], ms[1])
  <2>1. 1 \in 1 .. Len(ms) /\ 2 * 1 - 1 = 1 /\ 2 * 1 = 2
    BY <1>1
  <2> QED
    BY <2>1 DEF Whole
<1> DEFINE m      == ms[1]
           second == IF Words(data[1]) > 1 THEN {Word(data[1].m, data[1].from + 1)}
                     ELSE IF Len(data) > 1 THEN {Word(data[2].m, data[2].from)}
                     ELSE Sensors
<1>4. data[1] \in PieceType /\ data[2] \in PieceType
  <2>1. 1 \in 1 .. Len(data) /\ 2 \in 1 .. Len(data)
    BY <1>1
  <2> QED
    BY <2>1, WholeFacts
<1> HIDE DEF m
<1>5. second = {m.sensor}
  <2>1. CASE Words(data[1]) > 1
    BY <1>3, <2>1 DEF Halves, Word, m
  <2>2. CASE ~(Words(data[1]) > 1)
    <3>1. data[2].from = 1
      BY <1>3, <1>4, <2>2 DEF Halves, Words, PieceType
    <3> QED
      BY <1>2, <1>3, <2>2, <3>1 DEF Halves, Word, m
  <2> QED
    BY <2>1, <2>2
<1>6. Word(data[1].m, data[1].from) = m.msg_id
  BY <1>3 DEF Halves, Word, m
<1>7. ReadMessages(data) = {Message(m.msg_id, w) : w \in {m.sensor}}
  BY <1>5, <1>6 DEF ReadMessages
<1>8. Message(m.msg_id, m.sensor) = m
  BY <1>1 DEF Message, MessageType, m
<1> QED
  BY <1>1, <1>7, <1>8 DEF m

\* The sums in Unread: g[k] words are in the first k pieces.
Sums(g, data, n) ==
    /\ g = [k \in 0 .. n |-> g[k]]
    /\ g[0] = 0
    /\ \A k \in 1 .. n : g[k] = g[k - 1] + Words(data[k])

\* The sums exist.
LEMMA SumsExist ==
    ASSUME NEW data, NEW N \in Nat
    PROVE  \E g : Sums(g, data, N)
<1> DEFINE T == {n \in Nat : ~\E g : Sums(g, data, n)}
<1> SUFFICES ASSUME T # {} PROVE FALSE
  OBVIOUS
<1>1. PICK n \in T : \A m \in T : n <= m
  BY Zenon, LeastNatural
<1>2. n \in Nat /\ ~\E g : Sums(g, data, n)
  BY <1>1
<1>3. n # 0
  <2>1. Sums([k \in 0 .. 0 |-> 0], data, 0)
    BY DEF Sums
  <2> QED
    BY <1>2, <2>1
<1>4. n - 1 \in Nat /\ n - 1 \notin T
  BY <1>1, <1>2, <1>3
<1>5. PICK g : Sums(g, data, n - 1)
  BY <1>4
<1> DEFINE h == [k \in 0 .. n |-> IF k = n THEN g[n - 1] + Words(data[n]) ELSE g[k]]
<1>6. h = [k \in 0 .. n |-> h[k]]
  OBVIOUS
<1>7. h[0] = 0
  BY <1>2, <1>3, <1>5 DEF Sums
<1>8. ASSUME NEW k \in 1 .. n PROVE h[k] = h[k - 1] + Words(data[k])
  <2>1. CASE k = n
    BY <1>2, <1>3, <2>1
  <2>2. CASE k # n
    <3>1. k \in 1 .. n - 1 /\ k - 1 \in 0 .. n /\ k - 1 # n /\ k \in 0 .. n
      BY <1>2, <1>3, <2>2
    <3>2. h[k] = g[k] /\ h[k - 1] = g[k - 1]
      BY <2>2, <3>1
    <3> QED
      BY Zenon, <1>5, <3>1, <3>2 DEF Sums
  <2> QED
    BY <2>1, <2>2
<1> HIDE DEF h
<1>9. Sums(h, data, n)
  BY Zenon, <1>6, <1>7, <1>8 DEF Sums
<1> QED
  BY <1>2, <1>9

\* The pieces behind the first MessageWords words, given the sums.
Behind(data, g) ==
    LET left == {k \in DOMAIN data : g[k] > MessageWords}
        k    == Min(left)
    IN  IF left = {} THEN << >>
        ELSE <<[data[k] EXCEPT !.from = @ + MessageWords - g[k - 1]]>>
             \o SubSeq(data, k + 1, Len(data))

\* And they are those of Unread, which leaves what is behind them.
LEMMA UnreadSums ==
    ASSUME NEW p, IsPipe(p), Len(p.data) \in Nat
    PROVE  \E g : Sums(g, p.data, Len(p.data)) /\ Unread(p).data = Behind(p.data, g)
<1> DEFINE N    == Len(p.data)
           D(g) == [k \in 0 .. N |-> IF k = 0 THEN 0 ELSE g[k - 1] + Words(p.data[k])]
           a    == CHOOSE g : g = D(g)
<1>1. PICK g : Sums(g, p.data, N)
  BY Zenon, SumsExist
<1>2. g = D(g)
  <2>1. ASSUME NEW k \in 0 .. N
        PROVE  g[k] = IF k = 0 THEN 0 ELSE g[k - 1] + Words(p.data[k])
    <3>1. k = 0 \/ k \in 1 .. N
      BY DEF N
    <3> QED
      BY Zenon, <1>1, <3>1 DEF Sums
  <2>2. g = [k \in 0 .. N |-> g[k]]
    BY <1>1 DEF Sums
  <2> QED
    BY <2>1, <2>2, Zenon
<1>3. a = D(a)
  BY Zenon, <1>2
<1> DEFINE X == Behind(p.data, a)
<1>4. Unread(p).data = X
  <2>1. Unread(p) = [p EXCEPT !.data = X]
    BY Zenon DEF Unread, Behind
  <2> HIDE DEF X
  <2> QED
    BY <2>1 DEF IsPipe
<1> HIDE DEF a
<1>5. Sums(a, p.data, N)
  <2>1. \A k \in 0 .. N : a[k] = IF k = 0 THEN 0 ELSE a[k - 1] + Words(p.data[k])
    BY <1>3
  <2>2. a = [k \in 0 .. N |-> a[k]]
    BY <1>3, <2>1
  <2>3. 0 \in 0 .. N /\ \A k \in 1 .. N : k \in 0 .. N /\ k # 0
    OBVIOUS
  <2>4. a[0] = 0 /\ \A k \in 1 .. N : a[k] = a[k - 1] + Words(p.data[k])
    BY <2>1, <2>3
  <2> QED
    BY Zenon, <2>2, <2>4 DEF Sums
<1> QED
  BY <1>4, <1>5

\* The read takes the pieces of one message, and leaves the others.
LEMMA UnreadData ==
    ASSUME NEW p, IsPipe(p), NEW ms, Whole(p.data, ms), p.data # << >>
    PROVE  LET t == Unread(p).data
           IN  /\ t \in Seq(PieceType) /\ Len(t) = Len(p.data) - 2
               /\ \A k \in 1 .. Len(p.data) - 2 : t[k] = p.data[k + 2]
<1> DEFINE data == p.data
           n    == Len(data)
           t    == Unread(p).data
<1>1. /\ n \in Nat /\ n >= 2 /\ DOMAIN data = 1 .. n
      /\ data \in Seq(PieceType) /\ \A k \in 1 .. n : data[k] \in PieceType
      /\ Len(ms) \in Nat /\ n = 2 * Len(ms) /\ Len(ms) >= 1
  <2>1. /\ n \in Nat /\ DOMAIN data = 1 .. n /\ data \in Seq(PieceType)
        /\ \A k \in 1 .. n : data[k] \in PieceType
        /\ Len(ms) \in Nat /\ n = 2 * Len(ms) /\ ms # << >> /\ (ms = << >> <=> Len(ms) = 0)
    BY WholeFacts DEF Whole
  <2> HIDE DEF n
  <2>2. Len(ms) >= 1 /\ n >= 2
    BY <2>1
  <2> QED
    BY <2>1, <2>2 DEF n
<1>2. PICK g : Sums(g, data, n) /\ t = Behind(data, g)
  BY <1>1, UnreadSums
<1> DEFINE left == {k \in DOMAIN data : g[k] > MessageWords}
           k    == Min(left)
<1>3. t = IF left = {} THEN << >>
          ELSE <<[data[k] EXCEPT !.from = @ + MessageWords - g[k - 1]]>> \o SubSeq(data, k + 1, n)
  BY <1>2 DEF Behind
<1> HIDE DEF n, data, t
<1>4. Halves(data[1], data[2], ms[1])
  <2>1. 1 \in 1 .. Len(ms) /\ 2 * 1 - 1 = 1 /\ 2 * 1 = 2
    BY <1>1
  <2> QED
    BY <2>1 DEF Whole, data
<1>5. data[1] \in PieceType /\ data[2] \in PieceType
  BY <1>1
<1>6. g[0] = 0 /\ g[1] = g[0] + Words(data[1]) /\ g[2] = g[1] + Words(data[2])
  <2>1. 1 \in 1 .. n /\ 2 \in 1 .. n /\ 1 - 1 = 0 /\ 2 - 1 = 1
    BY <1>1
  <2> QED
    BY Zenon, <1>2, <2>1 DEF Sums
<1>7. g[1] <= MessageWords /\ g[2] = MessageWords
  BY <1>4, <1>5, <1>6 DEF Halves, Words, PieceType, MessageWords, PageWords
<1>8. CASE n = 2
  <2>1. \A j \in 1 .. n : j = 1 \/ j = 2
    BY <1>8
  <2>2. ~(g[1] > MessageWords) /\ ~(g[2] > MessageWords)
    <3>1. g[1] \in Int /\ g[2] \in Int
      BY SMTT(30), <1>5, <1>6 DEF Words, PieceType
    <3> QED
      BY <1>7, <3>1 DEF MessageWords, PageWords
  <2>3. left = {}
    BY <1>1, <2>1, <2>2
  <2>4. t = << >>
    BY <1>3, <2>3
  <2>5. t \in Seq(PieceType) /\ Len(t) = 0
    BY <2>4
  <2> QED
    BY <1>8, <2>5 DEF t, n, data
<1>9. CASE n # 2
  <2>1. n >= 4 /\ 3 \in 1 .. n
    BY <1>1, <1>9
  <2>2. Halves(data[3], data[4], ms[2]) /\ data[3] \in PieceType
    <3>1. 2 \in 1 .. Len(ms) /\ 2 * 2 - 1 = 3 /\ 2 * 2 = 4
      BY <1>1, <1>9
    <3> QED
      BY <1>1, <2>1, <3>1 DEF Whole, data
  <2>3. g[3] = g[2] + Words(data[3])
    <3>1. 3 - 1 = 2
      OBVIOUS
    <3> QED
      BY Zenon, <1>2, <2>1, <3>1 DEF Sums
  <2>4. g[3] > MessageWords
    BY <1>7, <2>2, <2>3 DEF Halves, Words, PieceType, MessageWords, PageWords
  <2>5. 3 \in left /\ \A j \in left : j \in Int /\ 3 <= j
    <3>1. ~(g[1] > MessageWords) /\ ~(g[2] > MessageWords)
      <4>1. g[1] \in Int /\ g[2] \in Int
        BY <1>5, <1>6 DEF Words, PieceType
      <4> QED
        BY <1>7, <4>1 DEF MessageWords, PageWords
    <3>2. 1 \notin left /\ 2 \notin left
      BY <3>1
    <3>3. 3 \in left
      BY <1>1, <2>1, <2>4
    <3>4. \A j \in left : j \in 1 .. n
      BY <1>1
    <3> HIDE DEF left
    <3> QED
      BY SMTT(30), <1>1, <3>2, <3>3, <3>4
  <2> HIDE DEF left
  <2>6. k = 3
    BY <2>5 DEF Min
  <2> DEFINE first == [data[k] EXCEPT !.from = @ + MessageWords - g[k - 1]]
             rest  == SubSeq(data, k + 1, n)
  <2>7. first = data[3]
    <3>1. g[k - 1] = MessageWords
      BY <1>7, <2>6
    <3>2. data[3].from \in Nat /\ data[3].from + MessageWords - MessageWords = data[3].from
      BY <2>2 DEF PieceType, MessageWords, PageWords
    <3>3. [data[3] EXCEPT !.from = data[3].from] = data[3]
      BY <2>2 DEF PieceType
    <3> QED
      BY <2>6, <3>1, <3>2, <3>3
  <2>8. /\ rest \in Seq(PieceType) /\ Len(rest) = n - 3
        /\ \A j \in 1 .. n - 3 : rest[j] = data[3 + j]
    <3>1. \A i \in 4 .. n : data[i] \in PieceType
      BY <1>1
    <3>2. /\ SubSeq(data, 4, n) \in Seq(PieceType)
          /\ Len(SubSeq(data, 4, n)) = IF 4 <= n THEN n - 4 + 1 ELSE 0
          /\ \A i \in 1 .. n - 4 + 1 : SubSeq(data, 4, n)[i] = data[4 + i - 1]
      BY <1>1, <3>1, SubSeqProperties
    <3>3. n - 4 + 1 = n - 3 /\ 4 <= n /\ \A i \in 1 .. n - 3 : 4 + i - 1 = 3 + i
      BY <1>1, <2>1
    <3>4. rest = SubSeq(data, 4, n)
      BY <2>6
    <3> HIDE DEF rest
    <3> QED
      BY <3>2, <3>3, <3>4
  <2>9. t = <<data[3]>> \o rest
    BY Zenon, <1>3, <2>5, <2>7
  <2> HIDE DEF rest
  <2>10. /\ <<data[3]>> \in Seq(PieceType) /\ Len(<<data[3]>>) = 1 /\ <<data[3]>>[1] = data[3]
    BY <2>2
  <2> DEFINE one == <<data[3]>>
  <2> HIDE DEF one
  <2>11. /\ t \in Seq(PieceType) /\ Len(t) = Len(one) + Len(rest)
         /\ \A i \in 1 .. Len(one) + Len(rest) :
              t[i] = IF i <= Len(one) THEN one[i] ELSE rest[i - Len(one)]
    BY <2>8, <2>9, <2>10, ConcatProperties DEF one
  <2>12. Len(t) = n - 2
    BY <1>1, <2>8, <2>10, <2>11 DEF one
  <2>13. ASSUME NEW i \in 1 .. n - 2 PROVE t[i] = data[i + 2]
    <3>1. i \in 1 .. Len(one) + Len(rest) /\ Len(one) = 1
      BY <1>1, <2>8, <2>10 DEF one
    <3>2. CASE i = 1
      <4>1. t[1] = one[1] /\ i + 2 = 3
        BY <2>11, <3>1, <3>2
      <4> QED
        BY <2>10, <3>2, <4>1 DEF one
    <3>3. CASE i # 1
      <4>1. ~(i <= 1) /\ i - 1 \in 1 .. n - 3 /\ 3 + (i - 1) = i + 2
        BY <1>1, <3>3
      <4>2. t[i] = rest[i - 1]
        BY <2>11, <3>1, <4>1
      <4> QED
        BY <2>8, <4>1, <4>2
    <3> QED
      BY <3>2, <3>3
  <2> QED
    BY <2>11, <2>12, <2>13 DEF t, n, data
<1> QED
  BY SMTT(30), <1>8, <1>9

\* Reading a message frees pages and never needs one.
LEMMA FewerPages ==
    ASSUME NEW data \in Seq(PieceType), NEW t \in Seq(PieceType), Len(t) = Len(data) - 2,
           \A k \in 1 .. Len(data) - 2 : t[k] = data[k + 2], PagesFit(data)
    PROVE  PagesFit(t)
<1> DEFINE n == Len(data)
           S == PageStarts(t)
           T == PageStarts(data)
           f == [k \in S |-> IF k = 1 THEN 1 ELSE k + 2]
<1>1. n \in Nat /\ Len(t) \in Nat /\ DOMAIN data = 1 .. n /\ DOMAIN t = 1 .. n - 2
  BY LenProperties
<1>2. IsFiniteSet(T)
  <2>1. T \subseteq 1 .. n
    BY <1>1 DEF PageStarts
  <2>2. IsFiniteSet(1 .. n)
    BY <1>1, FS_Interval
  <2> QED
    BY <2>1, <2>2, FS_Subset
<1> HIDE DEF n
<1>3. ASSUME NEW k \in S PROVE k \in Int /\ 1 <= k /\ k <= n - 2 /\ f[k] \in T
  <2>1. k \in 1 .. n - 2 /\ (k = 1 \/ t[k].at = Words(t[k]))
    BY <1>1 DEF PageStarts
  <2>2. k \in Int /\ 1 <= k /\ k <= n - 2 /\ 1 \in 1 .. n /\ k + 2 \in 1 .. n
    BY <1>1, <2>1
  <2>3. CASE k = 1
    <3>1. f[k] = 1
      BY <2>3
    <3> QED
      BY <1>1, <2>2, <3>1 DEF PageStarts
  <2>4. CASE k # 1
    <3>1. f[k] = k + 2
      BY <2>4
    <3>2. t[k] = data[k + 2]
      BY <2>1 DEF n
    <3> QED
      BY <1>1, <2>1, <2>2, <2>4, <3>1, <3>2 DEF PageStarts
  <2> QED
    BY <2>3, <2>4
<1>4. f \in Injection(S, T)
  <2>1. f \in [S -> T]
    BY <1>3
  <2>2. ASSUME NEW a \in S, NEW b \in S, f[a] = f[b] PROVE a = b
    <3>1. a \in Int /\ b \in Int /\ 1 <= a /\ 1 <= b
      BY <1>3
    <3>2. (IF a = 1 THEN 1 ELSE a + 2) = (IF b = 1 THEN 1 ELSE b + 2)
      BY <2>2
    <3> HIDE DEF f
    <3>3. CASE a = 1
      BY <3>1, <3>2, <3>3
    <3>4. CASE a # 1
      BY <3>1, <3>2, <3>4
    <3> QED
      BY <3>3, <3>4
  <2> QED
    BY <2>1, <2>2 DEF Injection, IsInjective
<1>5. IsFiniteSet(S) /\ Cardinality(S) <= Cardinality(T)
  BY <1>2, <1>4, FS_Injection
<1>6. Cardinality(S) \in Nat /\ Cardinality(T) \in Nat
  BY <1>2, <1>5, FS_CardinalityType
<1> HIDE DEF S, T, f
<1> QED
  BY <1>5, <1>6, PipeAssumption DEF PagesFit, S, T

\* A read leaves the messages behind the first, and room enough.
LEMMA UnreadWhole ==
    ASSUME NEW p, IsPipe(p), NEW ms, Whole(p.data, ms), p.data # << >>, PagesFit(p.data)
    PROVE  Whole(Unread(p).data, Tail(ms)) /\ PagesFit(Unread(p).data)
<1> DEFINE data == p.data
           t    == Unread(p).data
           n    == Len(data)
           q    == Tail(ms)
<1>1. /\ t \in Seq(PieceType) /\ Len(t) = n - 2
      /\ \A k \in 1 .. n - 2 : t[k] = data[k + 2]
  BY Zenon, UnreadData
<1>2. data \in Seq(PieceType) /\ ms \in Seq(MessageType) /\ ms # << >>
  BY WholeFacts DEF Whole
<1>3. PagesFit(t)
  BY Zenon, <1>1, <1>2, FewerPages
<1>4. Len(ms) \in Nat /\ n = 2 * Len(ms) /\ n \in Nat
  BY WholeFacts
<1>5. /\ q \in Seq(MessageType) /\ Len(q) = Len(ms) - 1
      /\ \A j \in 1 .. Len(ms) - 1 : q[j] = ms[j + 1]
  BY <1>2, HeadTailProperties
<1> HIDE DEF data, t, n, q
<1>6. ASSUME NEW j \in 1 .. Len(q) PROVE Halves(t[2 * j - 1], t[2 * j], q[j])
  <2>1. /\ j + 1 \in 1 .. Len(ms) /\ 2 * j - 1 \in 1 .. n - 2 /\ 2 * j \in 1 .. n - 2
        /\ (2 * j - 1) + 2 = 2 * (j + 1) - 1 /\ 2 * j + 2 = 2 * (j + 1)
        /\ j \in 1 .. Len(ms) - 1
    BY <1>4, <1>5
  <2>2. Halves(data[2 * (j + 1) - 1], data[2 * (j + 1)], ms[j + 1])
    BY <2>1 DEF Whole, data
  <2>3. t[2 * j - 1] = data[2 * (j + 1) - 1] /\ t[2 * j] = data[2 * (j + 1)] /\ q[j] = ms[j + 1]
    BY <1>1, <1>5, <2>1
  <2> QED
    BY <2>2, <2>3
<1>7. Len(t) = 2 * Len(q)
  BY <1>1, <1>4, <1>5
<1>8. Whole(t, q)
  BY Zenon, <1>1, <1>5, <1>6, <1>7 DEF Whole
<1> QED
  BY <1>3, <1>8 DEF t, q

-----------------------------------------------------------------------------
(* What becomes of a mask when the messages ms have been handled.          *)

Concerns(ms, s, e, d) ==
    {j \in 1 .. Len(ms) : ms[j].msg_id \in {e, d} /\ ms[j].sensor = s}

\* Sensor s is in the mask in the end.
EndsIn(mask, ms, s, e, d) ==
    \/ Concerns(ms, s, e, d) = {} /\ s \in mask
    \/ \E k \in Concerns(ms, s, e, d) :
         ms[k].msg_id = e /\ \A l \in Concerns(ms, s, e, d) : l <= k

Outcome(mask, ms, e, d) == {s \in mask \cup Sensors : EndsIn(mask, ms, s, e, d)}

\* The mask after message m.
MaskAfter(mask, m, e, d) ==
    IF m.msg_id = e THEN mask \cup {m.sensor}
    ELSE IF m.msg_id = d THEN mask \ {m.sensor} ELSE mask

\* What Settled reads off the pieces is what the messages say.
LEMMA SettledIsOutcome ==
    ASSUME NEW ms, Whole(pipe.data, ms), NEW mask, NEW e, NEW d
    PROVE  Settled(mask, e, d) = Outcome(mask, ms, e, d)
<1> SUFFICES ASSUME NEW s
             PROVE  \/ Switches(s, e, d) = {} /\ s \in mask
                    \/ \E k \in Switches(s, e, d) :
                         pipe.data[k].m.msg_id = e /\ \A l \in Switches(s, e, d) : l <= k
                    <=> EndsIn(mask, ms, s, e, d)
  BY DEF Settled, Outcome
<1> DEFINE data == pipe.data
           W    == Switches(s, e, d)
           C    == Concerns(ms, s, e, d)
<1>1. Len(ms) \in Nat /\ Len(data) = 2 * Len(ms) /\ DOMAIN data = 1 .. Len(data)
  BY WholeFacts
<1>2. C \subseteq 1 .. Len(ms)
  BY SMTT(30) DEF Concerns
<1>3. ASSUME NEW j \in 1 .. Len(ms)
      PROVE  (j \in C <=> 2 * j - 1 \in W) /\ 2 * j \notin W /\ data[2 * j - 1].m = ms[j]
  <2>1. Halves(data[2 * j - 1], data[2 * j], ms[j])
    BY DEF Whole
  <2>2. 2 * j - 1 \in DOMAIN data
    BY <1>1
  <2>3. data[2 * j - 1].m = ms[j] /\ data[2 * j - 1].from = 0
    BY <2>1 DEF Halves
  <2>4. data[2 * j].from # 0
    <3>1. 2 * j - 1 \in 1 .. Len(data)
      BY <1>1
    <3>2. data[2 * j - 1].to \in Nat
      BY <3>1, WholeFacts DEF PieceType
    <3> QED
      BY <2>1, <3>2 DEF Halves
  <2> QED
    BY <2>2, <2>3, <2>4 DEF Switches, Concerns
<1>4. ASSUME NEW k \in W PROVE \E j \in C : k = 2 * j - 1
  <2>1. k \in 1 .. 2 * Len(ms)
    BY <1>1 DEF Switches
  <2>2. PICK j \in 1 .. Len(ms) : k = 2 * j - 1 \/ k = 2 * j
    <3>1. CASE k % 2 = 0
      <4>1. k \div 2 \in 1 .. Len(ms) /\ k = 2 * (k \div 2)
        BY <1>1, <2>1, <3>1
      <4> QED
        BY <4>1
    <3>2. CASE k % 2 # 0
      <4>1. (k + 1) \div 2 \in 1 .. Len(ms) /\ k = 2 * ((k + 1) \div 2) - 1
        BY <1>1, <2>1, <3>2
      <4> QED
        BY <4>1
    <3> QED
      BY <3>1, <3>2
  <2> QED
    BY <1>3, <2>2
<1> HIDE DEF W, C, data
<1>5. W = {} <=> C = {}
  BY <1>2, <1>3, <1>4
<1>6. ASSUME NEW j \in C
      PROVE  /\ 2 * j - 1 \in W /\ data[2 * j - 1].m = ms[j]
             /\ (\A l \in C : l <= j) <=> (\A l \in W : l <= 2 * j - 1)
  <2>1. j \in 1 .. Len(ms) /\ 2 * j - 1 \in W /\ data[2 * j - 1].m = ms[j]
    BY <1>2, <1>3
  <2>2. ASSUME \A l \in C : l <= j, NEW k \in W PROVE k <= 2 * j - 1
    <3>1. PICK i \in C : k = 2 * i - 1
      BY <1>4
    <3>2. i \in 1 .. Len(ms) /\ i <= j
      BY <1>2, <2>2
    <3> QED
      BY <1>1, <2>1, <3>1, <3>2
  <2>3. ASSUME \A l \in W : l <= 2 * j - 1, NEW i \in C PROVE i <= j
    <3>1. i \in 1 .. Len(ms) /\ 2 * i - 1 \in W
      BY <1>2, <1>3
    <3>2. 2 * i - 1 <= 2 * j - 1
      BY <2>3, <3>1
    <3> QED
      BY <1>1, <2>1, <3>1, <3>2
  <2> QED
    BY <2>1, <2>2, <2>3
<1>7. (\E k \in W : data[k].m.msg_id = e /\ \A l \in W : l <= k)
      <=> (\E j \in C : ms[j].msg_id = e /\ \A l \in C : l <= j)
  <2>1. ASSUME NEW j \in C, ms[j].msg_id = e, \A l \in C : l <= j
        PROVE  \E k \in W : data[k].m.msg_id = e /\ \A l \in W : l <= k
    BY <1>6, <2>1
  <2>2. ASSUME NEW k \in W, data[k].m.msg_id = e, \A l \in W : l <= k
        PROVE  \E j \in C : ms[j].msg_id = e /\ \A l \in C : l <= j
    BY <1>4, <1>6, <2>2
  <2> QED
    BY <2>1, <2>2
<1> QED
  BY <1>5, <1>7 DEF EndsIn, W, C, data

\* A sensor ends as before once the first message has been handled.
LEMMA EndsInRead ==
    ASSUME NEW ms \in Seq(MessageType), ms # << >>, NEW mask, NEW e, NEW d, NEW s, e # d
    PROVE  EndsIn(mask, ms, s, e, d) <=> EndsIn(MaskAfter(mask, ms[1], e, d), Tail(ms), s, e, d)
<1> DEFINE t == Tail(ms)
           n == Len(ms)
           C == Concerns(ms, s, e, d)
           D == Concerns(t, s, e, d)
           next == MaskAfter(mask, ms[1], e, d)
<1>1. n \in Nat /\ n > 0
  BY EmptySeq, LenProperties
<1>2. Len(t) = n - 1 /\ \A j \in 1 .. n - 1 : t[j] = ms[j + 1]
  BY HeadTailProperties
<1> HIDE DEF t, n, next
<1>3. C = {j \in 1 .. n : ms[j].msg_id \in {e, d} /\ ms[j].sensor = s}
  BY DEF Concerns, n
<1>4. D = {j \in 1 .. n - 1 : t[j].msg_id \in {e, d} /\ t[j].sensor = s}
  BY <1>2 DEF Concerns
<1> HIDE DEF C, D
<1>5. ASSUME NEW j \in 1 .. n - 1
      PROVE  (j \in D <=> j + 1 \in C) /\ t[j] = ms[j + 1]
  <2>1. j + 1 \in 1 .. n /\ t[j] = ms[j + 1]
    BY <1>1, <1>2
  <2> QED
    BY <1>3, <1>4, <2>1
<1>6. ASSUME NEW k \in C, k # 1 PROVE k - 1 \in D /\ k - 1 \in 1 .. n - 1 /\ k = (k - 1) + 1
  <2>1. k \in 1 .. n
    BY <1>3
  <2>2. k - 1 \in 1 .. n - 1 /\ k = (k - 1) + 1
    BY <1>1, <1>6, <2>1
  <2>3. k - 1 \in D <=> (k - 1) + 1 \in C
    BY <1>5, <2>2
  <2> QED
    BY <2>2, <2>3
<1>7. D \subseteq 1 .. n - 1 /\ C \subseteq 1 .. n
  BY <1>3, <1>4
<1>8. CASE D = {}
  <2>1. C \subseteq {1}
    BY <1>6, <1>8
  <2>2. EndsIn(next, t, s, e, d) <=> s \in next
    BY <1>8 DEF EndsIn, D
  <2>3. CASE 1 \in C
    <3>1. C = {1}
      BY Zenon, <2>1, <2>3
    <3>2. EndsIn(mask, ms, s, e, d) <=> ms[1].msg_id = e
      BY <3>1 DEF EndsIn, C
    <3>3. ms[1].msg_id \in {e, d} /\ ms[1].sensor = s
      BY <1>3, <2>3
    <3>4. s \in next <=> ms[1].msg_id = e
      BY <3>3 DEF MaskAfter, next
    <3> QED
      BY <2>2, <3>2, <3>4 DEF next, t
  <2>4. CASE 1 \notin C
    <3>1. C = {}
      BY <2>1, <2>4
    <3>2. EndsIn(mask, ms, s, e, d) <=> s \in mask
      BY <3>1 DEF EndsIn, C
    <3>3. 1 \in 1 .. n
      BY <1>1
    <3>4. s \in next <=> s \in mask
      BY <1>3, <2>4, <3>3 DEF MaskAfter, next
    <3> QED
      BY <2>2, <3>2, <3>4 DEF next, t
  <2> QED
    BY <2>3, <2>4
<1>9. CASE D # {}
  <2>1. PICK i \in D : TRUE
    BY <1>9
  <2>2. C # {} /\ i + 1 \in C /\ i + 1 > 1
    BY <1>1, <1>5, <1>7, <2>1
  <2>3. EndsIn(mask, ms, s, e, d) <=> \E k \in C : ms[k].msg_id = e /\ \A l \in C : l <= k
    BY <2>2 DEF EndsIn, C
  <2>4. EndsIn(next, t, s, e, d) <=> \E k \in D : t[k].msg_id = e /\ \A l \in D : l <= k
    BY <1>9 DEF EndsIn, D
  <2>5. ASSUME NEW k \in C, ms[k].msg_id = e, \A l \in C : l <= k
        PROVE  \E j \in D : t[j].msg_id = e /\ \A l \in D : l <= j
    <3>1. i + 1 <= k /\ k \in 1 .. n
      BY <1>7, <2>2, <2>5
    <3>2. k # 1
      BY <1>7, <2>2, <3>1
    <3>3. k - 1 \in D /\ k - 1 \in 1 .. n - 1 /\ k = (k - 1) + 1
      BY <1>6, <3>2
    <3>4. t[k - 1].msg_id = e
      BY <1>5, <2>5, <3>3
    <3>5. ASSUME NEW l \in D PROVE l <= k - 1
      <4>1. l \in 1 .. n - 1 /\ l + 1 \in C
        BY <1>5, <1>7
      <4>2. l + 1 <= k
        BY <2>5, <4>1
      <4> QED
        BY <3>1, <4>1, <4>2
    <3> QED
      BY <3>3, <3>4, <3>5
  <2>6. ASSUME NEW k \in D, t[k].msg_id = e, \A l \in D : l <= k
        PROVE  \E j \in C : ms[j].msg_id = e /\ \A l \in C : l <= j
    <3>1. k \in 1 .. n - 1 /\ k + 1 \in C /\ ms[k + 1].msg_id = e
      BY <1>5, <1>7, <2>6
    <3>2. ASSUME NEW l \in C PROVE l <= k + 1
      <4>1. CASE l = 1
        BY <3>1, <4>1
      <4>2. CASE l # 1
        <5>1. l - 1 \in D /\ l \in 1 .. n
          BY <1>6, <1>7, <4>2
        <5>2. l - 1 <= k
          BY <2>6, <5>1
        <5> QED
          BY <3>1, <5>1, <5>2
      <4> QED
        BY <4>1, <4>2
    <3> QED
      BY <3>1, <3>2
  <2>7. EndsIn(mask, ms, s, e, d) <=> EndsIn(next, t, s, e, d)
    BY <2>3, <2>4, <2>5, <2>6
  <2> QED
    BY <2>7 DEF next, t
<1> QED
  BY <1>8, <1>9

\* Handling the first message does not change what a mask will be in the end.
LEMMA OutcomeRead ==
    ASSUME NEW ms \in Seq(MessageType), ms # << >>, NEW mask, NEW e, NEW d, e # d,
           ms[1].msg_id \in {e, d} => ms[1].sensor \in Sensors
    PROVE  Outcome(MaskAfter(mask, ms[1], e, d), Tail(ms), e, d) = Outcome(mask, ms, e, d)
<1>1. MaskAfter(mask, ms[1], e, d) \cup Sensors = mask \cup Sensors
  BY DEF MaskAfter
<1>2. \A s : EndsIn(mask, ms, s, e, d) <=> EndsIn(MaskAfter(mask, ms[1], e, d), Tail(ms), s, e, d)
  BY EndsInRead
<1> QED
  BY <1>1, <1>2 DEF Outcome

\* A message that is sent is the last word about its sensor.
LEMMA EndsInSent ==
    ASSUME NEW ms \in Seq(MessageType), NEW m \in MessageType, NEW mask, NEW e, NEW d, NEW s
    PROVE  EndsIn(mask, Append(ms, m), s, e, d)
           <=> IF m.msg_id \in {e, d} /\ m.sensor = s THEN m.msg_id = e
               ELSE EndsIn(mask, ms, s, e, d)
<1> DEFINE q == Append(ms, m)
           n == Len(ms)
           C == Concerns(ms, s, e, d)
           D == Concerns(q, s, e, d)
<1>1. n \in Nat
  BY LenProperties
<1>2. Len(q) = n + 1 /\ q[n + 1] = m /\ \A j \in 1 .. n : q[j] = ms[j]
  BY AppendProperties
<1> HIDE DEF q, n
<1>3. C = {j \in 1 .. n : ms[j].msg_id \in {e, d} /\ ms[j].sensor = s}
  BY DEF Concerns, n
<1>4. D = {j \in 1 .. n + 1 : q[j].msg_id \in {e, d} /\ q[j].sensor = s}
  BY <1>2 DEF Concerns
<1> HIDE DEF C, D
<1>5. \A j \in 1 .. n : j \in 1 .. n + 1 /\ j <= n + 1 /\ j # n + 1
  BY <1>1
<1>6. n + 1 \in 1 .. n + 1 /\ \A j \in 1 .. n + 1 : j = n + 1 \/ j \in 1 .. n
  BY <1>1
<1>7. \A j \in 1 .. n + 1 : j <= n + 1
  BY <1>1
<1>8. CASE m.msg_id \in {e, d} /\ m.sensor = s
  <2>1. n + 1 \in D /\ D \subseteq 1 .. n + 1
    BY <1>2, <1>4, <1>6, <1>8
  <2>2. ASSUME NEW k \in D, \A l \in D : l <= k PROVE k = n + 1
    <3>1. k \in 1 .. n + 1 /\ n + 1 <= k
      BY Zenon, <2>1, <2>2
    <3> QED
      BY <1>1, <3>1
  <2>3. \A l \in D : l <= n + 1
    BY <1>7, <2>1
  <2>4. (\E k \in D : q[k].msg_id = e /\ \A l \in D : l <= k) <=> m.msg_id = e
    BY <1>2, <2>1, <2>2, <2>3
  <2>5. EndsIn(mask, q, s, e, d) <=> m.msg_id = e
    BY <2>1, <2>4 DEF EndsIn, D
  <2> QED
    BY <1>8, <2>5 DEF q
<1>9. CASE ~(m.msg_id \in {e, d} /\ m.sensor = s)
  <2>1. C = D
    <3>1. ASSUME NEW j \in C PROVE j \in D
      <4>1. j \in 1 .. n
        BY <1>3
      <4> QED
        BY <1>2, <1>3, <1>4, <1>5, <4>1
    <3>2. ASSUME NEW j \in D PROVE j \in C
      <4>1. j \in 1 .. n + 1 /\ j # n + 1
        BY <1>2, <1>4, <1>9
      <4>2. j \in 1 .. n
        BY <1>6, <4>1
      <4> QED
        BY <1>2, <1>3, <1>4, <4>2
    <3> QED
      BY Zenon, <3>1, <3>2
  <2>2. \A k \in C : q[k] = ms[k]
    BY <1>2, <1>3
  <2>3. EndsIn(mask, q, s, e, d) <=> EndsIn(mask, ms, s, e, d)
    BY <2>1, <2>2 DEF EndsIn, C, D
  <2> QED
    BY <1>9, <2>3 DEF q
<1> QED
  BY <1>8, <1>9

\* A switch that is sent ends in the mask as it says.
LEMMA OutcomeSent ==
    ASSUME NEW ms \in Seq(MessageType), NEW m \in MessageType, NEW mask, NEW e, NEW d, e # d,
           m.msg_id \in {e, d} => m.sensor \in Sensors
    PROVE  Outcome(mask, Append(ms, m), e, d) = MaskAfter(Outcome(mask, ms, e, d), m, e, d)
<1>1. \A s : EndsIn(mask, Append(ms, m), s, e, d)
             <=> IF m.msg_id \in {e, d} /\ m.sensor = s THEN m.msg_id = e
                 ELSE EndsIn(mask, ms, s, e, d)
  BY SMTT(30), EndsInSent
<1> QED
  BY <1>1 DEF Outcome, MaskAfter

-----------------------------------------------------------------------------
(* What is true of the messages in the pipe, the masks and the timeout.    *)

PollIds == {POLL_ENABLE, POLL_DISABLE}

FastIds == {FAST_POLL_ENABLE, FAST_POLL_DISABLE}

\* Messages p and f are what one switch of a polling trip sends.
Pair(p, f) ==
    /\ p.sensor = f.sensor
    /\ \/ p.msg_id = POLL_ENABLE /\ f.msg_id = FAST_POLL_ENABLE
       \/ p.msg_id = POLL_DISABLE /\ f.msg_id = FAST_POLL_DISABLE

\* Switches are sent in pairs; of the first pair one message may be handled.
Paired(ms) ==
    \A j \in 1 .. Len(ms) :
        /\ ms[j].msg_id \in PollIds => j + 1 \in 1 .. Len(ms) /\ Pair(ms[j], ms[j + 1])
        /\ ms[j].msg_id \in FastIds /\ j # 1 => Pair(ms[j - 1], ms[j])
        /\ ms[j].msg_id \in PollIds \cup FastIds => ms[j].sensor \in Sensors

\* Between two pairs the masks agree, and a sensor in them is polled every
\* second; within a pair the poll mask is one message ahead.
Timed(ms, poll, fast, timeout) ==
    LET free == poll_interval_sec = 0
        head == ms[1]
    IN  /\ ms = << >> \/ head.msg_id \notin FastIds =>
             (free => poll = fast) /\ (fast # {} => timeout = 1)
        /\ ms # << >> /\ head.msg_id = FAST_POLL_ENABLE =>
             (free => poll = fast \cup {head.sensor})
        /\ ms # << >> /\ head.msg_id = FAST_POLL_DISABLE =>
             /\ free => poll = fast \ {head.sensor}
             /\ fast \ {head.sensor} # {} => timeout = 1

Good(ms, on, poll, fast, timeout) ==
    /\ ms \in Seq(MessageType)
    /\ Paired(ms)
    /\ on = Outcome(fast, ms, FAST_POLL_ENABLE, FAST_POLL_DISABLE)
    /\ poll_interval_sec = 0 => on = Outcome(poll, ms, POLL_ENABLE, POLL_DISABLE)
    /\ Timed(ms, poll, fast, timeout)

\* A message that switches nothing may be put behind any pair.
LEMMA OtherSent ==
    ASSUME NEW ms, NEW on, NEW poll, NEW fast, NEW timeout, Good(ms, on, poll, fast, timeout),
           NEW m \in MessageType, m.msg_id \notin PollIds \cup FastIds
    PROVE  Good(Append(ms, m), on, poll, fast, timeout)
<1> DEFINE q == Append(ms, m)
           n == Len(ms)
<1>1. ms \in Seq(MessageType) /\ n \in Nat /\ (ms = << >> <=> n = 0)
  BY EmptySeq, LenProperties DEF Good
<1>2. /\ q \in Seq(MessageType) /\ Len(q) = n + 1 /\ q[n + 1] = m /\ \A j \in 1 .. n : q[j] = ms[j]
      /\ q # << >>
  BY SMTT(30), <1>1, AppendProperties, AppendNotEmpty
<1>3. Outcome(fast, q, FAST_POLL_ENABLE, FAST_POLL_DISABLE) = Outcome(fast, ms, FAST_POLL_ENABLE, FAST_POLL_DISABLE)
  BY SMTT(30), <1>1, OutcomeSent
     DEF MaskAfter, PollIds, FastIds, FAST_POLL_ENABLE, FAST_POLL_DISABLE
<1>4. Outcome(poll, q, POLL_ENABLE, POLL_DISABLE) = Outcome(poll, ms, POLL_ENABLE, POLL_DISABLE)
  BY SMTT(30), <1>1, OutcomeSent DEF MaskAfter, PollIds, FastIds, POLL_ENABLE, POLL_DISABLE
<1> HIDE DEF q, n
<1>5. Paired(q)
  <2> SUFFICES ASSUME NEW j \in 1 .. n + 1
               PROVE  /\ q[j].msg_id \in PollIds => j + 1 \in 1 .. n + 1 /\ Pair(q[j], q[j + 1])
                      /\ q[j].msg_id \in FastIds /\ j # 1 => Pair(q[j - 1], q[j])
                      /\ q[j].msg_id \in PollIds \cup FastIds => q[j].sensor \in Sensors
    BY <1>2 DEF Paired
  <2>1. CASE j = n + 1
    BY <1>2, <2>1
  <2>2. CASE j # n + 1
    <3>1. j \in 1 .. n /\ (j # 1 => j - 1 \in 1 .. n) /\ (j + 1 \in 1 .. n => j + 1 \in 1 .. n + 1)
      BY SMTT(30), <1>1, <2>2
    <3>2. /\ ms[j].msg_id \in PollIds => j + 1 \in 1 .. n /\ Pair(ms[j], ms[j + 1])
          /\ ms[j].msg_id \in FastIds /\ j # 1 => Pair(ms[j - 1], ms[j])
          /\ ms[j].msg_id \in PollIds \cup FastIds => ms[j].sensor \in Sensors
      BY <3>1 DEF Good, Paired, n
    <3> QED
      BY <1>2, <3>1, <3>2
  <2> QED
    BY <2>1, <2>2
<1>6. Timed(q, poll, fast, timeout)
  <2>1. Timed(ms, poll, fast, timeout)
    BY DEF Good
  <2>2. ms = << >> => q[1] = m
    BY <1>1, <1>2
  <2>3. ms # << >> => q[1] = ms[1]
    BY <1>1, <1>2
  <2>4. FAST_POLL_ENABLE \in FastIds /\ FAST_POLL_DISABLE \in FastIds
    BY Zenon DEF FastIds
  <2> QED
    BY <1>2, <2>1, <2>2, <2>3, <2>4 DEF Timed
<1> QED
  BY SMTT(30), <1>2, <1>3, <1>4, <1>5, <1>6 DEF Good, q

\* The two messages of a switch end in both masks.
LEMMA PairSent ==
    ASSUME NEW ms, NEW on, NEW poll, NEW fast, NEW timeout, Good(ms, on, poll, fast, timeout),
           NEW p \in MessageType, NEW f \in MessageType, Pair(p, f), p.sensor \in Sensors
    PROVE  Good(Append(Append(ms, p), f),
                IF p.msg_id = POLL_ENABLE THEN on \cup {p.sensor} ELSE on \ {p.sensor},
                poll, fast, timeout)
<1> DEFINE q == Append(ms, p)
           r == Append(q, f)
           n == Len(ms)
           now == IF p.msg_id = POLL_ENABLE THEN on \cup {p.sensor} ELSE on \ {p.sensor}
<1>1. ms \in Seq(MessageType) /\ n \in Nat /\ (ms = << >> <=> n = 0)
  BY EmptySeq, LenProperties DEF Good
<1>2. q \in Seq(MessageType) /\ Len(q) = n + 1 /\ q[n + 1] = p /\ \A j \in 1 .. n : q[j] = ms[j]
  BY <1>1, AppendProperties
<1> HIDE DEF q
<1>3. /\ r \in Seq(MessageType) /\ Len(r) = Len(q) + 1 /\ r[Len(q) + 1] = f
      /\ \A j \in 1 .. Len(q) : r[j] = q[j]
      /\ r # << >>
  BY <1>2, AppendProperties, AppendNotEmpty
<1> USE DEF Pair, POLL_ENABLE, POLL_DISABLE, FAST_POLL_ENABLE, FAST_POLL_DISABLE
<1>4. Outcome(fast, r, FAST_POLL_ENABLE, FAST_POLL_DISABLE) = now
  <2>1. Outcome(fast, q, FAST_POLL_ENABLE, FAST_POLL_DISABLE)
        = MaskAfter(Outcome(fast, ms, FAST_POLL_ENABLE, FAST_POLL_DISABLE), p,
                    FAST_POLL_ENABLE, FAST_POLL_DISABLE)
    BY SMTT(30), <1>1, OutcomeSent DEF q
  <2>2. Outcome(fast, r, FAST_POLL_ENABLE, FAST_POLL_DISABLE)
        = MaskAfter(Outcome(fast, q, FAST_POLL_ENABLE, FAST_POLL_DISABLE), f,
                    FAST_POLL_ENABLE, FAST_POLL_DISABLE)
    BY <1>2, OutcomeSent
  <2>3. on = Outcome(fast, ms, FAST_POLL_ENABLE, FAST_POLL_DISABLE)
    BY DEF Good
  <2> QED
    BY SMTT(30), <2>1, <2>2, <2>3 DEF MaskAfter
<1>5. poll_interval_sec = 0 => Outcome(poll, r, POLL_ENABLE, POLL_DISABLE) = now
  <2>1. Outcome(poll, q, POLL_ENABLE, POLL_DISABLE)
        = MaskAfter(Outcome(poll, ms, POLL_ENABLE, POLL_DISABLE), p, POLL_ENABLE, POLL_DISABLE)
    BY SMTT(30), <1>1, OutcomeSent DEF q
  <2>2. Outcome(poll, r, POLL_ENABLE, POLL_DISABLE)
        = MaskAfter(Outcome(poll, q, POLL_ENABLE, POLL_DISABLE), f, POLL_ENABLE, POLL_DISABLE)
    BY <1>2, OutcomeSent
  <2>3. poll_interval_sec = 0 => on = Outcome(poll, ms, POLL_ENABLE, POLL_DISABLE)
    BY DEF Good
  <2> QED
    BY SMTT(30), <2>1, <2>2, <2>3 DEF MaskAfter
<1> HIDE DEF r, n, now
<1>6. /\ Len(r) = n + 2 /\ r[n + 2] = f /\ r[n + 1] = p
      /\ \A j \in 1 .. n : r[j] = ms[j]
  <2>1. Len(q) + 1 = n + 2 /\ n + 1 \in 1 .. Len(q) /\ \A j \in 1 .. n : j \in 1 .. Len(q)
    BY SMTT(30), <1>1, <1>2
  <2> QED
    BY <1>2, <1>3, <2>1
<1>7. Paired(r)
  <2> SUFFICES ASSUME NEW j \in 1 .. n + 2
               PROVE  /\ r[j].msg_id \in PollIds => j + 1 \in 1 .. n + 2 /\ Pair(r[j], r[j + 1])
                      /\ r[j].msg_id \in FastIds /\ j # 1 => Pair(r[j - 1], r[j])
                      /\ r[j].msg_id \in PollIds \cup FastIds => r[j].sensor \in Sensors
    BY Zenon, <1>6 DEF Paired
  <2>1. CASE j = n + 1
    <3>1. j + 1 \in 1 .. n + 2 /\ j + 1 = n + 2
      BY SMTT(30), <1>1, <2>1
    <3> QED
      BY <1>6, <2>1, <3>1 DEF PollIds, FastIds
  <2>2. CASE j = n + 2
    <3>1. j - 1 = n + 1
      BY SMTT(30), <1>1, <2>2
    <3> QED
      BY <1>6, <2>2, <3>1 DEF PollIds, FastIds
  <2>3. CASE j # n + 1 /\ j # n + 2
    <3>1. j \in 1 .. n /\ (j # 1 => j - 1 \in 1 .. n) /\ (j + 1 \in 1 .. n => j + 1 \in 1 .. n + 2)
      BY SMTT(30), <1>1, <2>3
    <3>2. /\ ms[j].msg_id \in PollIds => j + 1 \in 1 .. n /\ Pair(ms[j], ms[j + 1])
          /\ ms[j].msg_id \in FastIds /\ j # 1 => Pair(ms[j - 1], ms[j])
          /\ ms[j].msg_id \in PollIds \cup FastIds => ms[j].sensor \in Sensors
      BY Zenon, <3>1 DEF Good, Paired, n
    <3> HIDE DEF Pair
    <3> QED
      BY <1>6, <3>1, <3>2
  <2> QED
    BY Zenon, <2>1, <2>2, <2>3
<1>8. Timed(r, poll, fast, timeout)
  <2>1. Timed(ms, poll, fast, timeout)
    BY DEF Good
  <2>2. ms = << >> => r[1] = p /\ p.msg_id \notin FastIds
    BY <1>1, <1>6 DEF FastIds
  <2>3. ms # << >> => r[1] = ms[1]
    BY <1>1, <1>6
  <2>4. FAST_POLL_ENABLE \in FastIds /\ FAST_POLL_DISABLE \in FastIds
    BY DEF FastIds
  <2> HIDE DEF POLL_ENABLE, POLL_DISABLE, FAST_POLL_ENABLE, FAST_POLL_DISABLE
  <2> QED
    BY Zenon, <1>3, <2>1, <2>2, <2>3, <2>4 DEF Timed, r
<1> QED
  BY Zenon, <1>3, <1>4, <1>5, <1>7, <1>8 DEF Good, r, q, now

\* The timeout once message m has been handled, where the masks become poll and
\* fast.
NextTimeout(m, poll, fast, before, after) ==
    CASE m.msg_id = POLL_ENABLE /\ poll_interval_sec = 0 -> after = def_poll_interval
      [] m.msg_id = POLL_DISABLE /\ poll_interval_sec = 0 ->
           after = IF poll = {} THEN -1 ELSE before
      [] m.msg_id = FAST_POLL_ENABLE -> after = 1
      [] m.msg_id = FAST_POLL_DISABLE -> fast # {} => after = before
      [] OTHER -> after = before

\* The first message is handled, and all is well with the others.
LEMMA FirstHandled ==
    ASSUME NEW ms, NEW on, NEW poll, NEW fast, NEW timeout, Good(ms, on, poll, fast, timeout),
           ms # << >>, NEW poll2, NEW fast2, NEW timeout2,
           poll2 = IF poll_interval_sec = 0
                   THEN MaskAfter(poll, ms[1], POLL_ENABLE, POLL_DISABLE) ELSE poll,
           fast2 = MaskAfter(fast, ms[1], FAST_POLL_ENABLE, FAST_POLL_DISABLE),
           NextTimeout(ms[1], poll2, fast2, timeout, timeout2)
    PROVE  Good(Tail(ms), on, poll2, fast2, timeout2)
<1> DEFINE q == Tail(ms)
           n == Len(ms)
           m == ms[1]
<1>1. ms \in Seq(MessageType) /\ n \in Nat /\ n > 0
  BY SMTT(30), EmptySeq, LenProperties DEF Good
<1>2. /\ q \in Seq(MessageType) /\ Len(q) = n - 1 /\ \A j \in 1 .. n - 1 : q[j] = ms[j + 1]
      /\ q = << >> <=> Len(q) = 0
  <2>1. q \in Seq(MessageType) /\ Len(q) = n - 1 /\ \A j \in 1 .. n - 1 : q[j] = ms[j + 1]
    BY <1>1, HeadTailProperties
  <2> QED
    BY <2>1, EmptySeq
<1> USE DEF POLL_ENABLE, POLL_DISABLE, FAST_POLL_ENABLE, FAST_POLL_DISABLE
<1>3. m.msg_id \in PollIds \cup FastIds => m.sensor \in Sensors
  <2>1. 1 \in 1 .. n
    BY <1>1
  <2> QED
    BY <2>1 DEF Good, Paired, n
<1>4. Outcome(fast2, q, FAST_POLL_ENABLE, FAST_POLL_DISABLE) = on
  <2>1. Outcome(MaskAfter(fast, ms[1], FAST_POLL_ENABLE, FAST_POLL_DISABLE), Tail(ms),
                FAST_POLL_ENABLE, FAST_POLL_DISABLE)
        = Outcome(fast, ms, FAST_POLL_ENABLE, FAST_POLL_DISABLE)
    BY <1>1, <1>3, OutcomeRead DEF PollIds, FastIds
  <2> HIDE DEF POLL_ENABLE, POLL_DISABLE, FAST_POLL_ENABLE, FAST_POLL_DISABLE
  <2> QED
    BY Zenon, <2>1 DEF Good
<1>5. poll_interval_sec = 0 => Outcome(poll2, q, POLL_ENABLE, POLL_DISABLE) = on
  <2>1. Outcome(MaskAfter(poll, ms[1], POLL_ENABLE, POLL_DISABLE), Tail(ms), POLL_ENABLE, POLL_DISABLE)
        = Outcome(poll, ms, POLL_ENABLE, POLL_DISABLE)
    BY SMTT(30), <1>1, <1>3, OutcomeRead DEF PollIds, FastIds
  <2> HIDE DEF POLL_ENABLE, POLL_DISABLE, FAST_POLL_ENABLE, FAST_POLL_DISABLE
  <2> QED
    BY Zenon, <2>1 DEF Good
<1> HIDE DEF q, n
<1>6. Paired(q)
  <2> SUFFICES ASSUME NEW j \in 1 .. n - 1
               PROVE  /\ q[j].msg_id \in PollIds => j + 1 \in 1 .. n - 1 /\ Pair(q[j], q[j + 1])
                      /\ q[j].msg_id \in FastIds /\ j # 1 => Pair(q[j - 1], q[j])
                      /\ q[j].msg_id \in PollIds \cup FastIds => q[j].sensor \in Sensors
    BY <1>2 DEF Paired
  <2> DEFINE i == j + 1
  <2>1. /\ i \in 1 .. n /\ i # 1 /\ i - 1 = j
        /\ j # 1 => j - 1 \in 1 .. n - 1 /\ (j - 1) + 1 = i - 1
        /\ i + 1 \in 1 .. n => i \in 1 .. n - 1
    BY SMTT(30), <1>1
  <2>2. q[j] = ms[i] /\ (j # 1 => q[j - 1] = ms[i - 1]) /\ (i \in 1 .. n - 1 => q[i] = ms[i + 1])
    BY Zenon, <1>2, <2>1
  <2> HIDE DEF i
  <2>3. /\ ms[i].msg_id \in PollIds => i + 1 \in 1 .. n /\ Pair(ms[i], ms[i + 1])
        /\ ms[i].msg_id \in FastIds /\ i # 1 => Pair(ms[i - 1], ms[i])
        /\ ms[i].msg_id \in PollIds \cup FastIds => ms[i].sensor \in Sensors
    BY Zenon, <2>1 DEF Good, Paired, n
  <2>4. q[j].msg_id \in PollIds => j + 1 \in 1 .. n - 1 /\ Pair(q[j], q[j + 1])
    BY Zenon, <2>1, <2>2, <2>3 DEF i
  <2> QED
    BY Zenon, <2>1, <2>2, <2>3, <2>4
<1>7. /\ m.msg_id \in PollIds => q # << >> /\ Pair(m, q[1])
      /\ q # << >> /\ q[1].msg_id \in FastIds => Pair(m, q[1])
  <2>1. /\ 1 \in 1 .. n /\ 1 + 1 = 2 /\ 2 - 1 = 1
        /\ 2 \in 1 .. n => Len(q) # 0
        /\ Len(q) # 0 => 2 \in 1 .. n /\ 1 \in 1 .. n - 1
    BY <1>1, <1>2
  <2>2. Len(q) # 0 => q[1] = ms[2]
    BY Zenon, <1>2, <2>1
  <2>3. m.msg_id \in PollIds => 1 + 1 \in 1 .. n /\ Pair(m, ms[1 + 1])
    BY <2>1 DEF Good, Paired, n
  <2>4. 2 \in 1 .. n /\ ms[2].msg_id \in FastIds => Pair(ms[2 - 1], ms[2])
    BY DEF Good, Paired, n
  <2> QED
    BY Zenon, <1>2, <2>1, <2>2, <2>3, <2>4
<1>8. Timed(q, poll2, fast2, timeout2)
  <2>1. Timed(ms, poll, fast, timeout)
    BY Zenon DEF Good
  <2> USE DEF PollIds, FastIds, Pair
  <2> HIDE DEF m
  <2>2. CASE m.msg_id = POLL_ENABLE
    <3>1. poll_interval_sec = 0 => poll = fast
      BY SMTT(30), <2>1, <2>2 DEF Timed, m
    <3>2. fast2 = fast /\ (poll_interval_sec = 0 => poll2 = poll \cup {m.sensor})
      BY <2>2 DEF MaskAfter, m
    <3>3. q # << >> /\ q[1].msg_id = FAST_POLL_ENABLE /\ q[1].sensor = m.sensor
      BY Zenon, <1>7, <2>2
    <3> QED
      BY SMTT(30), <3>1, <3>2, <3>3 DEF Timed
  <2>3. CASE m.msg_id = POLL_DISABLE
    <3>1. (poll_interval_sec = 0 => poll = fast) /\ (fast # {} => timeout = 1)
      BY SMTT(30), <2>1, <2>3 DEF Timed, m
    <3>2. fast2 = fast /\ (poll_interval_sec = 0 => poll2 = poll \ {m.sensor})
      BY <2>3 DEF MaskAfter, m
    <3>3. q # << >> /\ q[1].msg_id = FAST_POLL_DISABLE /\ q[1].sensor = m.sensor
      BY <1>7, <2>3
    <3>4. /\ poll_interval_sec = 0 /\ poll2 # {} => timeout2 = timeout
          /\ poll_interval_sec # 0 => timeout2 = timeout
      BY SMTT(30), <2>3 DEF NextTimeout, m
    <3>5. fast2 \ {m.sensor} # {} => timeout2 = 1
      BY <3>1, <3>2, <3>4
    <3> QED
      BY SMTT(30), <3>1, <3>2, <3>3, <3>5 DEF Timed
  <2>4. CASE m.msg_id = FAST_POLL_ENABLE
    <3>1. poll_interval_sec = 0 => poll = fast \cup {m.sensor}
      BY <2>1, <2>4 DEF Timed, m
    <3>2. fast2 = fast \cup {m.sensor} /\ poll2 = poll /\ timeout2 = 1
      BY <2>4 DEF MaskAfter, NextTimeout, m
    <3>3. q = << >> \/ q[1].msg_id \notin FastIds
      BY <1>7, <2>4
    <3> QED
      BY ZenonT(30), <3>1, <3>2, <3>3 DEF Timed
  <2>5. CASE m.msg_id = FAST_POLL_DISABLE
    <3>1. /\ poll_interval_sec = 0 => poll = fast \ {m.sensor}
          /\ fast \ {m.sensor} # {} => timeout = 1
      BY <2>1, <2>5 DEF Timed, m
    <3>2. fast2 = fast \ {m.sensor} /\ poll2 = poll /\ (fast2 # {} => timeout2 = timeout)
      BY <2>5 DEF MaskAfter, NextTimeout, m
    <3>3. q = << >> \/ q[1].msg_id \notin FastIds
      BY SMTT(30), <1>7, <2>5
    <3> QED
      BY ZenonT(30), <3>1, <3>2, <3>3 DEF Timed
  <2>6. CASE m.msg_id \notin PollIds \cup FastIds
    <3>1. (poll_interval_sec = 0 => poll = fast) /\ (fast # {} => timeout = 1)
      BY <2>1, <2>6 DEF Timed, m
    <3>2. fast2 = fast /\ poll2 = poll /\ timeout2 = timeout
      BY <2>6 DEF MaskAfter, NextTimeout, m
    <3>3. q = << >> \/ q[1].msg_id \notin FastIds
      BY Zenon, <1>7, <2>6
    <3> QED
      BY Zenon, <3>1, <3>2, <3>3 DEF Timed
  <2> QED
    BY Zenon, <2>2, <2>3, <2>4, <2>5, <2>6
<1> QED
  BY Zenon, <1>2, <1>4, <1>5, <1>6, <1>8 DEF Good, q

-----------------------------------------------------------------------------
(* The pipe p, where w says that a message is known to be in it, with the  *)
(* polling trips, the masks and the timeout it has led to.                 *)

InStep(p, w, on, poll, fast, timeout) ==
    /\ IsPipe(p)
    /\ ~p.lost => \E ms : /\ Whole(p.data, ms) /\ PagesFit(p.data)
                          /\ w => ms # << >>
                          /\ Good(ms, on, poll, fast, timeout)

\* A call of another thread: it sends a message that switches nothing.
LEMMA OtherInStep ==
    ASSUME NEW p, NEW w, NEW on, NEW poll, NEW fast, NEW timeout,
           InStep(p, w, on, poll, fast, timeout),
           NEW m \in MessageType, m.msg_id \notin PollIds \cup FastIds
    PROVE  InStep(send_message(p, m), w, on, poll, fast, timeout)
<1> DEFINE r == send_message(p, m)
<1>1. IsPipe(r) /\ (p.lost => r.lost)
  BY SendKeepsLost
<1>2. ASSUME ~r.lost
      PROVE  \E ms : /\ Whole(r.data, ms) /\ PagesFit(r.data)
                     /\ w => ms # << >>
                     /\ Good(ms, on, poll, fast, timeout)
  <2>1. PICK ms : /\ Whole(p.data, ms) /\ PagesFit(p.data)
                  /\ Good(ms, on, poll, fast, timeout)
    BY Zenon, <1>1, <1>2 DEF InStep
  <2>2. Whole(r.data, Append(ms, m)) /\ PagesFit(r.data)
    BY Zenon, <1>2, <2>1, SendWhole
  <2>3. Append(ms, m) # << >>
    BY <2>1, AppendNotEmpty DEF Good
  <2>4. Good(Append(ms, m), on, poll, fast, timeout)
    BY <2>1, OtherSent
  <2> QED
    BY Zenon, <2>2, <2>3, <2>4
<1> QED
  BY <1>1, <1>2 DEF InStep

\* A switch of a polling trip: it sends a pair.
LEMMA PairInStep ==
    ASSUME NEW p, NEW w, NEW on, NEW poll, NEW fast, NEW timeout,
           InStep(p, w, on, poll, fast, timeout),
           NEW a \in MessageType, NEW b \in MessageType, Pair(a, b), a.sensor \in Sensors
    PROVE  InStep(send_message(send_message(p, a), b), w,
                  IF a.msg_id = POLL_ENABLE THEN on \cup {a.sensor} ELSE on \ {a.sensor},
                  poll, fast, timeout)
<1> DEFINE q == send_message(p, a)
           r == send_message(q, b)
           now == IF a.msg_id = POLL_ENABLE THEN on \cup {a.sensor} ELSE on \ {a.sensor}
<1>1. p.lost => q.lost
  BY Zenon, SendKeepsLost
<1>2. ASSUME NEW ms, ~q.lost, Whole(p.data, ms), PagesFit(p.data)
      PROVE  Whole(q.data, Append(ms, a)) /\ PagesFit(q.data)
  BY <1>2, SendWhole
<1> HIDE DEF q
<1>3. IsPipe(r) /\ (q.lost => r.lost)
  BY SendKeepsLost
<1>4. ASSUME ~r.lost
      PROVE  \E ms : /\ Whole(r.data, ms) /\ PagesFit(r.data)
                     /\ w => ms # << >>
                     /\ Good(ms, now, poll, fast, timeout)
  <2>1. PICK ms : /\ Whole(p.data, ms) /\ PagesFit(p.data)
                  /\ Good(ms, on, poll, fast, timeout)
    BY Zenon, <1>1, <1>3, <1>4 DEF InStep
  <2>2. Whole(q.data, Append(ms, a)) /\ PagesFit(q.data)
    BY Zenon, <1>2, <1>3, <1>4, <2>1
  <2>3. Whole(r.data, Append(Append(ms, a), b)) /\ PagesFit(r.data)
    BY Zenon, <1>4, <2>2, SendWhole
  <2>4. Append(Append(ms, a), b) # << >>
    <3>1. Append(ms, a) \in Seq(MessageType)
      BY <2>1, AppendNotEmpty DEF Good
    <3> QED
      BY <3>1, AppendNotEmpty
  <2>5. Good(Append(Append(ms, a), b), now, poll, fast, timeout)
    BY Zenon, <2>1, PairSent
  <2> QED
    BY Zenon, <2>3, <2>4, <2>5
<1>5. InStep(r, w, now, poll, fast, timeout)
  BY ZenonT(30), <1>3, <1>4 DEF InStep
<1> QED
  BY <1>5 DEF q

\* The check of one sensor, which sends a pair or nothing.
LEMMA SensorInStep ==
    ASSUME NEW acc, NEW w, NEW poll, NEW fast, NEW timeout, NEW s \in Sensors, NEW above,
           InStep(acc.pipe, w, acc.on, poll, fast, timeout)
    PROVE  InStep(CheckSensor(acc, s, above).pipe, w, CheckSensor(acc, s, above).on,
                  poll, fast, timeout)
<1> DEFINE Both(a, b) == send_message(send_message(acc.pipe, Message(a, s)), Message(b, s))
           r == CheckSensor(acc, s, above)
<1>1. s \in Nat
  BY SensorAssumption, ElementOfSeq, LenProperties DEF Sensors, Range
<1>2. \A a, b : Message(a, s).msg_id = a /\ Message(a, s).sensor = s
  BY DEF Message
<1>3. \A a \in Nat : Message(a, s) \in MessageType
  BY SMTT(30), <1>1 DEF Message, MessageType
<1>4. InStep(Both(POLL_ENABLE, FAST_POLL_ENABLE), w, acc.on \cup {s}, poll, fast, timeout)
  <2>1. Pair(Message(POLL_ENABLE, s), Message(FAST_POLL_ENABLE, s))
    BY <1>2 DEF Pair
  <2>2. Message(POLL_ENABLE, s) \in MessageType /\ Message(FAST_POLL_ENABLE, s) \in MessageType
    BY <1>3 DEF POLL_ENABLE, FAST_POLL_ENABLE
  <2>3. Message(POLL_ENABLE, s).sensor = s /\ Message(POLL_ENABLE, s).msg_id = POLL_ENABLE
    BY <1>2
  <2> QED
    BY ZenonT(30), <2>1, <2>2, <2>3, PairInStep
<1>5. InStep(Both(POLL_DISABLE, FAST_POLL_DISABLE), w, acc.on \ {s}, poll, fast, timeout)
  <2>1. Pair(Message(POLL_DISABLE, s), Message(FAST_POLL_DISABLE, s))
    BY <1>2 DEF Pair
  <2>2. Message(POLL_DISABLE, s) \in MessageType /\ Message(FAST_POLL_DISABLE, s) \in MessageType
    BY <1>3 DEF POLL_DISABLE, FAST_POLL_DISABLE
  <2>3. Message(POLL_DISABLE, s).sensor = s /\ Message(POLL_DISABLE, s).msg_id # POLL_ENABLE
    <3>1. POLL_DISABLE # POLL_ENABLE
      BY DEF POLL_DISABLE, POLL_ENABLE
    <3> QED
      BY Zenon, <1>2, <3>1
  <2> QED
    BY ZenonT(30), <2>1, <2>2, <2>3, PairInStep
<1> HIDE DEF Both
<1>6. CASE s \in above /\ s \notin acc.on
  <2>1. r = [on |-> acc.on \cup {s}, pipe |-> Both(POLL_ENABLE, FAST_POLL_ENABLE)]
    BY Zenon, <1>6 DEF CheckSensor, Both
  <2>2. r.on = acc.on \cup {s} /\ r.pipe = Both(POLL_ENABLE, FAST_POLL_ENABLE)
    BY SMTT(30), <2>1
  <2> QED
    BY SMTT(30), <1>4, <2>2
<1>7. CASE s \notin above /\ s \in acc.on
  <2>1. r = [on |-> acc.on \ {s}, pipe |-> Both(POLL_DISABLE, FAST_POLL_DISABLE)]
    BY Zenon, <1>7 DEF CheckSensor, Both
  <2>2. r.on = acc.on \ {s} /\ r.pipe = Both(POLL_DISABLE, FAST_POLL_DISABLE)
    BY <2>1
  <2> QED
    BY Zenon, <1>5, <2>2
<1>8. CASE s \in above <=> s \in acc.on
  <2>1. r = acc
    BY <1>8 DEF CheckSensor
  <2> QED
    BY <2>1
<1> QED
  BY Zenon, <1>6, <1>7, <1>8

\* A pass over the zones up to the n-th sensor: g[k] is what it leaves of the
\* first k.
Passes(g, acc, above, n) ==
    /\ g = [k \in 0 .. n |-> g[k]]
    /\ g[0] = acc
    /\ \A k \in 1 .. n : g[k] = CheckSensor(g[k - 1], SensorOrder[k], above)

\* The pass over the first n sensors exists.
LEMMA PassesExist ==
    ASSUME NEW acc, NEW above, NEW N \in Nat
    PROVE  \E g : Passes(g, acc, above, N)
<1> DEFINE T == {n \in Nat : ~\E g : Passes(g, acc, above, n)}
<1> SUFFICES ASSUME T # {} PROVE FALSE
  OBVIOUS
<1>1. PICK n \in T : \A m \in T : n <= m
  BY Zenon, LeastNatural
<1>2. n \in Nat /\ ~\E g : Passes(g, acc, above, n)
  BY <1>1
<1>3. n # 0
  <2>1. Passes([k \in 0 .. 0 |-> acc], acc, above, 0)
    BY DEF Passes
  <2> QED
    BY <1>2, <2>1
<1>4. n - 1 \in Nat /\ n - 1 \notin T
  BY <1>1, <1>2, <1>3
<1>5. PICK g : Passes(g, acc, above, n - 1)
  BY <1>4
<1> DEFINE h == [k \in 0 .. n |-> IF k = n THEN CheckSensor(g[n - 1], SensorOrder[n], above) ELSE g[k]]
<1>6. h = [k \in 0 .. n |-> h[k]]
  BY Zenon
<1>7. h[0] = acc
  BY SMTT(30), <1>2, <1>3, <1>5 DEF Passes
<1>8. ASSUME NEW k \in 1 .. n PROVE h[k] = CheckSensor(h[k - 1], SensorOrder[k], above)
  <2>1. CASE k = n
    BY <1>2, <1>3, <2>1
  <2>2. CASE k # n
    <3>1. k \in 1 .. n - 1 /\ k - 1 \in 0 .. n /\ k - 1 # n /\ k \in 0 .. n
      BY SMTT(30), <1>2, <1>3, <2>2
    <3>2. h[k] = g[k] /\ h[k - 1] = g[k - 1]
      BY Zenon, <2>2, <3>1
    <3> QED
      BY Zenon, <1>5, <3>1, <3>2 DEF Passes
  <2> QED
    BY <2>1, <2>2
<1> HIDE DEF h
<1>9. Passes(h, acc, above, n)
  BY <1>6, <1>7, <1>8 DEF Passes
<1> QED
  BY <1>2, <1>9

\* And ReadZones is what it leaves of all.
LEMMA ReadZonesPasses ==
    ASSUME NEW acc, NEW above
    PROVE  \E g : Passes(g, acc, above, Len(SensorOrder)) /\ ReadZones(acc, above) = g[Len(SensorOrder)]
<1> DEFINE N    == Len(SensorOrder)
           D(g) == [k \in 0 .. N |-> IF k = 0 THEN acc ELSE CheckSensor(g[k - 1], SensorOrder[k], above)]
           a    == CHOOSE g : g = D(g)
<1>1. N \in Nat
  BY SensorAssumption, LenProperties
<1>2. PICK g : Passes(g, acc, above, N)
  BY <1>1, PassesExist
<1>3. g = D(g)
  <2>1. ASSUME NEW k \in 0 .. N
        PROVE  g[k] = IF k = 0 THEN acc ELSE CheckSensor(g[k - 1], SensorOrder[k], above)
    <3>1. k = 0 \/ k \in 1 .. N
      BY <1>1
    <3> QED
      BY <1>2, <3>1 DEF Passes
  <2>2. g = [k \in 0 .. N |-> g[k]]
    BY <1>2 DEF Passes
  <2> QED
    BY <2>1, <2>2, Zenon
<1>4. a = D(a)
  BY Zenon, <1>3
<1>5. ReadZones(acc, above) = a[N]
  BY Zenon DEF ReadZones
<1> HIDE DEF a
<1>6. Passes(a, acc, above, N)
  <2>1. \A k \in 0 .. N : a[k] = IF k = 0 THEN acc ELSE CheckSensor(a[k - 1], SensorOrder[k], above)
    BY <1>4
  <2>2. a = [k \in 0 .. N |-> a[k]]
    BY <1>4, <2>1
  <2>3. 0 \in 0 .. N /\ \A k \in 1 .. N : k \in 0 .. N /\ k # 0
    BY <1>1
  <2>4. a[0] = acc /\ \A k \in 1 .. N : a[k] = CheckSensor(a[k - 1], SensorOrder[k], above)
    BY Zenon, <2>1, <2>3
  <2> QED
    BY <2>2, <2>4 DEF Passes
<1> QED
  BY <1>5, <1>6

\* A pass over all zones keeps the pipe, the masks and the timeout in step.
LEMMA ReadZonesInStep ==
    ASSUME NEW acc, NEW w, NEW poll, NEW fast, NEW timeout, NEW above,
           InStep(acc.pipe, w, acc.on, poll, fast, timeout)
    PROVE  InStep(ReadZones(acc, above).pipe, w, ReadZones(acc, above).on, poll, fast, timeout)
<1> DEFINE N == Len(SensorOrder)
           OK(r) == InStep(r.pipe, w, r.on, poll, fast, timeout)
<1>1. N \in Nat /\ \A k \in 1 .. N : SensorOrder[k] \in Sensors
  BY SensorAssumption, LenProperties DEF Sensors, Range
<1>2. PICK g : Passes(g, acc, above, N) /\ ReadZones(acc, above) = g[N]
  BY Zenon, ReadZonesPasses
<1> HIDE DEF N
<1> DEFINE T == {k \in 0 .. N : ~OK(g[k])}
<1>3. T = {}
  <2> SUFFICES ASSUME T # {} PROVE FALSE
    OBVIOUS
  <2>1. PICK n \in T : \A m \in T : n <= m
    <3>1. T \subseteq Nat
      BY SMTT(30), <1>1
    <3> QED
      BY ZenonT(30), <3>1, LeastNatural
  <2>2. n \in 0 .. N /\ ~OK(g[n])
    BY Zenon, <2>1
  <2>3. n # 0
    <3>1. g[0] = acc
      BY Zenon, <1>2 DEF Passes
    <3> QED
      BY <2>2, <3>1
  <2>4. n \in 1 .. N /\ n - 1 \in 0 .. N /\ ~(n <= n - 1)
    <3>1. N \in Nat /\ n \in 0 .. N
      BY Zenon, <1>1, <2>2
    <3> QED
      BY <2>3, <3>1
  <2>5. OK(g[n - 1])
    BY <2>1, <2>4
  <2>6. g[n] = CheckSensor(g[n - 1], SensorOrder[n], above)
    BY ZenonT(30), <1>2, <2>4 DEF Passes
  <2>7. SensorOrder[n] \in Sensors
    BY <1>1, <2>4
  <2>8. OK(CheckSensor(g[n - 1], SensorOrder[n], above))
    BY Zenon, <2>5, <2>7, SensorInStep
  <2> QED
    BY Zenon, <2>2, <2>6, <2>8
<1>4. N \in 0 .. N
  BY <1>1
<1> QED
  BY Zenon, <1>2, <1>3, <1>4

-----------------------------------------------------------------------------
(* The inductive invariant. The loop reads the pipe only when poll() saw   *)
(* something in it, and nobody else takes a message out.                   *)

Waiting == pc \in {"temp", "uevent", "wakeup"} /\ "wakeup" \in revents

IndInv == InStep(pipe, Waiting, poll_on, poll_sensor_mask, fast_poll_sensor_mask, poll_timeout)

\* It holds at the start.
LEMMA InitIndInv == Init => IndInv
<1> SUFFICES ASSUME Init PROVE IndInv
  OBVIOUS
<1>1. IsPipe(pipe) /\ pipe.data = << >> /\ ~Waiting
  BY DEF Init, IsPipe, Waiting
<1>2. Whole(<< >>, << >>)
  BY DEF Whole
<1>3. PagesFit(<< >>)
  <2>1. PageStarts(<< >>) = {}
    BY DEF PageStarts
  <2> QED
    BY <2>1, FS_EmptySet, PipeAssumption DEF PagesFit
<1>4. \A e, d : Outcome({}, << >>, e, d) = {}
  BY DEF Outcome, EndsIn, Concerns
<1>5. Paired(<< >>)
  BY DEF Paired
<1>6. Good(<< >>, {}, {}, {}, poll_timeout)
  BY <1>4, <1>5 DEF Good, Timed
<1>7. poll_on = {} /\ poll_sensor_mask = {} /\ fast_poll_sensor_mask = {}
  BY Zenon DEF Init
<1> QED
  BY SMTT(30), <1>1, <1>2, <1>3, <1>6, <1>7 DEF IndInv, InStep

\* The options do not change, and all else that counts is in the arguments.
LEMMA StaysInStep ==
    ASSUME poll_interval_sec' = poll_interval_sec,
           InStep(pipe', Waiting', poll_on', poll_sensor_mask', fast_poll_sensor_mask', poll_timeout')
    PROVE  IndInv'
BY Zenon DEF IndInv, InStep, Good, Timed

\* A message is taken from the pipe and handled.
LEMMA Handled ==
    ASSUME IndInv, Waiting, NEW m \in ReadMessages(pipe.data), proc_message(m), ~Waiting'
    PROVE  InStep(Unread(pipe), Waiting', poll_on,
                  poll_sensor_mask', fast_poll_sensor_mask', poll_timeout')
<1>1. IsPipe(pipe)
  BY DEF IndInv, InStep
<1>2. IsPipe(Unread(pipe)) /\ Unread(pipe).lost = pipe.lost
  BY Zenon, <1>1, UnreadKeepsLost
<1>3. ASSUME ~pipe.lost
      PROVE  \E ms : /\ Whole(Unread(pipe).data, ms) /\ PagesFit(Unread(pipe).data)
                     /\ Good(ms, poll_on, poll_sensor_mask', fast_poll_sensor_mask', poll_timeout')
  <2>1. PICK ms : /\ Whole(pipe.data, ms) /\ PagesFit(pipe.data)
                  /\ ms # << >>
                  /\ Good(ms, poll_on, poll_sensor_mask, fast_poll_sensor_mask, poll_timeout)
    BY Zenon, <1>3 DEF IndInv, InStep
  <2>2. pipe.data # << >>
    BY Zenon, <2>1, WholeFacts
  <2>3. m = ms[1]
    BY Zenon, <2>1, <2>2, ReadWhole
  <2>4. Whole(Unread(pipe).data, Tail(ms)) /\ PagesFit(Unread(pipe).data)
    BY Zenon, <1>1, <2>1, <2>2, UnreadWhole
  <2>5. CASE \/ m.msg_id = POLL_ENABLE /\ poll_interval_sec = 0
             \/ m.msg_id = POLL_DISABLE /\ poll_interval_sec = 0
             \/ m.msg_id = FAST_POLL_ENABLE \/ m.msg_id = FAST_POLL_DISABLE
    <3>1. /\ m.msg_id = POLL_ENABLE /\ poll_interval_sec = 0 => poll_enable(m.sensor)
          /\ m.msg_id = POLL_DISABLE /\ poll_interval_sec = 0 => poll_disable(m.sensor)
          /\ m.msg_id = FAST_POLL_ENABLE => fast_poll_enable(m.sensor)
          /\ m.msg_id = FAST_POLL_DISABLE => fast_poll_disable(m.sensor)
      BY <2>5 DEF proc_message, POLL_ENABLE, POLL_DISABLE, FAST_POLL_ENABLE, FAST_POLL_DISABLE
    <3>2. /\ poll_sensor_mask' = IF poll_interval_sec = 0
                                 THEN MaskAfter(poll_sensor_mask, m, POLL_ENABLE, POLL_DISABLE)
                                 ELSE poll_sensor_mask
          /\ fast_poll_sensor_mask' = MaskAfter(fast_poll_sensor_mask, m, FAST_POLL_ENABLE, FAST_POLL_DISABLE)
          /\ NextTimeout(m, poll_sensor_mask', fast_poll_sensor_mask', poll_timeout, poll_timeout')
      BY Zenon, <2>5, <3>1
         DEF MaskAfter, NextTimeout, poll_enable, poll_disable, fast_poll_enable, fast_poll_disable,
             POLL_ENABLE, POLL_DISABLE, FAST_POLL_ENABLE, FAST_POLL_DISABLE
    <3>3. Good(Tail(ms), poll_on, poll_sensor_mask', fast_poll_sensor_mask', poll_timeout')
      BY Zenon, <2>1, <2>3, <3>2, FirstHandled
    <3> QED
      BY <2>4, <3>3
  <2>6. CASE ~(\/ m.msg_id = POLL_ENABLE /\ poll_interval_sec = 0
               \/ m.msg_id = POLL_DISABLE /\ poll_interval_sec = 0
               \/ m.msg_id = FAST_POLL_ENABLE \/ m.msg_id = FAST_POLL_DISABLE)
    <3>1. UNCHANGED masks
      BY <2>6 DEF proc_message
    <3>2. /\ poll_sensor_mask' = IF poll_interval_sec = 0
                                 THEN MaskAfter(poll_sensor_mask, m, POLL_ENABLE, POLL_DISABLE)
                                 ELSE poll_sensor_mask
          /\ fast_poll_sensor_mask' = MaskAfter(fast_poll_sensor_mask, m, FAST_POLL_ENABLE, FAST_POLL_DISABLE)
          /\ NextTimeout(m, poll_sensor_mask', fast_poll_sensor_mask', poll_timeout, poll_timeout')
      BY Zenon, <2>6, <3>1 DEF MaskAfter, NextTimeout, masks
    <3>3. Good(Tail(ms), poll_on, poll_sensor_mask', fast_poll_sensor_mask', poll_timeout')
      BY <2>1, <2>3, <3>2, FirstHandled
    <3> QED
      BY <2>4, <3>3
  <2> QED
    BY <2>5, <2>6
<1> QED
  BY Zenon, <1>2, <1>3 DEF InStep

\* Every step of the thread and of the others keeps pipe, masks and timeout in
\* step.
LEMMA StepIndInv == IndInv /\ [Next]_vars => IndInv'
<1> SUFFICES ASSUME IndInv, [Next]_vars PROVE IndInv'
  OBVIOUS
<1> DEFINE On(p, on, w) == InStep(p, w, on, poll_sensor_mask, fast_poll_sensor_mask, poll_timeout)
<1>1. On(pipe, poll_on, Waiting)
  BY DEF IndInv
<1>2. ASSUME NEW p, NEW on, NEW w, NEW v, On(p, on, w), v => w PROVE On(p, on, v)
  BY <1>2 DEF InStep
<1>3. ASSUME UNCHANGED <<options, masks>>, On(pipe', poll_on', Waiting') PROVE IndInv'
  <2>1. /\ poll_interval_sec' = poll_interval_sec /\ poll_sensor_mask' = poll_sensor_mask
        /\ fast_poll_sensor_mask' = fast_poll_sensor_mask /\ poll_timeout' = poll_timeout
    BY <1>3 DEF options, masks
  <2> QED
    BY <1>3, <2>1, StaysInStep
<1>4. ASSUME NEW w, On(pipe, poll_on, w) PROVE On(ReadAllZones.pipe, ReadAllZones.on, w)
  <2> DEFINE acc == [on |-> poll_on, pipe |-> pipe]
  <2>1. acc.on = poll_on /\ acc.pipe = pipe
    BY Zenon
  <2> HIDE DEF acc
  <2>2. On(ReadZones(acc, hot).pipe, ReadZones(acc, hot).on, w)
    BY <1>4, <2>1, ReadZonesInStep
  <2> QED
    BY <2>2 DEF ReadAllZones, acc
<1>5. ASSUME UNCHANGED <<options, masks, pipe, poll_on>>, Waiting' => Waiting PROVE IndInv'
  <2>1. On(pipe', poll_on', Waiting')
    BY Zenon, <1>1, <1>2, <1>5
  <2> QED
    BY SMTT(30), <1>3, <1>5, <2>1
<1>6. CASE UNCHANGED vars
  BY <1>5, <1>6 DEF vars, Waiting
<1>7. ASSUME NEW dt, Poll(dt) PROVE IndInv'
  <2>1. UNCHANGED <<options, masks, pipe, poll_on>>
    BY <1>7 DEF Poll
  <2>2. IsPipe(pipe)
    BY <1>1 DEF InStep
  <2>3. Waiting' => pipe.data # << >>
    BY <1>7 DEF Poll, Waiting
  <2>4. On(pipe, poll_on, Waiting')
    <3>1. ASSUME ~pipe.lost
          PROVE  \E ms : /\ Whole(pipe.data, ms) /\ PagesFit(pipe.data)
                         /\ Waiting' => ms # << >>
                         /\ Good(ms, poll_on, poll_sensor_mask, fast_poll_sensor_mask, poll_timeout)
      <4>1. PICK ms : /\ Whole(pipe.data, ms) /\ PagesFit(pipe.data)
                      /\ Good(ms, poll_on, poll_sensor_mask, fast_poll_sensor_mask, poll_timeout)
        BY Zenon, <1>1, <3>1 DEF InStep
      <4>2. pipe.data # << >> => ms # << >>
        BY <4>1, WholeFacts
      <4> QED
        BY <2>3, <4>1, <4>2
    <3> QED
      BY Zenon, <2>2, <3>1 DEF InStep
  <2>5. On(pipe', poll_on', Waiting')
    BY <2>1, <2>4
  <2> QED
    BY Zenon, <1>3, <2>1, <2>5
<1>8. CASE PollTemp
  <2>1. UNCHANGED <<options, masks>> /\ (Waiting' => Waiting)
    BY <1>8 DEF PollTemp, Waiting
  <2>2. \/ UNCHANGED <<poll_on, pipe>>
        \/ poll_on' = ReadAllZones.on /\ pipe' = ReadAllZones.pipe
    BY <1>8 DEF PollTemp
  <2>3. On(pipe, poll_on, Waiting')
    BY Zenon, <1>1, <1>2, <2>1
  <2>4. On(pipe', poll_on', Waiting')
    BY Zenon, <1>4, <2>2, <2>3
  <2> QED
    BY Zenon, <1>3, <2>1, <2>4
<1>9. CASE PollUevent
  <2>1. UNCHANGED <<options, masks>> /\ (Waiting' => Waiting)
    BY <1>9 DEF PollUevent, Waiting
  <2>2. \/ UNCHANGED <<poll_on, pipe>>
        \/ poll_on' = ReadAllZones.on /\ pipe' = ReadAllZones.pipe
    BY Zenon, <1>9 DEF PollUevent
  <2>3. On(pipe, poll_on, Waiting')
    BY <1>1, <1>2, <2>1
  <2>4. On(pipe', poll_on', Waiting')
    BY <1>4, <2>2, <2>3
  <2> QED
    BY <1>3, <2>1, <2>4
<1>10. CASE PollWakeup
  <2>1. UNCHANGED options /\ ~Waiting'
    BY <1>10 DEF PollWakeup, Waiting
  <2>2. CASE "wakeup" \notin revents
    <3>1. UNCHANGED <<options, masks, pipe, poll_on>>
      BY <1>10, <2>2 DEF PollWakeup
    <3> QED
      BY <1>5, <2>1, <3>1
  <2>3. CASE "wakeup" \in revents
    <3>1. Waiting
      BY <1>10, <2>3 DEF PollWakeup, Waiting
    <3>2. PICK m \in ReadMessages(pipe.data) : proc_message(m)
      BY <1>10, <2>3 DEF PollWakeup
    <3> DEFINE Then(p, on) ==
                 InStep(p, Waiting', on, poll_sensor_mask', fast_poll_sensor_mask', poll_timeout')
               acc == [on |-> poll_on, pipe |-> Unread(pipe)]
    <3>3. Then(Unread(pipe), poll_on)
      BY Zenon, <2>1, <3>1, <3>2, Handled
    <3>4. acc.on = poll_on /\ acc.pipe = Unread(pipe)
      OBVIOUS
    <3>5. \/ pipe' = Unread(pipe) /\ poll_on' = poll_on
          \/ pipe' = ReadZones(ReadZones(acc, {}), hot).pipe /\ poll_on' = ReadZones(ReadZones(acc, {}), hot).on
          \/ pipe' = ReadZones(acc, hot).pipe /\ poll_on' = ReadZones(acc, hot).on
      BY SMTT(30), <3>2 DEF proc_message, process_pref_change, thermal_zone_change
    <3> HIDE DEF acc
    <3>6. \A above : Then(ReadZones(acc, above).pipe, ReadZones(acc, above).on)
      BY ZenonT(30), <3>3, <3>4, ReadZonesInStep
    <3>7. Then(ReadZones(ReadZones(acc, {}), hot).pipe, ReadZones(ReadZones(acc, {}), hot).on)
      BY SMTT(30), <3>6, ReadZonesInStep
    <3>8. Then(pipe', poll_on')
      BY ZenonT(30), <3>3, <3>5, <3>6, <3>7
    <3> QED
      BY <2>1, <3>8, StaysInStep DEF options
  <2> QED
    BY <2>2, <2>3
<1>11. CASE Terminated
  BY Zenon, <1>5, <1>11 DEF Terminated, Waiting
<1>12. ASSUME NEW s, Drift(s) PROVE IndInv'
  BY <1>5, <1>12 DEF Drift, Waiting
<1>13. ASSUME NEW m \in MessageType, m.msg_id \notin PollIds \cup FastIds, Call(m) PROVE IndInv'
  <2>1. UNCHANGED <<options, masks, poll_on>> /\ (Waiting' <=> Waiting) /\ pipe' = send_message(pipe, m)
    BY <1>13 DEF Call, Waiting
  <2>2. On(send_message(pipe, m), poll_on, Waiting)
    BY Zenon, <1>1, <1>13, OtherInStep
  <2>3. On(pipe', poll_on', Waiting)
    BY <2>1, <2>2
  <2>4. On(pipe', poll_on', Waiting')
    BY <1>2, <2>1, <2>3
  <2> QED
    BY Zenon, <1>3, <2>1, <2>4
<1>14. \A id \in {WAKEUP, TERMINATE, PREF_CHANGED} :
         Message(id, 0) \in MessageType /\ Message(id, 0).msg_id \notin PollIds \cup FastIds
  BY DEF WAKEUP, TERMINATE, PREF_CHANGED, Message, MessageType, PollIds, FastIds,
         POLL_ENABLE, POLL_DISABLE, FAST_POLL_ENABLE, FAST_POLL_DISABLE
<1>15. CASE Others
  <2>1. ASSUME NEW p, set_preference(p) PROVE IndInv'
    BY <1>13, <1>14, <2>1 DEF set_preference
  <2>2. CASE thd_engine_terminate
    BY <1>13, <1>14, <2>2 DEF thd_engine_terminate
  <2>3. CASE user_add_sensor
    BY <1>13, <1>14, <2>3 DEF user_add_sensor
  <2> QED
    BY Zenon, <1>12, <1>15, <2>1, <2>2, <2>3 DEF Others
<1>16. CASE Thread
  BY Zenon, <1>7, <1>8, <1>9, <1>10, <1>11, <1>16 DEF Thread
<1> QED
  BY <1>6, <1>15, <1>16 DEF Next

\* So it always holds.
LEMMA AlwaysInStep == Spec => []IndInv
BY InitIndInv, StepIndInv, PTL DEF Spec

\* Until a write to the pipe is cut off, no switch of a polling trip is lost
\* or overtaken: what the messages in the pipe will make of the masks is what
\* the trips say, whatever passes over the zones, kernel events, preference
\* changes and calls of other threads come between.
THEOREM MasksAlwaysCatchUp == Spec => []MasksCatchUp
<1>1. IndInv => MasksCatchUp
  <2> SUFFICES ASSUME IndInv, ~pipe.lost
               PROVE  /\ poll_on = Settled(fast_poll_sensor_mask, FAST_POLL_ENABLE, FAST_POLL_DISABLE)
                      /\ poll_interval_sec = 0 =>
                           poll_on = Settled(poll_sensor_mask, POLL_ENABLE, POLL_DISABLE)
    BY DEF MasksCatchUp
  <2>1. PICK ms : /\ Whole(pipe.data, ms)
                  /\ Good(ms, poll_on, poll_sensor_mask, fast_poll_sensor_mask, poll_timeout)
    BY Zenon DEF IndInv, InStep
  <2> QED
    BY <2>1, SettledIsOutcome DEF Good
<1> QED
  BY <1>1, AlwaysInStep, PTL

\* Whenever the pipe is empty, no write was cut off and a polling trip is on,
\* poll() waits one second: enables and disables of any number of sensors, with
\* or without a fixed interval, do not leave another timeout behind.
THEOREM AlwaysPolledEverySecond == Spec => []PolledEverySecond
<1>1. IndInv => PolledEverySecond
  <2> SUFFICES ASSUME IndInv, ~pipe.lost, pipe.data = << >>, poll_on # {} PROVE poll_timeout = 1
    BY Zenon DEF PolledEverySecond
  <2>1. PICK ms : /\ Whole(pipe.data, ms)
                  /\ Good(ms, poll_on, poll_sensor_mask, fast_poll_sensor_mask, poll_timeout)
    BY Zenon DEF IndInv, InStep
  <2>2. ms = << >>
    BY Zenon, <2>1, WholeFacts
  <2>3. poll_on = Outcome(fast_poll_sensor_mask, << >>, FAST_POLL_ENABLE, FAST_POLL_DISABLE)
    BY Zenon, <2>1, <2>2 DEF Good
  <2>4. fast_poll_sensor_mask # {}
    BY <2>3 DEF Outcome, EndsIn, Concerns
  <2> QED
    BY <2>1, <2>2, <2>4 DEF Good, Timed
<1> QED
  BY <1>1, AlwaysInStep, PTL
=============================================================================
