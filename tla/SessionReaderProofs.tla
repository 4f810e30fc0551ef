------------------------ MODULE SessionReaderProofs ------------------------
(***************************************************************************)
(* Proofs about SessionReader, for any lengths of messages and content, any *)
(* habits of the clients and any numbers of messages and connections.      *)
(***************************************************************************)
EXTENDS SessionReader, FiniteSetTheorems, WellFoundedInduction, SequenceTheorems, TLAPS

USE BoundsAssumption

\* The messages of a client that sends what ContentLength says.
Spoken == [n : 1 .. MaxMessages, command : DOMAIN ContentLength]
PieceSet == [message : Spoken, part : Pieces]

-----------------------------------------------------------------------------
\* Induction, first over numbers and then over the two recursive functions.

\* A set of naturals has a least one.
LEMMA MinOfNats ==
    ASSUME NEW S, S \subseteq Nat, S # {}
    PROVE  Min(S) \in S /\ \A n \in S : Min(S) <= n
<1> DEFINE R == {ss \in Nat \X Nat : ss[1] < ss[2]}
<1>1. IsWellFoundedOn(R, Nat)
  BY NatLessThanWellFounded DEF OpToRel
<1>2. \E x \in S : \A y \in S : ~ (<<y, x>> \in R)
  <2> HIDE DEF R
  <2> QED
    BY <1>1, WFMin
<1>3. \E x \in S : \A y \in S : x =< y
  <2>1. PICK x \in S : \A y \in S : ~ (<<y, x>> \in R)
    BY <1>2
  <2>2. ASSUME NEW y \in S PROVE x =< y
    <3>1. ~ (<<y, x>> \in R) /\ <<y, x>> \in Nat \X Nat
      BY <2>1, <2>2
    <3>2. ~ (<<y, x>>[1] < <<y, x>>[2])
      BY <3>1
    <3> QED
      BY <3>2
  <2> QED
    BY <2>2
<1> QED
  BY <1>3 DEF Min

\* What holds for a and goes from each number to the next holds up to b. The
\* property is a set, so that the lemma needs no operator as a parameter.
LEMMA CountingUp ==
    ASSUME NEW a \in Nat, NEW b \in Nat, NEW S, a \in S,
           \A i \in a .. b - 1 : i \in S => i + 1 \in S
    PROVE  \A i \in a .. b : i \in S
<1> DEFINE T == {i \in a .. b : i \notin S}
<1>1. SUFFICES ASSUME T # {} PROVE FALSE
  BY <1>1
<1>2. T \subseteq Nat
  OBVIOUS
<1>3. PICK m \in T : \A n \in T : m <= n
  <2> HIDE DEF T
  <2> QED
    BY <1>1, <1>2, MinOfNats
<1>4. m \in a .. b /\ m \notin S /\ m # a
  BY <1>3
<1>5. m - 1 \in a .. b - 1 /\ m - 1 \notin T
  BY <1>3, <1>4
<1> QED
  BY <1>4, <1>5

\* A recursive definition over 0 .. n has a solution: step[i] takes the value
\* at i - 1 to the value at i.
Steps(n, V) == [1 .. n -> [V -> V]]
Solutions(n, V, base, step) ==
    {f \in [0 .. n -> V] : f[0] = base /\ \A i \in 1 .. n : f[i] = step[i][f[i - 1]]}

LEMMA Recursion ==
    ASSUME NEW n \in Nat, NEW V, NEW base \in V, NEW step \in Steps(n, V)
    PROVE  Solutions(n, V, base, step) # {}
<1> USE DEF Steps
<1> DEFINE Solves(f, k) ==
             f[0] = base /\ \A i \in 1 .. k : f[i] = step[i][f[i - 1]]
           S == {k \in 0 .. n : \E f \in [0 .. k -> V] : Solves(f, k)}
<1>1. 0 \in S
  <2> DEFINE g == [i \in 0 .. 0 |-> base]
  <2>1. g \in [0 .. 0 -> V] /\ Solves(g, 0)
    OBVIOUS
  <2> HIDE DEF g, Solves
  <2> QED
    BY <2>1
<1>2. ASSUME NEW k \in 0 .. n - 1, k \in S PROVE k + 1 \in S
  <2>1. PICK f \in [0 .. k -> V] : Solves(f, k)
    BY <1>2
  <2> DEFINE g == [i \in 0 .. k + 1 |-> IF i = k + 1 THEN step[k + 1][f[k]] ELSE f[i]]
  <2>2. k + 1 \in 1 .. n /\ k \in 0 .. k /\ step[k + 1] \in [V -> V] /\ f[k] \in V
    OBVIOUS
  <2>3. step[k + 1][f[k]] \in V
    BY <2>2
  <2>4. g \in [0 .. k + 1 -> V]
    BY <2>3
  <2>5. Solves(g, k + 1)
    <3>1. g[0] = base /\ g[k + 1] = step[k + 1][g[k]]
      BY <2>1, <2>2
    <3>2. ASSUME NEW i \in 1 .. k PROVE g[i] = step[i][g[i - 1]]
      BY <2>1
    <3>3. ASSUME NEW i \in 1 .. k + 1 PROVE g[i] = step[i][g[i - 1]]
      <4> HIDE DEF g
      <4>1. CASE i \in 1 .. k
        BY <3>2, <4>1
      <4>2. CASE i = k + 1
        <5>1. i - 1 = k
          BY <4>2
        <5> QED
          BY <3>1, <4>2, <5>1
      <4> QED
        BY <4>1, <4>2
    <3> HIDE DEF g
    <3> QED
      BY <3>1, <3>3
  <2> HIDE DEF g, Solves
  <2> QED
    BY <2>2, <2>4, <2>5
<1>3. n \in S
  <2> HIDE DEF S
  <2>1. \A i \in 0 .. n - 1 : i \in S => i + 1 \in S
    BY <1>2
  <2>2. \A i \in 0 .. n : i \in S
    BY <1>1, <2>1, CountingUp
  <2> QED
    BY <2>2
<1> QED
  BY <1>3 DEF Solutions

LEMMA PieceBytes ==
    ASSUME NEW p \in PieceSet
    PROVE  /\ Bytes(p) \in Nat
           /\ p.part = "head" => Bytes(p) = 2
           /\ p.part = "content" => Bytes(p) <= MAX_CONTENT_LEN
           /\ p.part \in {"CR", "LF"} => Bytes(p) = 1
<1>1. p.message.command \in DOMAIN ContentLength /\ p.part \in Pieces
  BY DEF PieceSet, Spoken
<1>2. /\ ContentLength[p.message.command] \in Nat
      /\ ContentLength[p.message.command] <= MAX_CONTENT_LEN
  BY <1>1, LengthsAssumption, ConformingAssumption
<1> QED
  BY <1>1, <1>2 DEF Bytes, Pieces

\* strlen adds up the bytes.
LEMMA LengthOf ==
    ASSUME NEW s \in Seq(PieceSet)
    PROVE  \E f \in [0 .. Len(s) -> Nat] :
              /\ f[0] = 0 /\ \A i \in 1 .. Len(s) : f[i] = f[i - 1] + Bytes(s[i])
              /\ Length(s) = f[Len(s)]
<1> DEFINE n == Len(s)
           step == [i \in 1 .. n |-> [v \in Nat |-> v + Bytes(s[i])]]
           bytes == CHOOSE b : b = [i \in 0 .. n |->
                                       IF i = 0 THEN 0 ELSE b[i - 1] + Bytes(s[i])]
<1>1. n \in Nat /\ \A i \in 1 .. n : Bytes(s[i]) \in Nat
  BY LenProperties, ElementOfSeq, PieceBytes
<1>2. PICK f \in [0 .. n -> Nat] :
        f[0] = 0 /\ \A i \in 1 .. n : f[i] = step[i][f[i - 1]]
  <2>1. step \in Steps(n, Nat)
    <3> HIDE DEF n
    <3> QED
      BY <1>1 DEF Steps
  <2>2. 0 \in Nat /\ n \in Nat
    BY <1>1
  <2> HIDE DEF step, n
  <2>3. Solutions(n, Nat, 0, step) # {}
    BY <2>1, <2>2, Recursion
  <2> QED
    BY <2>3 DEF Solutions
<1>3. \A i \in 1 .. n : f[i] = f[i - 1] + Bytes(s[i])
  <2> HIDE DEF n
  <2>1. ASSUME NEW i \in 1 .. n PROVE f[i - 1] \in Nat
    BY <1>1, <1>2
  <2> QED
    BY <1>2, <2>1
<1>4. f = [i \in 0 .. n |-> IF i = 0 THEN 0 ELSE f[i - 1] + Bytes(s[i])]
  <2> HIDE DEF n
  <2> QED
    BY <1>1, <1>2, <1>3
<1>5. bytes = [i \in 0 .. n |-> IF i = 0 THEN 0 ELSE bytes[i - 1] + Bytes(s[i])]
  <2> HIDE DEF bytes, n
  <2> QED
    BY <1>4, Zenon DEF bytes
<1>6. Length(s) = bytes[n]
  BY Zenon DEF Length
<1>7. bytes[n] = f[n]
  <2> HIDE DEF bytes, n, step
  <2> DEFINE S == {i \in 0 .. n : bytes[i] = f[i]}
  <2>1. 0 \in S
    BY <1>1, <1>2, <1>5
  <2>2. ASSUME NEW i \in 0 .. n - 1, i \in S PROVE i + 1 \in S
    <3>1. i + 1 \in 1 .. n /\ (i + 1) - 1 = i
      BY <1>1
    <3>2. bytes[i + 1] = bytes[i] + Bytes(s[i + 1])
      BY <1>1, <1>5, <3>1
    <3>3. f[i + 1] = f[i] + Bytes(s[i + 1])
      BY <1>3, <3>1
    <3> QED
      BY <2>2, <3>1, <3>2, <3>3
  <2>3. \A i \in 0 .. n : i \in S
    <3> HIDE DEF S
    <3> QED
      BY <1>1, <2>1, <2>2, CountingUp
  <2> QED
    BY <1>1, <2>3
<1> HIDE DEF bytes, n, step
<1> QED
  BY <1>2, <1>3, <1>6, <1>7 DEF n

\* The messages in s are found piece by piece.
LEMMA ContentsOf ==
    ASSUME NEW s \in Seq(PieceSet)
    PROVE  \E f \in [0 .. Len(s) -> Seq(Spoken)] :
              /\ f[0] = <<>>
              /\ \A i \in 1 .. Len(s) :
                    f[i] = IF s[i].part = "content" THEN Append(f[i - 1], s[i].message)
                           ELSE f[i - 1]
              /\ Contents(s) = f[Len(s)]
<1> DEFINE n == Len(s)
           Next1(v, i) == IF s[i].part = "content" THEN Append(v, s[i].message) ELSE v
           step == [i \in 1 .. n |-> [v \in Seq(Spoken) |-> Next1(v, i)]]
           seen == CHOOSE c : c = [i \in 0 .. n |->
                                      IF i = 0 THEN <<>>
                                      ELSE IF s[i].part = "content"
                                           THEN Append(c[i - 1], s[i].message)
                                      ELSE c[i - 1]]
<1>1. n \in Nat /\ \A i \in 1 .. n : s[i].message \in Spoken
  <2>1. \A i \in 1 .. n : s[i] \in PieceSet
    BY ElementOfSeq
  <2> QED
    BY <2>1, LenProperties DEF PieceSet
<1>2. PICK f \in [0 .. n -> Seq(Spoken)] :
        f[0] = <<>> /\ \A i \in 1 .. n : f[i] = step[i][f[i - 1]]
  <2>1. ASSUME NEW v \in Seq(Spoken), NEW i \in 1 .. n PROVE Next1(v, i) \in Seq(Spoken)
    BY <1>1, <2>1, AppendProperties
  <2>2. step \in Steps(n, Seq(Spoken))
    <3> HIDE DEF n, Next1
    <3> QED
      BY <2>1 DEF Steps
  <2>3. <<>> \in Seq(Spoken) /\ n \in Nat
    BY <1>1, EmptySeq
  <2> HIDE DEF step, n
  <2>4. Solutions(n, Seq(Spoken), <<>>, step) # {}
    BY <2>2, <2>3, Recursion
  <2> QED
    BY <2>4 DEF Solutions
<1>3. \A i \in 1 .. n : f[i] = Next1(f[i - 1], i)
  <2> HIDE DEF n, Next1
  <2>1. ASSUME NEW i \in 1 .. n PROVE f[i - 1] \in Seq(Spoken)
    BY <1>1, <1>2
  <2> QED
    BY <1>2, <2>1
<1>4. f = [i \in 0 .. n |-> IF i = 0 THEN <<>> ELSE Next1(f[i - 1], i)]
  <2> HIDE DEF n, Next1
  <2> QED
    BY <1>1, <1>2, <1>3
<1>5. seen = [i \in 0 .. n |-> IF i = 0 THEN <<>> ELSE Next1(seen[i - 1], i)]
  <2> HIDE DEF seen, n
  <2> QED
    BY <1>4, Zenon DEF seen
<1>6. Contents(s) = seen[n]
  BY Zenon DEF Contents
<1>7. seen[n] = f[n]
  <2> HIDE DEF seen, n, step, Next1
  <2> DEFINE S == {i \in 0 .. n : seen[i] = f[i]}
  <2>1. 0 \in S
    BY <1>1, <1>2, <1>5
  <2>2. ASSUME NEW i \in 0 .. n - 1, i \in S PROVE i + 1 \in S
    <3>1. i + 1 \in 1 .. n /\ (i + 1) - 1 = i
      BY <1>1
    <3>2. seen[i + 1] = Next1(seen[i], i + 1)
      BY <1>1, <1>5, <3>1
    <3>3. f[i + 1] = Next1(f[i], i + 1)
      BY <1>3, <3>1
    <3> QED
      BY <2>2, <3>1, <3>2, <3>3
  <2>3. \A i \in 0 .. n : i \in S
    <3> HIDE DEF S
    <3> QED
      BY <1>1, <2>1, <2>2, CountingUp
  <2> QED
    BY <1>1, <2>3
<1> HIDE DEF seen, n, step
<1> QED
  BY <1>2, <1>3, <1>6, <1>7 DEF n

-----------------------------------------------------------------------------
\* The order of the pieces on their way.
N(p) == p.message.n
Rank(p) == IF p.part = "head" THEN 1 ELSE IF p.part = "content" THEN 2
           ELSE IF p.part = "CR" THEN 3 ELSE 4

\* p is the last piece of its message; J are the messages whose terminator is
\* not seen.
Ended(J, p) == p.part = "LF" \/ (p.part = "CR" /\ N(p) \in J)

\* q may come directly after p.
Follows(J, p, q) ==
    \/ q.message = p.message /\ Rank(q) = Rank(p) + 1
    \/ Ended(J, p) /\ q.part = "head" /\ N(q) = N(p) + 1

Chained(J, s) == \A i \in 1 .. Len(s) - 1 : Follows(J, s[i], s[i + 1])
Genuine(ms, s) == \A i \in 1 .. Len(s) : N(s[i]) \in 1 .. Len(ms) /\ s[i].message = ms[N(s[i])]
Starts(s) == s # <<>> => s[1].part = "head"
Ends(J, ms, s) == s # <<>> => Ended(J, s[Len(s)]) /\ N(s[Len(s)]) = Len(ms)

LEMMA PieceFacts ==
    ASSUME NEW p \in PieceSet
    PROVE  /\ p.message \in Spoken /\ N(p) \in 1 .. MaxMessages /\ N(p) \in Nat
           /\ Rank(p) \in 1 .. 4
           /\ p.part = "head" <=> Rank(p) = 1
           /\ p.part = "content" <=> Rank(p) = 2
           /\ p.part = "CR" <=> Rank(p) = 3
           /\ p.part = "LF" <=> Rank(p) = 4
<1>1. p.message \in Spoken /\ p.part \in Pieces
  BY DEF PieceSet
<1>2. N(p) \in 1 .. MaxMessages
  BY <1>1 DEF Spoken, N
<1> QED
  BY <1>1, <1>2 DEF Rank, Pieces

\* A part of a sequence.
LEMMA Cutting ==
    ASSUME NEW s \in Seq(PieceSet), NEW a \in 1 .. Len(s) + 1, NEW b \in a - 1 .. Len(s)
    PROVE  /\ SubSeq(s, a, b) \in Seq(PieceSet)
           /\ Len(SubSeq(s, a, b)) = b - a + 1
           /\ \A i \in 1 .. b - a + 1 : /\ SubSeq(s, a, b)[i] = s[a + i - 1]
                                        /\ a + i - 1 \in 1 .. Len(s)
<1>1. Len(s) \in Nat /\ \A i \in a .. b : s[i] \in PieceSet
  BY LenProperties, ElementOfSeq
<1>2. /\ SubSeq(s, a, b) \in Seq(PieceSet)
      /\ Len(SubSeq(s, a, b)) = b - a + 1
      /\ \A i \in 1 .. b - a + 1 : SubSeq(s, a, b)[i] = s[a + i - 1]
  BY <1>1, SubSeqProperties
<1>3. \A i \in 1 .. b - a + 1 : a + i - 1 \in 1 .. Len(s)
  BY <1>1
<1> QED
  BY <1>2, <1>3

LEMMA CutChain ==
    ASSUME NEW J, NEW ms, NEW s \in Seq(PieceSet),
           NEW a \in 1 .. Len(s) + 1, NEW b \in a - 1 .. Len(s),
           NEW t, t = SubSeq(s, a, b), Chained(J, s), Genuine(ms, s)
    PROVE  Chained(J, t) /\ Genuine(ms, t)
<1>1. /\ Len(s) \in Nat /\ Len(t) = b - a + 1
      /\ \A i \in 1 .. b - a + 1 : t[i] = s[a + i - 1] /\ a + i - 1 \in 1 .. Len(s)
  BY Cutting, LenProperties
<1>2. ASSUME NEW i \in 1 .. Len(t) - 1 PROVE Follows(J, t[i], t[i + 1])
  <2>1. /\ i \in 1 .. b - a + 1 /\ i + 1 \in 1 .. b - a + 1
        /\ a + i - 1 \in 1 .. Len(s) - 1 /\ a + (i + 1) - 1 = (a + i - 1) + 1
    BY <1>1
  <2>2. t[i] = s[a + i - 1] /\ t[i + 1] = s[(a + i - 1) + 1]
    BY <1>1, <2>1
  <2> QED
    BY <2>1, <2>2 DEF Chained
<1> QED
  BY <1>1, <1>2 DEF Chained, Genuine

\* Where the pieces of three sequences are in all of them together.
LEMMA Together ==
    ASSUME NEW a \in Seq(PieceSet), NEW b \in Seq(PieceSet), NEW c \in Seq(PieceSet)
    PROVE  /\ a \o b \o c \in Seq(PieceSet)
           /\ Len(a) \in Nat /\ Len(b) \in Nat /\ Len(c) \in Nat
           /\ Len(a \o b \o c) = Len(a) + Len(b) + Len(c)
           /\ \A i \in 1 .. Len(a) : (a \o b \o c)[i] = a[i]
           /\ \A i \in 1 .. Len(b) : (a \o b \o c)[Len(a) + i] = b[i]
           /\ \A i \in 1 .. Len(c) : (a \o b \o c)[Len(a) + Len(b) + i] = c[i]
<1> DEFINE d == a \o b
           u == d \o c
<1>1. Len(a) \in Nat /\ Len(b) \in Nat /\ Len(c) \in Nat
  BY LenProperties
<1>2. /\ d \in Seq(PieceSet) /\ Len(d) = Len(a) + Len(b)
      /\ \A i \in 1 .. Len(a) + Len(b) : d[i] = IF i <= Len(a) THEN a[i] ELSE b[i - Len(a)]
  BY ConcatProperties
<1> HIDE DEF d
<1>3. /\ u \in Seq(PieceSet) /\ Len(u) = Len(d) + Len(c)
      /\ \A i \in 1 .. Len(d) + Len(c) : u[i] = IF i <= Len(d) THEN d[i] ELSE c[i - Len(d)]
  <2>1. d \in Seq(PieceSet)
    BY <1>2
  <2> QED
    BY <2>1, ConcatProperties
<1> HIDE DEF u
<1>4. Len(u) = Len(a) + Len(b) + Len(c)
  BY <1>1, <1>2, <1>3
<1>5. ASSUME NEW i \in 1 .. Len(a) PROVE u[i] = a[i]
  BY <1>1, <1>2, <1>3
<1>6. ASSUME NEW i \in 1 .. Len(b) PROVE u[Len(a) + i] = b[i]
  <2>1. u[Len(a) + i] = d[Len(a) + i] /\ d[Len(a) + i] = b[(Len(a) + i) - Len(a)]
    BY <1>1, <1>2, <1>3
  <2>2. (Len(a) + i) - Len(a) = i
    BY <1>1
  <2> QED
    BY <2>1, <2>2
<1>7. ASSUME NEW i \in 1 .. Len(c) PROVE u[Len(a) + Len(b) + i] = c[i]
  <2>1. /\ Len(d) + i \in 1 .. Len(d) + Len(c) /\ ~ (Len(d) + i <= Len(d))
        /\ (Len(d) + i) - Len(d) = i /\ Len(d) + i = Len(a) + Len(b) + i
    BY <1>1, <1>2
  <2>2. u[Len(d) + i] = c[i]
    BY <1>3, <2>1
  <2> QED
    BY <2>1, <2>2
<1> QED
  BY <1>1, <1>3, <1>4, <1>5, <1>6, <1>7 DEF u, d

\* In a chain no piece comes twice: the next piece is a later one of the same
\* message, or of a later message.
LEMMA Increasing ==
    ASSUME NEW J, NEW s \in Seq(PieceSet), Chained(J, s),
           NEW i \in 1 .. Len(s), NEW j \in 1 .. Len(s), i < j
    PROVE  N(s[i]) < N(s[j]) \/ (N(s[i]) = N(s[j]) /\ Rank(s[i]) < Rank(s[j]))
<1> DEFINE Later(k) == N(s[i]) < N(s[k]) \/ (N(s[i]) = N(s[k]) /\ Rank(s[i]) < Rank(s[k]))
           S == {k \in i + 1 .. Len(s) : Later(k)}
<1>1. Len(s) \in Nat /\ \A k \in 1 .. Len(s) : N(s[k]) \in Nat /\ Rank(s[k]) \in 1 .. 4
  <2>1. \A k \in 1 .. Len(s) : s[k] \in PieceSet
    BY ElementOfSeq
  <2> QED
    BY <2>1, PieceFacts, LenProperties
<1>2. ASSUME NEW k \in 1 .. Len(s) - 1
      PROVE  \/ N(s[k + 1]) = N(s[k]) /\ Rank(s[k + 1]) = Rank(s[k]) + 1
             \/ N(s[k + 1]) = N(s[k]) + 1
  BY <1>2 DEF Chained, Follows, N
<1>3. i + 1 \in S
  <2>1. i \in 1 .. Len(s) - 1 /\ i + 1 \in i + 1 .. Len(s) /\ i + 1 \in 1 .. Len(s)
    BY <1>1
  <2>2. Later(i + 1)
    BY <1>1, <1>2, <2>1 DEF N, Rank
  <2> HIDE DEF Later
  <2> QED
    BY <2>1, <2>2
<1>4. ASSUME NEW k \in i + 1 .. Len(s) - 1, k \in S PROVE k + 1 \in S
  <2>1. k \in 1 .. Len(s) - 1 /\ k + 1 \in i + 1 .. Len(s) /\ k + 1 \in 1 .. Len(s)
        /\ k \in 1 .. Len(s)
    BY <1>1
  <2> DEFINE ni == N(s[i])
             nk == N(s[k])
             nl == N(s[k + 1])
             ri == Rank(s[i])
             rk == Rank(s[k])
             rl == Rank(s[k + 1])
  <2>2. /\ ni \in Nat /\ nk \in Nat /\ nl \in Nat
        /\ ri \in 1 .. 4 /\ rk \in 1 .. 4 /\ rl \in 1 .. 4
    BY <1>1, <2>1
  <2>3. ni < nk \/ (ni = nk /\ ri < rk)
    BY <1>4
  <2>4. \/ nl = nk /\ rl = rk + 1
        \/ nl = nk + 1
    BY <1>2, <2>1
  <2>5. ni < nl \/ (ni = nl /\ ri < rl)
    <3> HIDE DEF ni, nk, nl, ri, rk, rl
    <3> QED
      BY <2>2, <2>3, <2>4
  <2>6. Later(k + 1)
    BY <2>5
  <2> HIDE DEF Later
  <2> QED
    BY <2>1, <2>6
<1>5. \A k \in i + 1 .. Len(s) : k \in S
  <2> HIDE DEF S
  <2>1. i + 1 \in Nat
    BY <1>1
  <2> QED
    BY <1>1, <1>3, <1>4, <2>1, CountingUp
<1>6. j \in i + 1 .. Len(s)
  BY <1>1
<1> QED
  BY <1>5, <1>6

\* A chain without the end of a message whose terminator is seen: all messages
\* but the last are in J.
Clear(J, s) == \A i \in 1 .. Len(s) : s[i].part = "CR" => N(s[i]) \in J

LEMMA Behind ==
    ASSUME NEW J, NEW s \in Seq(PieceSet), Chained(J, s), Starts(s), Clear(J, s),
           NEW i \in 1 .. Len(s)
    PROVE  /\ N(s[1]) \in Nat /\ N(s[i]) \in Nat /\ N(s[1]) <= N(s[i])
           /\ \A n \in N(s[1]) .. N(s[i]) - 1 :
                 n \in J /\ \E h \in 1 .. Len(s) : N(s[h]) = n
           /\ s[i].part \in {"CR", "LF"} => N(s[i]) \in J
<1> DEFINE Known(n) == n \in J /\ \E h \in 1 .. Len(s) : N(s[h]) = n
           Holds(k) == /\ N(s[1]) <= N(s[k])
                       /\ \A n \in N(s[1]) .. N(s[k]) - 1 : Known(n)
                       /\ s[k].part \in {"CR", "LF"} => N(s[k]) \in J
           S == {k \in 1 .. Len(s) : Holds(k)}
<1>1. /\ Len(s) \in Nat /\ 1 \in 1 .. Len(s)
      /\ \A k \in 1 .. Len(s) : s[k] \in PieceSet /\ N(s[k]) \in Nat
  <2>1. \A k \in 1 .. Len(s) : s[k] \in PieceSet
    BY ElementOfSeq
  <2>2. Len(s) \in Nat
    BY LenProperties
  <2> QED
    BY <2>1, <2>2, PieceFacts
<1>2. 1 \in S
  <2>1. s # <<>>
    BY <1>1, EmptySeq
  <2>2. s[1].part = "head"
    BY <2>1 DEF Starts
  <2>3. N(s[1]) .. N(s[1]) - 1 = {} /\ N(s[1]) <= N(s[1])
    BY <1>1
  <2> QED
    BY <1>1, <2>2, <2>3
<1>3. ASSUME NEW k \in 1 .. Len(s) - 1, k \in S PROVE k + 1 \in S
  <2>1. k \in 1 .. Len(s) /\ k + 1 \in 1 .. Len(s)
    BY <1>1
  <2>2. Holds(k) /\ Follows(J, s[k], s[k + 1])
    BY <1>3 DEF Chained
  <2>3. CASE s[k + 1].message = s[k].message /\ Rank(s[k + 1]) = Rank(s[k]) + 1
    <3>1. N(s[k + 1]) = N(s[k])
      BY <2>3 DEF N
    <3>2. s[k + 1].part = "LF" => s[k].part = "CR"
      <4>1. /\ s[k] \in PieceSet /\ s[k + 1] \in PieceSet
        BY <1>1, <2>1
      <4>2. s[k + 1].part = "LF" => Rank(s[k + 1]) = 4
        BY <4>1, PieceFacts
      <4>3. Rank(s[k]) = 3 => s[k].part = "CR"
        BY <4>1, PieceFacts
      <4>4. Rank(s[k]) \in 1 .. 4
        BY <4>1, PieceFacts
      <4> QED
        BY <2>3, <4>2, <4>3, <4>4
    <3>3. s[k + 1].part \in {"CR", "LF"} => N(s[k + 1]) \in J
      BY <2>1, <2>2, <3>1, <3>2 DEF Clear
    <3>4. N(s[1]) <= N(s[k + 1]) /\ \A n \in N(s[1]) .. N(s[k + 1]) - 1 : Known(n)
      <4> HIDE DEF Known
      <4> QED
        BY <2>2, <3>1
    <3> HIDE DEF Known
    <3> QED
      BY <2>1, <3>3, <3>4
  <2>4. CASE Ended(J, s[k]) /\ s[k + 1].part = "head" /\ N(s[k + 1]) = N(s[k]) + 1
    <3>1. Known(N(s[k]))
      BY <2>1, <2>2, <2>4 DEF Ended
    <3> DEFINE n1 == N(s[1])
               nk == N(s[k])
               nl == N(s[k + 1])
    <3>2. n1 \in Nat /\ nk \in Nat /\ nl = nk + 1 /\ n1 <= nk
          /\ \A n \in n1 .. nk - 1 : Known(n)
      BY <1>1, <2>1, <2>2, <2>4
    <3>3. n1 <= nl /\ \A n \in n1 .. nl - 1 : n \in n1 .. nk - 1 \/ n = nk
      <4> HIDE DEF n1, nk, nl, Known
      <4> QED
        BY <3>2
    <3>4. \A n \in n1 .. nl - 1 : Known(n)
      <4> HIDE DEF n1, nl, Known
      <4> QED
        BY <3>1, <3>2, <3>3
    <3>5. s[k + 1].part \in {"CR", "LF"} => N(s[k + 1]) \in J
      BY <2>4
    <3> HIDE DEF Known
    <3> QED
      BY <2>1, <3>3, <3>4, <3>5
  <2> QED
    BY <2>2, <2>3, <2>4 DEF Follows
<1>4. \A k \in 1 .. Len(s) : k \in S
  <2> HIDE DEF S
  <2>1. 1 \in Nat
    OBVIOUS
  <2> QED
    BY <1>1, <1>2, <1>3, <2>1, CountingUp
<1> HIDE DEF Known
<1>5. Holds(i)
  BY <1>4
<1> QED
  BY <1>1, <1>5 DEF Known

\* What a message takes up to one of its pieces, and k whole messages.
UpTo(p) == IF p.part = "head" THEN 2
           ELSE IF p.part = "content" THEN MAX_MESSAGE_LEN_TO_SERVER - 2
           ELSE IF p.part = "CR" THEN MAX_MESSAGE_LEN_TO_SERVER - 1
           ELSE MAX_MESSAGE_LEN_TO_SERVER
Whole(k) == IF k = 0 THEN 0
            ELSE IF k = 1 THEN MAX_MESSAGE_LEN_TO_SERVER ELSE 2 * MAX_MESSAGE_LEN_TO_SERVER

LEMMA ChainLength ==
    ASSUME NEW J, NEW s \in Seq(PieceSet), s # <<>>, Chained(J, s), Starts(s),
           N(s[Len(s)]) - N(s[1]) <= 2
    PROVE  Length(s) <= Whole(N(s[Len(s)]) - N(s[1])) + UpTo(s[Len(s)])
<1>1. PICK f \in [0 .. Len(s) -> Nat] :
        /\ f[0] = 0 /\ \A i \in 1 .. Len(s) : f[i] = f[i - 1] + Bytes(s[i])
        /\ Length(s) = f[Len(s)]
  BY LengthOf
<1> DEFINE Holds(k) == /\ N(s[1]) <= N(s[k])
                       /\ N(s[k]) - N(s[1]) <= 2 =>
                             f[k] <= Whole(N(s[k]) - N(s[1])) + UpTo(s[k])
           S == {k \in 1 .. Len(s) : Holds(k)}
           Q == MAX_MESSAGE_LEN_TO_SERVER
<1>2. /\ Len(s) \in Nat /\ 1 \in 1 .. Len(s) /\ Len(s) \in 1 .. Len(s)
      /\ \A k \in 1 .. Len(s) : s[k] \in PieceSet /\ N(s[k]) \in Nat
  <2>1. \A k \in 1 .. Len(s) : s[k] \in PieceSet
    BY ElementOfSeq
  <2>2. Len(s) \in Nat \ {0}
    BY EmptySeq
  <2> QED
    BY <2>1, <2>2, PieceFacts
<1>3. Q \in Nat /\ Q >= 4 /\ MAX_CONTENT_LEN \in Nat /\ MAX_CONTENT_LEN <= Q - 4
  BY LengthsAssumption, ConformingAssumption
<1>4. 1 \in S
  <2>1. s[1].part = "head" /\ f[1] = f[0] + Bytes(s[1]) /\ Bytes(s[1]) = 2
    BY <1>1, <1>2, PieceBytes DEF Starts
  <2>2. N(s[1]) <= N(s[1]) /\ N(s[1]) - N(s[1]) = 0
    BY <1>2
  <2>3. f[1] = 2 /\ Whole(0) = 0 /\ UpTo(s[1]) = 2
    BY <1>1, <2>1 DEF Whole, UpTo
  <2> QED
    BY <1>2, <2>2, <2>3
<1>5. ASSUME NEW k \in 1 .. Len(s) - 1, k \in S PROVE k + 1 \in S
  <2> DEFINE n1 == N(s[1])
             nk == N(s[k])
             nl == N(s[k + 1])
             fk == f[k]
             fl == f[k + 1]
             p == s[k]
             q == s[k + 1]
  <2>1. k \in 1 .. Len(s) /\ k + 1 \in 1 .. Len(s) /\ k \in 0 .. Len(s) /\ (k + 1) - 1 = k
    BY <1>2
  <2>2. /\ n1 <= nk /\ (nk - n1 <= 2 => fk <= Whole(nk - n1) + UpTo(p))
        /\ Follows(J, p, q)
    BY <1>5 DEF Chained
  <2>3. /\ fk \in Nat /\ fl = fk + Bytes(q)
        /\ n1 \in Nat /\ nk \in Nat /\ nl \in Nat
        /\ p \in PieceSet /\ q \in PieceSet
    BY <1>1, <1>2, <2>1
  <2>4. q.message = p.message => nl = nk
    BY DEF N
  <2>5. n1 <= nl /\ (nl - n1 <= 2 => fl <= Whole(nl - n1) + UpTo(q))
    <3> HIDE DEF n1, nk, nl, fk, fl, p, q, Q
    <3>1. CASE q.message = p.message /\ Rank(q) = Rank(p) + 1
      <4>1. nl = nk
        BY <2>4, <3>1
      <4>2. UpTo(p) + Bytes(q) <= UpTo(q)
        <5>1. \/ p.part = "head" /\ q.part = "content"
              \/ p.part = "content" /\ q.part = "CR"
              \/ p.part = "CR" /\ q.part = "LF"
          BY <2>3, <3>1 DEF Rank, PieceSet, Pieces
        <5>2. /\ Bytes(q) \in Nat
              /\ q.part = "content" => Bytes(q) <= MAX_CONTENT_LEN
              /\ q.part \in {"CR", "LF"} => Bytes(q) = 1
          BY <2>3, PieceBytes
        <5>3. CASE p.part = "head" /\ q.part = "content"
          BY <1>3, <5>2, <5>3 DEF UpTo, Q
        <5>4. CASE p.part = "content" /\ q.part = "CR"
          BY <1>3, <5>2, <5>4 DEF UpTo, Q
        <5>5. CASE p.part = "CR" /\ q.part = "LF"
          BY <1>3, <5>2, <5>5 DEF UpTo, Q
        <5> QED
          BY <5>1, <5>3, <5>4, <5>5
      <4>3. Bytes(q) \in Nat /\ UpTo(p) \in Int /\ UpTo(q) \in Int /\ Whole(nk - n1) \in Int
        BY <1>3, <2>3, PieceBytes DEF UpTo, Whole, Q
      <4> QED
        BY <2>2, <2>3, <4>1, <4>2, <4>3
    <3>2. CASE Ended(J, p) /\ q.part = "head" /\ nl = nk + 1
      <4>1. Bytes(q) = 2 /\ UpTo(q) = 2 /\ UpTo(p) \in Int /\ UpTo(p) <= Q
        BY <1>3, <2>3, <3>2, PieceBytes DEF UpTo, Ended, Q
      <4>2. nl - n1 <= 2 => Whole(nk - n1) + Q <= Whole(nl - n1)
        BY <1>3, <2>2, <2>3, <3>2 DEF Whole, Q
      <4>3. Whole(nk - n1) \in Int /\ Whole(nl - n1) \in Int
        BY <1>3 DEF Whole, Q
      <4> QED
        BY <1>3, <2>2, <2>3, <3>2, <4>1, <4>2, <4>3
    <3> QED
      BY <2>2, <3>1, <3>2 DEF Follows, nl, nk
  <2> QED
    BY <2>1, <2>5
<1>6. \A k \in 1 .. Len(s) : k \in S
  <2> HIDE DEF S
  <2>1. 1 \in Nat
    OBVIOUS
  <2> QED
    BY <1>2, <1>4, <1>5, <2>1, CountingUp
<1>7. Holds(Len(s))
  BY <1>2, <1>6
<1> QED
  BY <1>1, <1>7

\* The messages of the chain s whose content is among its first i pieces.
Begun(s, i) == N(s[i]) - N(s[1]) + (IF s[i].part = "head" THEN 0 ELSE 1)

\* The contents in a chain are those of consecutive messages.
LEMMA ContentsAre ==
    ASSUME NEW J, NEW ms \in Seq(Spoken), NEW s \in Seq(PieceSet), s # <<>>,
           Chained(J, s), Starts(s), Genuine(ms, s)
    PROVE  /\ Contents(s) \in Seq(Spoken)
           /\ Len(Contents(s)) = Begun(s, Len(s))
           /\ \A j \in 1 .. Len(Contents(s)) : Contents(s)[j] = ms[N(s[1]) + j - 1]
<1>1. PICK f \in [0 .. Len(s) -> Seq(Spoken)] :
        /\ f[0] = <<>>
        /\ \A i \in 1 .. Len(s) :
              f[i] = IF s[i].part = "content" THEN Append(f[i - 1], s[i].message)
                     ELSE f[i - 1]
        /\ Contents(s) = f[Len(s)]
  BY ContentsOf
<1> DEFINE n1 == N(s[1])
           Holds(k) == /\ n1 <= N(s[k])
                       /\ Len(f[k]) = Begun(s, k)
                       /\ \A j \in 1 .. Len(f[k]) : f[k][j] = ms[n1 + j - 1]
           S == {k \in 1 .. Len(s) : Holds(k)}
<1>2. /\ Len(s) \in Nat /\ 1 \in 1 .. Len(s) /\ Len(s) \in 1 .. Len(s)
      /\ \A k \in 1 .. Len(s) : s[k] \in PieceSet /\ N(s[k]) \in Nat
  <2>1. \A k \in 1 .. Len(s) : s[k] \in PieceSet
    BY ElementOfSeq
  <2>2. Len(s) \in Nat \ {0}
    BY EmptySeq
  <2> QED
    BY <2>1, <2>2, PieceFacts
<1>3. 1 \in S
  <2>1. s[1].part = "head" /\ f[1] = f[0]
    <3>1. s[1].part = "head"
      BY DEF Starts
    <3>2. f[1] = IF s[1].part = "content" THEN Append(f[1 - 1], s[1].message) ELSE f[1 - 1]
      BY <1>1, <1>2
    <3> QED
      BY <3>1, <3>2
  <2>2. n1 <= N(s[1]) /\ Begun(s, 1) = 0
    BY <1>2, <2>1 DEF Begun
  <2>3. Len(f[1]) = 0
    BY <1>1, <2>1, EmptySeq
  <2> QED
    BY <1>2, <2>2, <2>3
<1>4. ASSUME NEW k \in 1 .. Len(s) - 1, k \in S PROVE k + 1 \in S
  <2> DEFINE nk == N(s[k])
             nl == N(s[k + 1])
             fk == f[k]
             fl == f[k + 1]
             p == s[k]
             q == s[k + 1]
  <2>1. k \in 1 .. Len(s) /\ k + 1 \in 1 .. Len(s) /\ k \in 0 .. Len(s) /\ (k + 1) - 1 = k
    BY <1>2
  <2>2. /\ n1 <= nk /\ Len(fk) = nk - n1 + (IF p.part = "head" THEN 0 ELSE 1)
        /\ \A j \in 1 .. Len(fk) : fk[j] = ms[n1 + j - 1]
        /\ Follows(J, p, q)
    BY <1>4 DEF Chained, Begun
  <2>3. /\ fk \in Seq(Spoken)
        /\ fl = IF q.part = "content" THEN Append(fk, q.message) ELSE fk
        /\ n1 \in Nat /\ nk \in Nat /\ nl \in Nat
        /\ p \in PieceSet /\ q \in PieceSet
        /\ q.message = ms[nl] /\ q.message \in Spoken
    <3>1. fk \in Seq(Spoken) /\ p \in PieceSet /\ q \in PieceSet
          /\ n1 \in Nat /\ nk \in Nat /\ nl \in Nat
      BY <1>1, <1>2, <2>1
    <3>2. q.message = ms[nl]
      BY <2>1 DEF Genuine
    <3>3. fl = IF q.part = "content" THEN Append(fk, q.message) ELSE fk
      BY <1>1, <2>1
    <3> QED
      BY <3>1, <3>2, <3>3, PieceFacts
  <2>4. q.message = p.message => nl = nk
    BY DEF N
  <2>5. /\ n1 <= nl /\ Len(fl) = nl - n1 + (IF q.part = "head" THEN 0 ELSE 1)
        /\ \A j \in 1 .. Len(fl) : fl[j] = ms[n1 + j - 1]
    <3> HIDE DEF n1, nk, nl, fk, fl, p, q
    <3>1. CASE q.message = p.message /\ Rank(q) = Rank(p) + 1
      <4>1. \/ p.part = "head" /\ q.part = "content"
            \/ p.part = "content" /\ q.part = "CR"
            \/ p.part = "CR" /\ q.part = "LF"
        BY <2>3, <3>1 DEF Rank, PieceSet, Pieces
      <4>2. CASE p.part = "head" /\ q.part = "content"
        <5>1. fl = Append(fk, q.message) /\ Len(fk) = nk - n1
          BY <2>2, <2>3, <4>2
        <5>2. /\ Len(fl) = Len(fk) + 1 /\ fl[Len(fk) + 1] = q.message
              /\ \A j \in 1 .. Len(fk) : fl[j] = fk[j]
          BY <2>3, <5>1, AppendProperties
        <5>3. ASSUME NEW j \in 1 .. Len(fl) PROVE fl[j] = ms[n1 + j - 1]
          <6>1. Len(fk) \in Nat
            BY <2>3, LenProperties
          <6>2. CASE j \in 1 .. Len(fk)
            BY <2>2, <5>2, <6>2
          <6>3. CASE j = Len(fk) + 1
            <7>1. n1 + j - 1 = nl
              BY <2>3, <2>4, <3>1, <5>1, <6>1, <6>3
            <7> QED
              BY <2>3, <5>2, <6>3, <7>1
          <6>4. j \in 1 .. Len(fk) \/ j = Len(fk) + 1
            BY <5>2, <6>1
          <6> QED
            BY <6>2, <6>3, <6>4
        <5> QED
          BY <2>2, <2>3, <2>4, <3>1, <4>2, <5>1, <5>2, <5>3
      <4>3. CASE q.part \in {"CR", "LF"} /\ p.part # "head"
        BY <2>2, <2>3, <2>4, <3>1, <4>3
      <4> QED
        BY <4>1, <4>2, <4>3
    <3>2. CASE Ended(J, p) /\ q.part = "head" /\ nl = nk + 1
      <4>1. p.part # "head" /\ fl = fk
        BY <2>3, <3>2 DEF Ended
      <4>2. Len(fk) = nk - n1 + 1 /\ n1 <= nl /\ nk - n1 + 1 = nl - n1 + 0
        BY <2>2, <2>3, <3>2, <4>1
      <4> QED
        BY <2>2, <3>2, <4>1, <4>2
    <3> QED
      BY <2>2, <3>1, <3>2 DEF Follows, nl, nk, p, q
  <2>6. Holds(k + 1)
    BY <2>5 DEF Begun
  <2> HIDE DEF Holds
  <2> QED
    BY <2>1, <2>6
<1>5. \A k \in 1 .. Len(s) : k \in S
  <2> HIDE DEF S
  <2>1. 1 \in Nat
    OBVIOUS
  <2> QED
    BY <1>2, <1>3, <1>4, <2>1, CountingUp
<1>6. Holds(Len(s)) /\ f[Len(s)] \in Seq(Spoken)
  BY <1>1, <1>2, <1>5
<1> QED
  BY <1>1, <1>6

LEMMA NoContents == Contents(<<>>) = <<>>
<1>1. <<>> \in Seq(PieceSet) /\ Len(<<>>) = 0
  BY EmptySeq
<1>2. PICK f \in [0 .. Len(<<>>) -> Seq(Spoken)] :
        f[0] = <<>> /\ Contents(<<>>) = f[Len(<<>>)]
  BY <1>1, ContentsOf, Zenon
<1> QED
  BY <1>1, <1>2

LEMMA NoLength == Length(<<>>) = 0
<1>1. <<>> \in Seq(PieceSet) /\ Len(<<>>) = 0
  BY EmptySeq
<1>2. PICK f \in [0 .. Len(<<>>) -> Nat] : f[0] = 0 /\ Length(<<>>) = f[Len(<<>>)]
  BY <1>1, LengthOf, Zenon
<1> QED
  BY <1>1, <1>2

\* What is left of a buffer is no longer than the buffer.
LEMMA RestLength ==
    ASSUME NEW s \in Seq(PieceSet), NEW a \in 1 .. Len(s) + 1
    PROVE  Length(SubSeq(s, a, Len(s))) <= Length(s) /\ Length(s) \in Nat
<1> DEFINE t == SubSeq(s, a, Len(s))
<1>1. PICK f \in [0 .. Len(s) -> Nat] :
        /\ f[0] = 0 /\ \A i \in 1 .. Len(s) : f[i] = f[i - 1] + Bytes(s[i])
        /\ Length(s) = f[Len(s)]
  BY LengthOf
<1>2. /\ t \in Seq(PieceSet) /\ Len(s) \in Nat /\ Len(t) = Len(s) - a + 1
      /\ \A i \in 1 .. Len(t) : t[i] = s[a + i - 1] /\ a + i - 1 \in 1 .. Len(s)
  <2>1. Len(s) \in Nat /\ Len(s) \in a - 1 .. Len(s)
    BY LenProperties
  <2> QED
    BY <2>1, Cutting
<1> HIDE DEF t
<1>3. PICK g \in [0 .. Len(t) -> Nat] :
        /\ g[0] = 0 /\ \A i \in 1 .. Len(t) : g[i] = g[i - 1] + Bytes(t[i])
        /\ Length(t) = g[Len(t)]
  BY <1>2, LengthOf
<1> DEFINE S == {i \in 0 .. Len(t) : g[i] <= f[a + i - 1]}
<1>4. Len(t) \in Nat /\ Len(t) \in 0 .. Len(t) /\ a + Len(t) - 1 = Len(s)
  BY <1>2
<1>5. 0 \in S
  <2>1. a + 0 - 1 \in 0 .. Len(s)
    BY <1>2
  <2> QED
    BY <1>1, <1>3, <1>4, <2>1
<1>6. ASSUME NEW i \in 0 .. Len(t) - 1, i \in S PROVE i + 1 \in S
  <2>1. /\ i + 1 \in 1 .. Len(t) /\ i + 1 \in 0 .. Len(t) /\ i \in 0 .. Len(t) /\ (i + 1) - 1 = i
        /\ a + i - 1 \in 0 .. Len(s)
        /\ a + (i + 1) - 1 \in 1 .. Len(s) /\ (a + (i + 1) - 1) - 1 = a + i - 1
    BY <1>2, <1>4
  <2> DEFINE p == s[a + (i + 1) - 1]
             gi == g[i]
             gj == g[i + 1]
             fi == f[a + i - 1]
             fj == f[a + (i + 1) - 1]
  <2>2. p \in PieceSet
    BY <2>1, ElementOfSeq
  <2>3. /\ t[i + 1] = p
        /\ gj = gi + Bytes(t[i + 1]) /\ fj = fi + Bytes(p)
        /\ gi \in Nat /\ fi \in Nat /\ Bytes(p) \in Nat /\ gi <= fi
    <3>1. t[i + 1] = p
      BY <1>2, <2>1
    <3>2. gj = gi + Bytes(t[i + 1]) /\ gi \in Nat
      BY <1>3, <2>1
    <3>3. fj = fi + Bytes(p) /\ fi \in Nat
      BY <1>1, <2>1
    <3>4. gi <= fi
      BY <1>6
    <3> QED
      BY <2>2, <3>1, <3>2, <3>3, <3>4, PieceBytes
  <2>4. gj <= fj
    <3> HIDE DEF gi, gj, fi, fj, p
    <3> QED
      BY <2>3
  <2> QED
    BY <2>1, <2>4
<1>7. \A i \in 0 .. Len(t) : i \in S
  <2> HIDE DEF S
  <2> QED
    BY <1>4, <1>5, <1>6, CountingUp
<1>8. g[Len(t)] <= f[a + Len(t) - 1]
  BY <1>4, <1>7
<1> QED
  BY <1>1, <1>3, <1>4, <1>8 DEF t

-----------------------------------------------------------------------------
\* What a worker holds and has not read, cut after the first or behind a part.

LEMMA FrontOf ==
    ASSUME NEW a \in Seq(PieceSet), NEW b \in Seq(PieceSet), NEW c \in Seq(PieceSet),
           NEW k \in 0 .. Len(b)
    PROVE  a \o SubSeq(b, 1, k) = SubSeq(a \o b \o c, 1, Len(a) + k)
<1> DEFINE u == a \o b \o c
           t == SubSeq(b, 1, k)
           l == a \o t
           r == SubSeq(u, 1, Len(a) + k)
<1>1. /\ u \in Seq(PieceSet)
      /\ Len(a) \in Nat /\ Len(b) \in Nat /\ Len(c) \in Nat
      /\ Len(u) = Len(a) + Len(b) + Len(c)
      /\ \A i \in 1 .. Len(a) : u[i] = a[i]
      /\ \A i \in 1 .. Len(b) : u[Len(a) + i] = b[i]
  BY Together
<1>2. /\ t \in Seq(PieceSet) /\ Len(t) = k
      /\ \A i \in 1 .. k : t[i] = b[i]
  <2>1. 1 \in 1 .. Len(b) + 1 /\ k \in 1 - 1 .. Len(b)
    BY <1>1
  <2>2. /\ t \in Seq(PieceSet) /\ Len(t) = k - 1 + 1
        /\ \A i \in 1 .. k - 1 + 1 : t[i] = b[1 + i - 1]
    BY <2>1, Cutting
  <2> HIDE DEF t
  <2> QED
    BY <2>2
<1> HIDE DEF u, t
<1>3. /\ l \in Seq(PieceSet) /\ Len(l) = Len(a) + k
      /\ \A i \in 1 .. Len(a) + k : l[i] = IF i <= Len(a) THEN a[i] ELSE t[i - Len(a)]
  BY <1>2, ConcatProperties
<1>4. /\ r \in Seq(PieceSet) /\ Len(r) = Len(a) + k
      /\ \A i \in 1 .. Len(a) + k : r[i] = u[i]
  <2>1. 1 \in 1 .. Len(u) + 1 /\ Len(a) + k \in 1 - 1 .. Len(u)
    BY <1>1
  <2>2. /\ r \in Seq(PieceSet) /\ Len(r) = Len(a) + k - 1 + 1
        /\ \A i \in 1 .. Len(a) + k - 1 + 1 : r[i] = u[1 + i - 1]
    BY <1>1, <2>1, Cutting
  <2> HIDE DEF r
  <2> QED
    BY <1>1, <2>2
<1> HIDE DEF l, r
<1>5. ASSUME NEW i \in 1 .. Len(l) PROVE l[i] = r[i]
  <2>1. i \in 1 .. Len(a) + k
    BY <1>3
  <2>2. CASE i <= Len(a)
    <3>1. i \in 1 .. Len(a)
      BY <1>1, <2>1, <2>2
    <3> QED
      BY <1>1, <1>3, <1>4, <2>1, <2>2, <3>1
  <2>3. CASE ~ (i <= Len(a))
    <3>1. i - Len(a) \in 1 .. k /\ i - Len(a) \in 1 .. Len(b) /\ Len(a) + (i - Len(a)) = i
      BY <1>1, <2>1, <2>3
    <3>2. u[i] = b[i - Len(a)] /\ t[i - Len(a)] = b[i - Len(a)]
      BY <1>1, <1>2, <3>1
    <3> QED
      BY <1>3, <1>4, <2>1, <2>3, <3>2
  <2> QED
    BY <2>2, <2>3
<1>6. l = r
  BY <1>3, <1>4, <1>5, SeqEqual
<1> QED
  BY <1>6 DEF l, r, t, u

LEMMA RestOf ==
    ASSUME NEW a \in Seq(PieceSet), NEW b \in Seq(PieceSet), NEW c \in Seq(PieceSet),
           NEW i \in 1 .. Len(b) + 1, NEW d \in {c, <<>>}
    PROVE  /\ <<>> \o SubSeq(b, i, Len(b)) \o d
                = SubSeq(a \o b \o c, Len(a) + i, Len(a) + Len(b) + Len(d))
           /\ Len(d) \in Nat /\ Len(d) <= Len(c)
<1> DEFINE u == a \o b \o c
           e == <<>>
           t == SubSeq(b, i, Len(b))
           l == e \o t \o d
           r == SubSeq(u, Len(a) + i, Len(a) + Len(b) + Len(d))
<1>1. /\ u \in Seq(PieceSet)
      /\ Len(a) \in Nat /\ Len(b) \in Nat /\ Len(c) \in Nat
      /\ Len(u) = Len(a) + Len(b) + Len(c)
      /\ \A j \in 1 .. Len(b) : u[Len(a) + j] = b[j]
      /\ \A j \in 1 .. Len(c) : u[Len(a) + Len(b) + j] = c[j]
  BY Together
<1>2. /\ e \in Seq(PieceSet) /\ d \in Seq(PieceSet) /\ Len(e) = 0
      /\ Len(d) \in Nat /\ Len(d) <= Len(c)
      /\ \A j \in 1 .. Len(d) : d[j] = c[j]
  <2>1. e \in Seq(PieceSet) /\ Len(e) = 0
    BY EmptySeq
  <2>2. CASE d = c
    BY <1>1, <2>1, <2>2
  <2>3. CASE d = <<>>
    BY <1>1, <2>1, <2>3
  <2> QED
    BY <2>2, <2>3
<1>3. /\ t \in Seq(PieceSet) /\ Len(t) = Len(b) - i + 1
      /\ \A j \in 1 .. Len(b) - i + 1 : t[j] = b[i + j - 1] /\ i + j - 1 \in 1 .. Len(b)
  <2>1. Len(b) \in i - 1 .. Len(b)
    BY <1>1
  <2> QED
    BY <2>1, Cutting
<1> HIDE DEF u, t, e
<1>4. /\ l \in Seq(PieceSet) /\ Len(l) = Len(t) + Len(d)
      /\ \A j \in 1 .. Len(t) : l[j] = t[j]
      /\ \A j \in 1 .. Len(d) : l[Len(t) + j] = d[j]
  <2>1. e \o t = t
    BY <1>3, ConcatEmptySeq DEF e
  <2>2. l = t \o d
    BY <2>1
  <2> HIDE DEF l
  <2>3. /\ l \in Seq(PieceSet) /\ Len(l) = Len(t) + Len(d)
        /\ \A j \in 1 .. Len(t) + Len(d) : l[j] = IF j <= Len(t) THEN t[j] ELSE d[j - Len(t)]
    <3>1. t \in Seq(PieceSet) /\ d \in Seq(PieceSet)
      BY <1>2, <1>3
    <3>2. /\ t \o d \in Seq(PieceSet) /\ Len(t \o d) = Len(t) + Len(d)
          /\ \A j \in 1 .. Len(t) + Len(d) :
                (t \o d)[j] = IF j <= Len(t) THEN t[j] ELSE d[j - Len(t)]
      BY <3>1, ConcatProperties, Zenon
    <3> QED
      BY <2>2, <3>2
  <2>4. Len(t) \in Nat /\ Len(d) \in Nat
    BY <1>1, <1>2, <1>3
  <2>5. ASSUME NEW j \in 1 .. Len(d) PROVE l[Len(t) + j] = d[j]
    <3>1. /\ Len(t) + j \in 1 .. Len(t) + Len(d) /\ ~ (Len(t) + j <= Len(t))
          /\ (Len(t) + j) - Len(t) = j
      BY <2>4
    <3> QED
      BY <2>3, <3>1
  <2> QED
    BY <2>3, <2>4, <2>5
<1>5. /\ r \in Seq(PieceSet) /\ Len(r) = Len(t) + Len(d)
      /\ \A j \in 1 .. Len(t) + Len(d) : r[j] = u[Len(a) + i + j - 1]
  <2> DEFINE m == Len(a) + i
             n == Len(a) + Len(b) + Len(d)
  <2>1. m \in 1 .. Len(u) + 1 /\ n \in m - 1 .. Len(u) /\ n - m + 1 = Len(t) + Len(d)
    BY <1>1, <1>2, <1>3
  <2>2. r = SubSeq(u, m, n)
    OBVIOUS
  <2> HIDE DEF m, n, r
  <2>3. /\ r \in Seq(PieceSet) /\ Len(r) = n - m + 1
        /\ \A j \in 1 .. n - m + 1 : r[j] = u[m + j - 1]
    BY <1>1, <2>1, <2>2, Cutting
  <2> QED
    BY <2>1, <2>3 DEF m
<1> HIDE DEF l, r
<1>6. ASSUME NEW j \in 1 .. Len(l) PROVE l[j] = r[j]
  <2>1. j \in 1 .. Len(t) + Len(d) /\ Len(t) \in Nat
    BY <1>1, <1>3, <1>4
  <2>2. CASE j <= Len(t)
    <3>0. j \in 1 .. Len(t) /\ j \in 1 .. Len(b) - i + 1
      BY <1>3, <2>1, <2>2
    <3>1. i + j - 1 \in 1 .. Len(b) /\ t[j] = b[i + j - 1]
      BY <1>3, <3>0
    <3>2. Len(a) + (i + j - 1) = Len(a) + i + j - 1
      BY <1>1, <2>1
    <3>3. u[Len(a) + i + j - 1] = b[i + j - 1]
      BY <1>1, <3>1, <3>2
    <3> QED
      BY <1>4, <1>5, <2>1, <3>0, <3>1, <3>3
  <2>3. CASE ~ (j <= Len(t))
    <3> DEFINE h == j - Len(t)
    <3>1. h \in 1 .. Len(d) /\ h \in 1 .. Len(c) /\ Len(t) + h = j
      BY <1>1, <1>2, <2>1, <2>3
    <3>2. Len(a) + Len(b) + h = Len(a) + i + j - 1
      BY <1>1, <1>3, <2>1
    <3> HIDE DEF h
    <3>3. u[Len(a) + i + j - 1] = c[h] /\ d[h] = c[h] /\ l[j] = d[h]
      BY <1>1, <1>2, <1>4, <3>1, <3>2
    <3> QED
      BY <1>5, <2>1, <3>3
  <2> QED
    BY <2>2, <2>3
<1>7. l = r
  BY <1>4, <1>5, <1>6, SeqEqual
<1> QED
  BY <1>2, <1>7 DEF l, r, t, u, e

-----------------------------------------------------------------------------
\* The invariant.

Typed ==
    /\ in_use \in BOOLEAN /\ state \in ClientStates /\ in_room \in BOOLEAN
    /\ num_of_clients \in Int
    /\ pc \in {"epoll_wait", "readable", "closed", "loop"}
    /\ current_msg \in Seq(PieceSet) /\ temp \in Seq(PieceSet) /\ wire \in Seq(PieceSet)
    /\ Length(temp) <= MAX_MESSAGE_LEN_TO_SERVER
    /\ hung_up \in BOOLEAN
    /\ sent \in Seq(Spoken) /\ \A n \in 1 .. Len(sent) : sent[n].n = n
    /\ joined \subseteq 1 .. Len(sent)
    /\ connections \in 0 .. MaxConnections
    /\ after_exit \in BOOLEAN

PcInv ==
    /\ pc # "loop" => temp = <<>>
    /\ pc \in {"readable", "closed"} => in_use
    /\ pc = "closed" => hung_up

\* What is on its way is a chain of pieces of what was sent, up to its end.
StreamInv ==
    /\ Chained(joined, Unrouted) /\ Genuine(sent, Unrouted) /\ Starts(Unrouted)
    /\ in_use => Ends(joined, sent, Unrouted)

\* A terminator of which the worker has kept only the CR is never seen.
TornInv ==
    /\ Clear(joined, current_msg)
    /\ temp # <<>> /\ temp[Len(temp)].part = "CR" => N(temp[Len(temp)]) \in joined

\* A terminator that is whole is seen.
Seen(J, s) == \A i \in Terminators(s) : N(s[i]) \notin J
SeenInv == Seen(joined, temp) /\ Seen(joined, wire)

\* A structure that is free holds nothing, and nothing is sent after EXIT.
FreeInv ==
    /\ ~ in_use => Unrouted = <<>>
    /\ \A n \in 1 .. Len(sent) - 1 : sent[n].command # "EXIT"

IInv ==
    /\ Typed /\ PcInv
    /\ StreamInv /\ TornInv /\ SeenInv
    /\ after_exit \/ FreeInv
    /\ SlotAgrees

\* Where the three parts of Unrouted are.
LEMMA Parts ==
    ASSUME Typed
    PROVE  /\ Unrouted \in Seq(PieceSet)
           /\ Len(current_msg) \in Nat /\ Len(temp) \in Nat /\ Len(wire) \in Nat
           /\ Len(Unrouted) = Len(current_msg) + Len(temp) + Len(wire)
           /\ \A i \in 1 .. Len(current_msg) : Unrouted[i] = current_msg[i]
           /\ \A i \in 1 .. Len(temp) : Unrouted[Len(current_msg) + i] = temp[i]
           /\ \A i \in 1 .. Len(wire) :
                 Unrouted[Len(current_msg) + Len(temp) + i] = wire[i]
           /\ \A i \in 1 .. Len(Unrouted) : Unrouted[i] \in PieceSet
<1>1. current_msg \in Seq(PieceSet) /\ temp \in Seq(PieceSet) /\ wire \in Seq(PieceSet)
  BY DEF Typed
<1>2. Unrouted \in Seq(PieceSet)
  BY <1>1, Together DEF Unrouted
<1>3. \A i \in 1 .. Len(Unrouted) : Unrouted[i] \in PieceSet
  BY <1>2, ElementOfSeq
<1> QED
  BY <1>1, <1>2, <1>3, Together DEF Unrouted

\* The terminator strstr returns.
LEMMA FirstTerminator ==
    ASSUME Typed, Terminators(temp) # {}
    PROVE  /\ Min(Terminators(temp)) \in 1 .. Len(temp) - 1
           /\ Min(Terminators(temp)) \in Terminators(temp)
           /\ temp[Min(Terminators(temp))].part = "CR"
           /\ temp[Min(Terminators(temp)) + 1].part = "LF"
           /\ \A i \in Terminators(temp) : Min(Terminators(temp)) <= i
<1>1. Terminators(temp) \subseteq Nat
  BY LenProperties DEF Terminators, Typed
<1>2. /\ Min(Terminators(temp)) \in Terminators(temp)
      /\ \A i \in Terminators(temp) : Min(Terminators(temp)) <= i
  BY <1>1, MinOfNats
<1> QED
  BY <1>2 DEF Terminators

\* What comes after a CR or an LF.
LEMMA AfterEnd ==
    ASSUME NEW J, NEW p \in PieceSet, NEW q \in PieceSet, Follows(J, p, q)
    PROVE  /\ p.part = "CR" => (q.part = "LF" /\ N(q) = N(p)) \/ N(p) \in J
           /\ p.part = "LF" => q.part = "head" /\ N(q) = N(p) + 1
           /\ q.part = "LF" => p.part = "CR" /\ N(q) = N(p)
           /\ q.part = "CR" => p.part = "content" /\ N(q) = N(p)
           /\ q.part = "head" => N(q) = N(p) + 1
<1>1. /\ p.part \in Pieces /\ q.part \in Pieces
      /\ q.message = p.message => N(q) = N(p)
  BY DEF PieceSet, N
<1>2. CASE q.message = p.message /\ Rank(q) = Rank(p) + 1
  BY <1>1, <1>2 DEF Rank, Pieces
<1>3. CASE Ended(J, p) /\ q.part = "head" /\ N(q) = N(p) + 1
  BY <1>3 DEF Ended
<1> QED
  BY <1>2, <1>3 DEF Follows

\* A CR before the first terminator ends a message whose terminator is not seen.
LEMMA Unseen ==
    ASSUME Typed, StreamInv, TornInv, NEW i \in 1 .. Len(temp), temp[i].part = "CR",
           Terminators(temp) = {} \/ i < Min(Terminators(temp))
    PROVE  N(temp[i]) \in joined
<1>1. Len(temp) \in Nat
  BY LenProperties DEF Typed
<1>2. CASE i = Len(temp)
  <2>1. temp # <<>>
    BY <1>1, EmptySeq
  <2> QED
    BY <1>2, <2>1 DEF TornInv
<1>3. CASE i # Len(temp)
  <2>1. i \in 1 .. Len(temp) - 1 /\ i + 1 \in 1 .. Len(temp)
    BY <1>1, <1>3
  <2>2. i \notin Terminators(temp)
    <3>1. CASE Terminators(temp) = {}
      BY <3>1
    <3>2. CASE Terminators(temp) # {}
      BY <1>1, <3>2, FirstTerminator
    <3> QED
      BY <3>1, <3>2
  <2>3. temp[i + 1].part # "LF"
    BY <2>1, <2>2 DEF Terminators
  <2> DEFINE k == Len(current_msg) + i
  <2>4. k \in 1 .. Len(Unrouted) - 1 /\ k + 1 \in 1 .. Len(Unrouted) /\ k \in 1 .. Len(Unrouted)
        /\ k + 1 = Len(current_msg) + (i + 1)
    BY <2>1, Parts
  <2>5. Unrouted[k] = temp[i] /\ Unrouted[k + 1] = temp[i + 1]
    BY <2>1, <2>4, Parts
  <2> HIDE DEF k
  <2>6. Follows(joined, temp[i], temp[i + 1]) /\ temp[i] \in PieceSet /\ temp[i + 1] \in PieceSet
    BY <2>4, <2>5, Parts DEF StreamInv, Chained
  <2> QED
    BY <2>3, <2>6, AfterEnd
<1> QED
  BY <1>2, <1>3

\* What strcat makes of current_msg: the first pieces of Unrouted, in which no
\* terminator is seen.
Taken == IF Terminators(temp) = {} THEN Len(temp) ELSE Min(Terminators(temp)) - 1

LEMMA Held ==
    ASSUME Typed, StreamInv, TornInv, NEW held, held = Concatenated(Appended(temp))
    PROVE  /\ held \in Seq(PieceSet) /\ Taken \in 0 .. Len(temp)
           /\ Len(held) = Len(current_msg) + Taken
           /\ \A i \in 1 .. Len(held) : held[i] = Unrouted[i] /\ i \in 1 .. Len(Unrouted)
           /\ Chained(joined, held) /\ Genuine(sent, held) /\ Starts(held)
           /\ Clear(joined, held)
<1>1. Taken \in 0 .. Len(temp) /\ Len(temp) \in Nat
  BY FirstTerminator, Parts DEF Taken
<1>2. held = current_msg \o SubSeq(temp, 1, Taken)
  <2>1. SubSeq(temp, 1, Len(temp)) = temp
    BY SubSeqFull DEF Typed
  <2> QED
    BY <2>1 DEF Concatenated, Appended, Taken
<1> DEFINE h == Len(current_msg) + Taken
<1>3. held = SubSeq(Unrouted, 1, h)
  BY <1>1, <1>2, FrontOf DEF Typed, Unrouted
<1>4. 1 \in 1 .. Len(Unrouted) + 1 /\ h \in 1 - 1 .. Len(Unrouted) /\ h - 1 + 1 = h
  BY <1>1, Parts
<1>5. /\ held \in Seq(PieceSet) /\ Len(held) = h - 1 + 1
      /\ \A i \in 1 .. h - 1 + 1 :
            held[i] = Unrouted[1 + i - 1] /\ 1 + i - 1 \in 1 .. Len(Unrouted)
  <2> HIDE DEF h
  <2> QED
    BY <1>3, <1>4, Parts, Cutting
<1>6. Chained(joined, held) /\ Genuine(sent, held)
  <2> HIDE DEF h
  <2> QED
    BY <1>3, <1>4, Parts, CutChain DEF StreamInv
<1>7. Len(held) = h /\ \A i \in 1 .. h : held[i] = Unrouted[i] /\ i \in 1 .. Len(Unrouted)
  <2> HIDE DEF h
  <2>1. \A i \in 1 .. h : 1 + i - 1 = i
    BY <1>4
  <2> QED
    BY <1>4, <1>5, <2>1
<1>8. Starts(held)
  <2> SUFFICES ASSUME held # <<>> PROVE held[1].part = "head"
    BY DEF Starts
  <2>1. Len(held) \in Nat \ {0}
    BY <1>5, EmptySeq
  <2>2. 1 \in 1 .. h
    BY <1>7, <2>1
  <2>3. held[1] = Unrouted[1] /\ 1 \in 1 .. Len(Unrouted)
    BY <1>7, <2>2
  <2>4. Unrouted # <<>>
    BY <2>3, EmptySeq
  <2> QED
    BY <2>3, <2>4 DEF StreamInv, Starts
<1>9. Clear(joined, held)
  <2> SUFFICES ASSUME NEW i \in 1 .. Len(held), held[i].part = "CR"
               PROVE  N(held[i]) \in joined
    BY DEF Clear
  <2>1. i \in 1 .. h /\ Len(current_msg) \in Nat
    BY <1>7, Parts
  <2>2. CASE i \in 1 .. Len(current_msg)
    <3>1. held[i] = current_msg[i]
      BY <1>7, <2>1, <2>2, Parts
    <3> QED
      BY <2>2, <3>1 DEF TornInv, Clear
  <2>3. CASE i \notin 1 .. Len(current_msg)
    <3> DEFINE j == i - Len(current_msg)
    <3>1. j \in 1 .. Taken /\ j \in 1 .. Len(temp) /\ Len(current_msg) + j = i
      BY <1>1, <2>1, <2>3
    <3>2. Terminators(temp) = {} \/ j < Min(Terminators(temp))
      BY <3>1, FirstTerminator DEF Taken
    <3> HIDE DEF j
    <3>3. held[i] = temp[j]
      BY <1>7, <2>1, <3>1, Parts
    <3> QED
      BY <3>1, <3>2, <3>3, Unseen
  <2> QED
    BY <2>2, <2>3
<1> QED
  BY <1>1, <1>5, <1>6, <1>7, <1>8, <1>9

\* Seeing fewer terminators keeps what is said of them.
LEMMA Fewer ==
    ASSUME NEW J, NEW K, J \subseteq K, NEW ms, NEW s
    PROVE  /\ Chained(J, s) => Chained(K, s)
           /\ Ends(J, ms, s) => Ends(K, ms, s)
           /\ Clear(J, s) => Clear(K, s)
<1>1. \A p, q : Follows(J, p, q) => Follows(K, p, q)
  BY DEF Follows, Ended
<1>2. Chained(J, s) => Chained(K, s)
  BY <1>1 DEF Chained
<1> QED
  BY <1>2 DEF Ends, Ended, Clear

LEMMA NothingThere ==
    /\ <<>> \in Seq(PieceSet) /\ <<>> \in Seq(Spoken)
    /\ \A J, ms : /\ Chained(J, <<>>) /\ Genuine(ms, <<>>) /\ Starts(<<>>)
                  /\ Ends(J, ms, <<>>) /\ Clear(J, <<>>) /\ Seen(J, <<>>)
    /\ <<>> \o <<>> \o <<>> = <<>>
<1>1. <<>> \in Seq(PieceSet) /\ <<>> \in Seq(Spoken) /\ Len(<<>>) = 0
  BY EmptySeq
<1>2. Terminators(<<>>) = {}
  BY <1>1 DEF Terminators
<1>3. <<>> \o <<>> = <<>>
  BY <1>1, ConcatEmptySeq
<1> QED
  BY <1>1, <1>2, <1>3 DEF Chained, Genuine, Starts, Ends, Clear, Seen

-----------------------------------------------------------------------------
LEMMA AnswersMoveOn ==
    ASSUME NEW st \in ClientStates, NEW command, command # "EXIT",
           NEW a \in Answers(st, command)
    PROVE  a.state \in ClientStates
  BY DEF Answers, Answer, ValidCommands, ClientStates

\* A message other than EXIT moves a client as the answer says; EXIT frees the
\* structure, with the bytes the kernel still holds.
LEMMA RouteEffect ==
    ASSUME Typed, NEW msg, Route(msg)
    PROVE  /\ state' \in ClientStates /\ in_room' \in BOOLEAN /\ num_of_clients' \in Int
           /\ current_msg' = <<>>
           /\ \/ /\ Head(msg).message.command = "EXIT" /\ Disconnect
              \/ /\ UNCHANGED <<in_use, num_of_clients, wire>>
                 /\ in_room' = IF state' = state THEN in_room ELSE state' = "in_chat_room"
<1> DEFINE command == Head(msg).message.command
<1>1. CASE WellFormed(msg) /\ command = "EXIT"
  BY <1>1 DEF Route, Disconnect, Typed, ClientStates
<1>2. CASE WellFormed(msg) /\ command # "EXIT"
  <2>1. PICK a \in Answers(state, command) :
          /\ state' = a.state
          /\ in_room' = IF a.state = state THEN in_room ELSE a.state = "in_chat_room"
    BY <1>2 DEF Route
  <2>2. a.state \in ClientStates
    BY <1>2, <2>1, AnswersMoveOn DEF Typed
  <2>3. current_msg' = <<>> /\ UNCHANGED <<in_use, num_of_clients, wire>>
    BY <1>2 DEF Route
  <2> QED
    BY <2>1, <2>2, <2>3 DEF Typed
<1>3. CASE ~ WellFormed(msg)
  BY <1>3 DEF Route, Typed
<1> QED
  BY <1>1, <1>2, <1>3

\* What the client puts on the wire.
LEMMA LineSent ==
    ASSUME Typed, NEW c \in DOMAIN ContentLength, Send(c)
    PROVE  \E m \in Spoken, line \in Seq(PieceSet) :
              /\ m.command = c /\ m.n = Len(sent) + 1 /\ Len(sent) \in Nat
              /\ sent' = Append(sent, m) /\ wire' = wire \o line
              /\ Len(line) = IF Cut(c) THEN 3 ELSE 4
              /\ \A i \in 1 .. Len(line) :
                    /\ line[i].message = m /\ N(line[i]) = m.n
                    /\ line[i].part = <<"head", "content", "CR", "LF">>[i]
<1> DEFINE m == [n |-> Len(sent) + 1, command |-> c]
           l == IF Cut(c) THEN 3 ELSE 4
           line == [i \in 1 .. l |-> Piece(m, <<"head", "content", "CR", "LF">>[i])]
<1>1. m \in Spoken /\ m.command = c /\ m.n = Len(sent) + 1 /\ Len(sent) \in Nat
  <2>1. Len(sent) \in Nat /\ Len(sent) < MaxMessages
    BY LenProperties DEF Typed, Send
  <2>2. Len(sent) + 1 \in 1 .. MaxMessages
    BY <2>1
  <2> QED
    BY <2>1, <2>2 DEF Spoken
<1>2. \A i \in 1 .. l : Piece(m, <<"head", "content", "CR", "LF">>[i]) \in PieceSet
  <2> HIDE DEF m
  <2>1. l \in {3, 4}
    OBVIOUS
  <2>2. \A i \in 1 .. 4 : <<"head", "content", "CR", "LF">>[i] \in Pieces
    BY DEF Pieces
  <2> QED
    BY <1>1, <2>1, <2>2 DEF Piece, PieceSet
<1>3. l \in {3, 4} /\ l \in Nat
  OBVIOUS
<1>4. line \in Seq(PieceSet) /\ Len(line) = l
  <2> HIDE DEF m, l
  <2>1. line \in [1 .. l -> PieceSet]
    BY <1>2
  <2>2. line \in Seq(PieceSet)
    BY <1>3, <2>1
  <2>3. Len(line) = l
    BY <1>3, <2>2, LenProperties
  <2> QED
    BY <2>2, <2>3
<1>5. sent' = Append(sent, m) /\ wire' = wire \o line
  BY DEF Send
<1>6. \A i \in 1 .. l : line[i] = Piece(m, <<"head", "content", "CR", "LF">>[i])
  OBVIOUS
<1>7. l = IF Cut(c) THEN 3 ELSE 4
  OBVIOUS
<1> HIDE DEF m, l, line
<1>8. \A i \in 1 .. l : /\ line[i].message = m /\ N(line[i]) = m.n
                        /\ line[i].part = <<"head", "content", "CR", "LF">>[i]
  <2> SUFFICES ASSUME NEW i \in 1 .. l
               PROVE  /\ line[i].message = m /\ N(line[i]) = m.n
                      /\ line[i].part = <<"head", "content", "CR", "LF">>[i]
    OBVIOUS
  <2>1. line[i] = Piece(m, <<"head", "content", "CR", "LF">>[i])
    BY <1>6
  <2>2. line[i].message = m /\ line[i].part = <<"head", "content", "CR", "LF">>[i]
    BY <2>1 DEF Piece
  <2> QED
    BY <2>2 DEF N
<1> QED
  BY <1>1, <1>3, <1>4, <1>5, <1>7, <1>8

-----------------------------------------------------------------------------
\* One turn of the loop takes Unrouted up to the terminator at position At.
At == Len(current_msg) + Min(Terminators(temp))

LEMMA AtTerminator ==
    ASSUME Typed, StreamInv, Terminators(temp) # {}
    PROVE  /\ At \in 2 .. Len(Unrouted) - 1 /\ At = Len(current_msg) + Taken + 1
           /\ At + 1 \in 1 .. Len(Unrouted) /\ At + 1 <= Len(current_msg) + Len(temp)
           /\ Unrouted[At].part = "CR" /\ Unrouted[At + 1].part = "LF"
           /\ Unrouted[At] = temp[Min(Terminators(temp))]
           /\ Unrouted[At] \in PieceSet /\ Unrouted[At + 1] \in PieceSet
           /\ N(Unrouted[At]) = N(Unrouted[At + 1])
           /\ Unrouted[At - 1].part = "content" /\ N(Unrouted[At - 1]) = N(Unrouted[At])
<1> DEFINE i == Min(Terminators(temp))
<1>1. /\ i \in 1 .. Len(temp) - 1 /\ i + 1 \in 1 .. Len(temp)
      /\ temp[i].part = "CR" /\ temp[i + 1].part = "LF"
      /\ Len(temp) \in Nat /\ Len(current_msg) \in Nat /\ Len(wire) \in Nat
      /\ Len(Unrouted) = Len(current_msg) + Len(temp) + Len(wire)
      /\ At = Len(current_msg) + i
      /\ At = Len(current_msg) + Taken + 1
  BY FirstTerminator, Parts DEF At, Taken
<1> HIDE DEF i
<1>2. /\ At \in 1 .. Len(Unrouted) - 1 /\ At \in 1 .. Len(Unrouted)
      /\ At + 1 \in 1 .. Len(Unrouted) /\ At + 1 = Len(current_msg) + (i + 1)
      /\ At + 1 <= Len(current_msg) + Len(temp)
  BY <1>1
<1>3. Unrouted[At] = temp[i]
  <2>1. i \in 1 .. Len(temp)
    BY <1>1
  <2> QED
    BY <1>1, <2>1, Parts
<1>4. Unrouted[At + 1] = temp[i + 1]
  BY <1>1, <1>2, Parts
<1>5. At # 1
  <2>1. 1 \in 1 .. Len(Unrouted)
    BY <1>2
  <2>2. Unrouted # <<>>
    BY <2>1, EmptySeq
  <2>3. Unrouted[1].part = "head"
    BY <2>2 DEF StreamInv, Starts
  <2> QED
    BY <1>1, <1>3, <2>3
<1>6. /\ At \in 2 .. Len(Unrouted) - 1 /\ At - 1 \in 1 .. Len(Unrouted) - 1
      /\ At - 1 \in 1 .. Len(Unrouted) /\ (At - 1) + 1 = At
  BY <1>2, <1>5
<1>7. /\ Unrouted[At - 1] \in PieceSet /\ Unrouted[At] \in PieceSet
      /\ Unrouted[At + 1] \in PieceSet
  BY <1>2, <1>6, Parts
<1>8. Follows(joined, Unrouted[At], Unrouted[At + 1])
  BY <1>2 DEF StreamInv, Chained
<1>9. Follows(joined, Unrouted[At - 1], Unrouted[At])
  BY <1>6 DEF StreamInv, Chained
<1>10. N(Unrouted[At]) = N(Unrouted[At + 1])
  <2> DEFINE p == Unrouted[At]
             q == Unrouted[At + 1]
  <2>1. p \in PieceSet /\ q \in PieceSet /\ q.part = "LF" /\ Follows(joined, p, q)
    BY <1>1, <1>4, <1>7, <1>8
  <2> HIDE DEF p, q
  <2>2. N(q) = N(p)
    BY <2>1, AfterEnd
  <2> QED
    BY <2>2 DEF p, q
<1>11. Unrouted[At - 1].part = "content" /\ N(Unrouted[At - 1]) = N(Unrouted[At])
  <2> DEFINE p == Unrouted[At - 1]
             q == Unrouted[At]
  <2>1. p \in PieceSet /\ q \in PieceSet /\ q.part = "CR" /\ Follows(joined, p, q)
    BY <1>1, <1>3, <1>7, <1>9
  <2> HIDE DEF p, q
  <2>2. p.part = "content" /\ N(q) = N(p)
    BY <2>1, AfterEnd
  <2> QED
    BY <2>2 DEF p, q
<1> QED
  BY <1>1, <1>2, <1>3, <1>4, <1>6, <1>7, <1>10, <1>11 DEF i

LEMMA Processed ==
    ASSUME Typed, StreamInv, ProcessMessage
    PROVE  /\ temp' \in Seq(PieceSet) /\ Len(temp') = Len(current_msg) + Len(temp) - At - 1
           /\ temp' = SubSeq(temp, Min(Terminators(temp)) + 2, Len(temp))
           /\ \A j \in 1 .. Len(temp') : /\ temp'[j] = temp[Min(Terminators(temp)) + 1 + j]
                                         /\ Min(Terminators(temp)) + 1 + j \in 1 .. Len(temp)
           /\ wire' \in {wire, <<>>} /\ current_msg' = <<>>
           /\ UNCHANGED <<pc, hung_up, history>>
           /\ Unrouted' \in Seq(PieceSet)
           /\ Len(Unrouted') = Len(temp') + Len(wire') /\ Len(wire') \in Nat
           /\ \A j \in 1 .. Len(Unrouted') : /\ Unrouted'[j] = Unrouted[At + 1 + j]
                                             /\ At + 1 + j \in 1 .. Len(Unrouted)
           /\ Chained(joined, Unrouted') /\ Genuine(sent, Unrouted') /\ Starts(Unrouted')
<1> DEFINE i == Min(Terminators(temp))
<1>1. /\ i \in 1 .. Len(temp) - 1 /\ At = Len(current_msg) + i
      /\ Len(temp) \in Nat /\ Len(current_msg) \in Nat /\ Len(wire) \in Nat
      /\ Len(Unrouted) = Len(current_msg) + Len(temp) + Len(wire)
      /\ Unrouted \in Seq(PieceSet)
      /\ i + 2 \in 1 .. Len(temp) + 1
  BY FirstTerminator, Parts DEF At, ProcessMessage
<1>2. /\ temp' = SubSeq(temp, i + 2, Len(temp)) /\ UNCHANGED <<pc, hung_up, history>>
      /\ current_msg' = <<>> /\ wire' \in {wire, <<>>}
  BY RouteEffect DEF ProcessMessage, Disconnect
<1> HIDE DEF i
<1>3. /\ temp' \in Seq(PieceSet) /\ Len(temp') = Len(temp) - i - 1
      /\ \A j \in 1 .. Len(temp') : temp'[j] = temp[i + 1 + j] /\ i + 1 + j \in 1 .. Len(temp)
  <2>1. Len(temp) \in (i + 2) - 1 .. Len(temp)
    BY <1>1
  <2>2. /\ temp' \in Seq(PieceSet) /\ Len(temp') = Len(temp) - (i + 2) + 1
        /\ \A j \in 1 .. Len(temp) - (i + 2) + 1 :
              temp'[j] = temp[(i + 2) + j - 1] /\ (i + 2) + j - 1 \in 1 .. Len(temp)
    BY <1>1, <1>2, <2>1, Cutting DEF Typed
  <2>3. \A j \in 1 .. Len(temp') : (i + 2) + j - 1 = i + 1 + j
    BY <1>1, <2>2
  <2> QED
    BY <1>1, <2>2, <2>3
<1> DEFINE m == At + 2
           n == Len(current_msg) + Len(temp) + Len(wire')
<1>4. Unrouted' = SubSeq(Unrouted, m, n) /\ Len(wire') \in Nat /\ Len(wire') <= Len(wire)
  <2>1. /\ <<>> \o SubSeq(temp, i + 2, Len(temp)) \o wire'
             = SubSeq(Unrouted, Len(current_msg) + (i + 2), n)
        /\ Len(wire') \in Nat /\ Len(wire') <= Len(wire)
    <3>1. /\ current_msg \in Seq(PieceSet) /\ temp \in Seq(PieceSet) /\ wire \in Seq(PieceSet)
          /\ i + 2 \in 1 .. Len(temp) + 1 /\ wire' \in {wire, <<>>}
      BY <1>1, <1>2 DEF Typed
    <3>2. /\ <<>> \o SubSeq(temp, i + 2, Len(temp)) \o wire'
               = SubSeq(current_msg \o temp \o wire, Len(current_msg) + (i + 2), n)
          /\ Len(wire') \in Nat /\ Len(wire') <= Len(wire)
      BY <3>1, RestOf, Zenon
    <3> QED
      BY <3>2 DEF Unrouted
  <2>2. Unrouted' = <<>> \o SubSeq(temp, i + 2, Len(temp)) \o wire'
    BY <1>2 DEF Unrouted
  <2>3. Len(current_msg) + (i + 2) = m
    BY <1>1
  <2> QED
    BY <2>1, <2>2, <2>3
<1>5. /\ m \in 1 .. Len(Unrouted) + 1 /\ n \in m - 1 .. Len(Unrouted)
      /\ n - m + 1 = Len(temp') + Len(wire')
  BY <1>1, <1>3, <1>4
<1>6. /\ Unrouted' \in Seq(PieceSet) /\ Len(Unrouted') = n - m + 1
      /\ \A j \in 1 .. n - m + 1 :
            Unrouted'[j] = Unrouted[m + j - 1] /\ m + j - 1 \in 1 .. Len(Unrouted)
  <2> HIDE DEF m, n
  <2> QED
    BY <1>1, <1>4, <1>5, Cutting
<1>7. Chained(joined, Unrouted') /\ Genuine(sent, Unrouted')
  <2> HIDE DEF m, n
  <2> QED
    BY <1>1, <1>4, <1>5, CutChain DEF StreamInv
<1>8. \A j \in 1 .. Len(Unrouted') : m + j - 1 = At + 1 + j
  BY <1>1, <1>5, <1>6
<1>9. \A j \in 1 .. Len(Unrouted') : /\ Unrouted'[j] = Unrouted[At + 1 + j]
                                     /\ At + 1 + j \in 1 .. Len(Unrouted)
  BY <1>6, <1>8
<1>10. Starts(Unrouted')
  <2> SUFFICES ASSUME Unrouted' # <<>> PROVE Unrouted'[1].part = "head"
    BY DEF Starts
  <2>1. Len(Unrouted') \in Nat \ {0}
    BY <1>6, EmptySeq
  <2>2. 1 \in 1 .. Len(Unrouted')
    BY <2>1
  <2>3. Unrouted'[1] = Unrouted[At + 1 + 1] /\ At + 1 + 1 \in 1 .. Len(Unrouted)
    BY <1>9, <2>2
  <2>4. At + 1 \in 1 .. Len(Unrouted) - 1
    BY <1>1, <2>3
  <2>5. Follows(joined, Unrouted[At + 1], Unrouted[At + 1 + 1])
    BY <2>4 DEF StreamInv, Chained
  <2>6. Unrouted[At + 1].part = "LF" /\ Unrouted[At + 1] \in PieceSet
    BY AtTerminator DEF ProcessMessage
  <2>7. Unrouted[At + 1 + 1] \in PieceSet
    BY <2>3, Parts
  <2> QED
    BY <2>3, <2>5, <2>6, <2>7, AfterEnd
<1>11. Len(temp') = Len(current_msg) + Len(temp) - At - 1
  BY <1>1, <1>3
<1>12. Len(Unrouted') = Len(temp') + Len(wire')
  BY <1>5, <1>6
<1> QED
  BY <1>2, <1>3, <1>4, <1>6, <1>7, <1>9, <1>10, <1>11, <1>12 DEF i

-----------------------------------------------------------------------------
\* What each action does to the stream.

LEMMA StreamProcess ==
    ASSUME Typed, StreamInv, TornInv, SeenInv, ProcessMessage
    PROVE  StreamInv' /\ TornInv' /\ SeenInv'
<1> DEFINE i == Min(Terminators(temp))
<1>1. /\ temp' \in Seq(PieceSet) /\ Len(temp') = Len(current_msg) + Len(temp) - At - 1
      /\ \A j \in 1 .. Len(temp') : temp'[j] = temp[i + 1 + j] /\ i + 1 + j \in 1 .. Len(temp)
      /\ wire' \in {wire, <<>>} /\ current_msg' = <<>> /\ joined' = joined /\ sent' = sent
      /\ Unrouted' \in Seq(PieceSet)
      /\ Len(Unrouted') = Len(temp') + Len(wire')
      /\ \A j \in 1 .. Len(Unrouted') : /\ Unrouted'[j] = Unrouted[At + 1 + j]
                                        /\ At + 1 + j \in 1 .. Len(Unrouted)
      /\ Chained(joined, Unrouted') /\ Genuine(sent, Unrouted') /\ Starts(Unrouted')
  BY Processed DEF history
<1>2. /\ At = Len(current_msg) + i /\ i \in 1 .. Len(temp) - 1
      /\ Len(temp) \in Nat /\ Len(current_msg) \in Nat /\ Len(wire) \in Nat
      /\ Len(Unrouted) = Len(current_msg) + Len(temp) + Len(wire)
  BY FirstTerminator, Parts DEF At, ProcessMessage
<1> HIDE DEF i
<1>3. /\ Len(temp') \in Nat
      /\ temp' # <<>> => Len(temp') \in 1 .. Len(temp') /\ i + 1 + Len(temp') = Len(temp)
  BY <1>1, <1>2, EmptySeq
<1>4. in_use' => Ends(joined', sent', Unrouted')
  <2> SUFFICES ASSUME in_use', Unrouted' # <<>>
               PROVE  /\ Ended(joined, Unrouted'[Len(Unrouted')])
                      /\ N(Unrouted'[Len(Unrouted')]) = Len(sent)
    BY <1>1 DEF Ends
  <2>1. in_use /\ wire' = wire
    BY RouteEffect DEF ProcessMessage, Disconnect
  <2>2. Len(Unrouted') \in Nat \ {0}
    BY <1>1, EmptySeq
  <2>3. /\ Len(Unrouted') \in 1 .. Len(Unrouted')
        /\ At + 1 + Len(Unrouted') = Len(Unrouted)
    BY <1>1, <1>2, <2>1, <2>2
  <2>4. /\ Unrouted'[Len(Unrouted')] = Unrouted[Len(Unrouted)]
        /\ Len(Unrouted) \in 1 .. Len(Unrouted)
    BY <1>1, <2>3
  <2>5. Unrouted # <<>>
    BY <2>4, EmptySeq
  <2> QED
    BY <2>1, <2>4, <2>5 DEF StreamInv, Ends
<1>5. TornInv'
  <2>1. Clear(joined', current_msg')
    BY <1>1, NothingThere
  <2>2. ASSUME temp' # <<>> PROVE temp # <<>> /\ temp'[Len(temp')] = temp[Len(temp)]
    <3>1. temp'[Len(temp')] = temp[Len(temp)] /\ Len(temp) \in 1 .. Len(temp)
      BY <1>1, <1>3, <2>2
    <3> QED
      BY <3>1, EmptySeq
  <2> QED
    BY <1>1, <2>1, <2>2 DEF TornInv
<1>6. Seen(joined', temp')
  <2> SUFFICES ASSUME NEW j \in Terminators(temp') PROVE N(temp'[j]) \notin joined
    BY <1>1 DEF Seen
  <2>1. /\ j \in 1 .. Len(temp') - 1 /\ temp'[j].part = "CR" /\ temp'[j + 1].part = "LF"
    BY DEF Terminators
  <2>2. /\ j \in 1 .. Len(temp') /\ j + 1 \in 1 .. Len(temp')
        /\ i + 1 + (j + 1) = (i + 1 + j) + 1
    BY <1>2, <1>3, <2>1
  <2>3. /\ temp'[j] = temp[i + 1 + j] /\ temp'[j + 1] = temp[(i + 1 + j) + 1]
        /\ i + 1 + j \in 1 .. Len(temp) - 1
    BY <1>1, <1>2, <2>2
  <2>4. i + 1 + j \in Terminators(temp)
    BY <2>1, <2>3 DEF Terminators
  <2> QED
    BY <2>3, <2>4 DEF SeenInv, Seen
<1>7. Seen(joined', wire')
  <2>1. CASE wire' = wire
    BY <1>1, <2>1 DEF SeenInv
  <2>2. CASE wire' = <<>>
    BY <2>2, NothingThere
  <2> QED
    BY <1>1, <2>1, <2>2
<1> QED
  BY <1>1, <1>4, <1>5, <1>6, <1>7 DEF StreamInv, SeenInv

\* What recv returns and what it leaves.
LEMMA Received ==
    ASSUME Typed, PcInv, NEW k \in 1 .. Len(wire), Recv(k)
    PROVE  /\ temp = <<>> /\ in_use /\ Unrouted' = Unrouted
           /\ temp' \in Seq(PieceSet) /\ Len(temp') = k
           /\ \A i \in 1 .. k : temp'[i] = wire[i]
           /\ wire' \in Seq(PieceSet) /\ Len(wire') = Len(wire) - k
           /\ \A i \in 1 .. Len(wire') : wire'[i] = wire[k + i] /\ k + i \in 1 .. Len(wire)
           /\ \A i \in 1 .. Len(wire) : Unrouted[Len(current_msg) + i] = wire[i]
           /\ Len(Unrouted) = Len(current_msg) + Len(wire)
<1>1. /\ temp = <<>> /\ in_use
      /\ temp' = SubSeq(wire, 1, k) /\ wire' = SubSeq(wire, k + 1, Len(wire))
      /\ current_msg' = current_msg
  BY DEF Recv, PcInv, structure
<1>2. /\ current_msg \in Seq(PieceSet) /\ wire \in Seq(PieceSet) /\ Len(wire) \in Nat
      /\ 1 \in 1 .. Len(wire) + 1 /\ k \in 1 - 1 .. Len(wire)
      /\ k + 1 \in 1 .. Len(wire) + 1 /\ Len(wire) \in (k + 1) - 1 .. Len(wire)
      /\ Len(wire) \in k .. Len(wire)
  BY LenProperties DEF Typed
<1>3. /\ temp' \in Seq(PieceSet) /\ Len(temp') = k
      /\ \A i \in 1 .. k : temp'[i] = wire[i]
  <2>1. /\ temp' \in Seq(PieceSet) /\ Len(temp') = k - 1 + 1
        /\ \A i \in 1 .. k - 1 + 1 : temp'[i] = wire[1 + i - 1]
    BY <1>1, <1>2, Cutting
  <2> QED
    BY <2>1
<1>4. /\ wire' \in Seq(PieceSet) /\ Len(wire') = Len(wire) - k
      /\ \A i \in 1 .. Len(wire') : wire'[i] = wire[k + i] /\ k + i \in 1 .. Len(wire)
  <2>1. /\ wire' \in Seq(PieceSet) /\ Len(wire') = Len(wire) - (k + 1) + 1
        /\ \A i \in 1 .. Len(wire) - (k + 1) + 1 :
              wire'[i] = wire[(k + 1) + i - 1] /\ (k + 1) + i - 1 \in 1 .. Len(wire)
    BY <1>1, <1>2, Cutting
  <2>2. Len(wire') = Len(wire) - k /\ \A i \in 1 .. Len(wire') : (k + 1) + i - 1 = k + i
    BY <1>2, <2>1
  <2> QED
    BY <1>2, <2>1, <2>2
<1>5. temp' \o wire' = wire
  <2>1. SubSeq(wire, 1, k) \o SubSeq(wire, k + 1, Len(wire)) = SubSeq(wire, 1, Len(wire))
    BY <1>2, ConcatAdjacentSubSeq
  <2>2. SubSeq(wire, 1, Len(wire)) = wire
    BY <1>2, SubSeqFull
  <2> QED
    BY <1>1, <2>1, <2>2
<1>6. Unrouted = current_msg \o wire
  <2>1. current_msg \o <<>> = current_msg
    BY <1>2, ConcatEmptySeq
  <2> QED
    BY <1>1, <2>1 DEF Unrouted
<1>7. Unrouted' = Unrouted
  <2>1. (current_msg \o temp') \o wire' = current_msg \o (temp' \o wire')
    <3> DEFINE t == temp'
               w == wire'
    <3>1. /\ current_msg \in Seq(PieceSet) /\ t \in Seq(PieceSet) /\ w \in Seq(PieceSet)
      BY <1>2, <1>3, <1>4
    <3> HIDE DEF t, w
    <3>2. (current_msg \o t) \o w = current_msg \o (t \o w)
      BY <3>1, ConcatAssociative
    <3> QED
      BY <3>2 DEF t, w
  <2> QED
    BY <1>1, <1>5, <1>6, <2>1 DEF Unrouted
<1>8. /\ Len(Unrouted) = Len(current_msg) + Len(wire)
      /\ \A i \in 1 .. Len(wire) : Unrouted[Len(current_msg) + i] = wire[i]
  <2>1. Len(temp) = 0 /\ Len(current_msg) \in Nat
    BY <1>1, <1>2, EmptySeq, LenProperties
  <2>2. Len(current_msg) + Len(temp) = Len(current_msg)
    BY <2>1
  <2> QED
    BY <2>2, Parts
<1> QED
  BY <1>1, <1>3, <1>4, <1>7, <1>8

LEMMA StreamRecv ==
    ASSUME Typed, PcInv, StreamInv, TornInv, SeenInv, NEW k \in 1 .. Len(wire), Recv(k)
    PROVE  StreamInv' /\ TornInv' /\ SeenInv' /\ joined' \subseteq 1 .. Len(sent')
<1>1. /\ temp = <<>> /\ in_use /\ Unrouted' = Unrouted
      /\ temp' \in Seq(PieceSet) /\ Len(temp') = k
      /\ \A i \in 1 .. k : temp'[i] = wire[i]
      /\ wire' \in Seq(PieceSet) /\ Len(wire') = Len(wire) - k
      /\ \A i \in 1 .. Len(wire') : wire'[i] = wire[k + i] /\ k + i \in 1 .. Len(wire)
      /\ \A i \in 1 .. Len(wire) : Unrouted[Len(current_msg) + i] = wire[i]
      /\ Len(Unrouted) = Len(current_msg) + Len(wire)
  BY Received
<1>2. /\ in_use' = in_use /\ sent' = sent /\ current_msg' = current_msg
      /\ joined' = IF k < Len(wire) /\ wire[k].part = "CR"
                   THEN joined \cup {N(wire[k])} ELSE joined
  BY DEF Recv, structure, N
<1>3. /\ Unrouted \in Seq(PieceSet) /\ Len(current_msg) \in Nat /\ Len(wire) \in Nat
      /\ \A i \in 1 .. Len(wire) : /\ Len(current_msg) + i \in 1 .. Len(Unrouted)
                                   /\ wire[i] \in PieceSet
      /\ k \in 1 .. Len(wire)
  <2>1. \A i \in 1 .. Len(wire) : wire[i] \in PieceSet
    BY ElementOfSeq DEF Typed
  <2> QED
    BY <1>1, <2>1, Parts
<1>4. joined \subseteq joined' /\ joined' \subseteq 1 .. Len(sent')
  <2>1. N(wire[k]) \in 1 .. Len(sent)
    <3>1. N(Unrouted[Len(current_msg) + k]) \in 1 .. Len(sent)
      BY <1>3 DEF StreamInv, Genuine
    <3>2. Unrouted[Len(current_msg) + k] = wire[k]
      BY <1>1, <1>3
    <3> QED
      BY <3>1, <3>2
  <2> QED
    BY <1>2, <2>1 DEF Typed
<1>5. StreamInv'
  BY <1>1, <1>2, <1>4, Fewer DEF StreamInv
<1>6. TornInv'
  <2>1. Clear(joined', current_msg')
    BY <1>2, <1>4, Fewer DEF TornInv
  <2>2. ASSUME wire[k].part = "CR" PROVE N(wire[k]) \in joined'
    <3>1. CASE k < Len(wire)
      BY <1>2, <2>2, <3>1
    <3>2. CASE ~ (k < Len(wire))
      <4>0. k = Len(wire)
        BY <1>3, <3>2
      <4>1. Len(Unrouted) = Len(current_msg) + k
        BY <1>1, <4>0
      <4>2. Unrouted # <<>>
        BY <1>3, <4>1, EmptySeq
      <4>3. Unrouted[Len(Unrouted)] = wire[k]
        BY <1>1, <1>3, <4>1
      <4>4. Ended(joined, wire[k])
        BY <1>1, <4>2, <4>3 DEF StreamInv, Ends
      <4> QED
        BY <1>4, <2>2, <4>4 DEF Ended
    <3> QED
      BY <3>1, <3>2
  <2>3. temp'[Len(temp')] = wire[k]
    BY <1>1
  <2> QED
    BY <2>1, <2>2, <2>3 DEF TornInv
<1>7. ASSUME NEW i \in Terminators(wire), i # k PROVE N(wire[i]) \notin joined'
  <2>1. i \in 1 .. Len(wire) /\ wire[i].part = "CR" /\ N(wire[i]) \notin joined
    <3>1. N(wire[i]) \notin joined
      BY <1>7 DEF SeenInv, Seen
    <3>2. i \in 1 .. Len(wire) - 1 /\ wire[i].part = "CR"
      BY <1>7 DEF Terminators
    <3> QED
      BY <1>3, <3>1, <3>2
  <2>2. CASE wire[k].part = "CR"
    <3> DEFINE l == Len(current_msg)
    <3>1. /\ l + i \in 1 .. Len(Unrouted) /\ l + k \in 1 .. Len(Unrouted)
          /\ l + i < l + k \/ l + k < l + i
          /\ Unrouted[l + i] = wire[i] /\ Unrouted[l + k] = wire[k]
      BY <1>1, <1>3, <1>7, <2>1
    <3>2. N(wire[i]) \in Nat /\ N(wire[k]) \in Nat /\ Rank(wire[i]) = 3 /\ Rank(wire[k]) = 3
      BY <1>3, <2>1, <2>2, PieceFacts
    <3> DEFINE p == wire[i]
               q == wire[k]
    <3>3. \/ N(p) < N(q) \/ (N(p) = N(q) /\ Rank(p) < Rank(q))
          \/ N(q) < N(p) \/ (N(q) = N(p) /\ Rank(q) < Rank(p))
      <4>1. CASE l + i < l + k
        <5>1. \/ N(Unrouted[l + i]) < N(Unrouted[l + k])
              \/ /\ N(Unrouted[l + i]) = N(Unrouted[l + k])
                 /\ Rank(Unrouted[l + i]) < Rank(Unrouted[l + k])
          <6> HIDE DEF l
          <6> QED
            BY <1>3, <3>1, <4>1, Increasing DEF StreamInv
        <5> QED
          BY <3>1, <5>1
      <4>2. CASE l + k < l + i
        <5>1. \/ N(Unrouted[l + k]) < N(Unrouted[l + i])
              \/ /\ N(Unrouted[l + k]) = N(Unrouted[l + i])
                 /\ Rank(Unrouted[l + k]) < Rank(Unrouted[l + i])
          <6> HIDE DEF l
          <6> QED
            BY <1>3, <3>1, <4>2, Increasing DEF StreamInv
        <5> QED
          BY <3>1, <5>1
      <4> QED
        BY <3>1, <4>1, <4>2
    <3>4. N(p) # N(q)
      <4> DEFINE np == N(p)
                 nq == N(q)
      <4>1. np \in Nat /\ nq \in Nat /\ (np < nq \/ nq < np)
        BY <3>2, <3>3
      <4> HIDE DEF np, nq
      <4>2. np # nq
        BY <4>1
      <4> QED
        BY <4>2 DEF np, nq
    <3> QED
      BY <1>2, <2>1, <3>4
  <2>3. CASE wire[k].part # "CR"
    BY <1>2, <2>1, <2>3
  <2> QED
    BY <2>2, <2>3
<1>8. Seen(joined', temp')
  <2> SUFFICES ASSUME NEW i \in Terminators(temp') PROVE N(temp'[i]) \notin joined'
    BY DEF Seen
  <2>1. i \in 1 .. k - 1 /\ temp'[i].part = "CR" /\ temp'[i + 1].part = "LF"
    BY <1>1 DEF Terminators
  <2>2. i \in 1 .. k /\ i + 1 \in 1 .. k /\ i # k /\ i \in 1 .. Len(wire) - 1
    BY <1>3, <2>1
  <2>3. temp'[i] = wire[i] /\ temp'[i + 1] = wire[i + 1]
    BY <1>1, <2>2
  <2>4. i \in Terminators(wire)
    BY <2>1, <2>2, <2>3 DEF Terminators
  <2> QED
    BY <1>7, <2>2, <2>3, <2>4
<1>9. Seen(joined', wire')
  <2> SUFFICES ASSUME NEW i \in Terminators(wire') PROVE N(wire'[i]) \notin joined'
    BY DEF Seen
  <2>1. i \in 1 .. Len(wire') - 1 /\ wire'[i].part = "CR" /\ wire'[i + 1].part = "LF"
    BY DEF Terminators
  <2>2. /\ i \in 1 .. Len(wire') /\ i + 1 \in 1 .. Len(wire')
        /\ k + i # k /\ k + i \in 1 .. Len(wire) - 1 /\ k + (i + 1) = (k + i) + 1
    BY <1>1, <1>3, <2>1
  <2>3. wire'[i] = wire[k + i] /\ wire'[i + 1] = wire[(k + i) + 1]
    BY <1>1, <2>2
  <2>4. k + i \in Terminators(wire)
    BY <2>1, <2>2, <2>3 DEF Terminators
  <2> QED
    BY <1>7, <2>2, <2>3, <2>4
<1> QED
  BY <1>4, <1>5, <1>6, <1>8, <1>9 DEF SeenInv

LEMMA StreamSave ==
    ASSUME Typed, StreamInv, TornInv, SeenInv, SavePartial
    PROVE  StreamInv' /\ TornInv' /\ SeenInv' /\ Unrouted' = Unrouted
<1>1. /\ current_msg' = current_msg \o temp /\ temp' = <<>>
      /\ wire' = wire /\ sent' = sent /\ joined' = joined /\ in_use' = in_use
      /\ Terminators(temp) = {}
  BY DEF SavePartial, Concatenated, history
<1>2. current_msg \o temp \in Seq(PieceSet)
  BY ConcatProperties DEF Typed
<1>3. Unrouted' = Unrouted
  <2>1. (current_msg \o temp) \o <<>> = current_msg \o temp
    BY <1>2, ConcatEmptySeq
  <2> QED
    BY <1>1, <2>1 DEF Unrouted
<1>4. Clear(joined, current_msg \o temp)
  <2> DEFINE held == Concatenated(Appended(temp))
  <2>1. held = current_msg \o temp
    BY <1>1 DEF Concatenated, Appended
  <2>2. Clear(joined, held)
    <3> HIDE DEF held
    <3>1. held = Concatenated(Appended(temp))
      BY DEF held
    <3> QED
      BY <3>1, Held
  <2> QED
    BY <2>1, <2>2
<1> QED
  BY <1>1, <1>3, <1>4, NothingThere DEF StreamInv, TornInv, SeenInv

\* The pieces of the line a client sends.
LEMMA LinePieces ==
    ASSUME Typed, NEW c \in DOMAIN ContentLength, Send(c)
    PROVE  \E m \in Spoken, line \in Seq(PieceSet) :
              /\ m.command = c /\ m.n = Len(sent) + 1 /\ Len(sent) \in Nat
              /\ sent' = Append(sent, m) /\ wire' = wire \o line
              /\ Len(line) \in {3, 4} /\ (Len(line) = 3 <=> Cut(c))
              /\ \A i \in 1 .. Len(line) :
                    /\ line[i].message = m /\ N(line[i]) = m.n /\ Rank(line[i]) = i
                    /\ line[i] \in PieceSet /\ i \in {1, 2, 3, 4}
<1>1. PICK m \in Spoken, line \in Seq(PieceSet) :
        /\ m.command = c /\ m.n = Len(sent) + 1 /\ Len(sent) \in Nat
        /\ sent' = Append(sent, m) /\ wire' = wire \o line
        /\ Len(line) = IF Cut(c) THEN 3 ELSE 4
        /\ \A i \in 1 .. Len(line) :
              /\ line[i].message = m /\ N(line[i]) = m.n
              /\ line[i].part = <<"head", "content", "CR", "LF">>[i]
  BY LineSent
<1>2. Len(line) \in {3, 4} /\ (Len(line) = 3 <=> Cut(c))
  BY <1>1
<1>3. ASSUME NEW i \in 1 .. Len(line)
      PROVE  i \in {1, 2, 3, 4} /\ Rank(line[i]) = i /\ line[i] \in PieceSet
  <2>1. i \in {1, 2, 3, 4}
    <3>1. CASE Len(line) = 3
      BY <3>1
    <3>2. CASE Len(line) = 4
      BY <3>2
    <3> QED
      BY <1>2, <3>1, <3>2
  <2>2. line[i].part = <<"head", "content", "CR", "LF">>[i]
    BY <1>1
  <2>3. Rank(line[i]) = i
    BY <2>1, <2>2 DEF Rank
  <2> QED
    BY <2>1, <2>3, ElementOfSeq
<1> QED
  BY <1>1, <1>2, <1>3

LEMMA StreamSend ==
    ASSUME Typed, StreamInv, TornInv, SeenInv, NEW c \in DOMAIN ContentLength, Send(c)
    PROVE  /\ StreamInv' /\ TornInv' /\ SeenInv' /\ joined' \subseteq 1 .. Len(sent')
           /\ wire' \in Seq(PieceSet) /\ Unrouted' \in Seq(PieceSet)
           /\ \E m \in Spoken :
                 /\ m.n = Len(sent) + 1 /\ sent' = Append(sent, m)
                 /\ joined' \in {joined, joined \cup {m.n}}
           /\ Unrouted' # <<>>
           /\ N(Unrouted'[1]) = IF Unrouted = <<>> THEN Len(sent) + 1 ELSE N(Unrouted[1])
<1>1. PICK m \in Spoken, line \in Seq(PieceSet) :
        /\ m.command = c /\ m.n = Len(sent) + 1 /\ Len(sent) \in Nat
        /\ sent' = Append(sent, m) /\ wire' = wire \o line
        /\ Len(line) \in {3, 4} /\ (Len(line) = 3 <=> Cut(c))
        /\ \A i \in 1 .. Len(line) :
              /\ line[i].message = m /\ N(line[i]) = m.n /\ Rank(line[i]) = i
              /\ line[i] \in PieceSet /\ i \in {1, 2, 3, 4}
  BY LinePieces
<1>0. /\ Len(line) \in Nat /\ 1 \in 1 .. Len(line) /\ Len(line) \in 1 .. Len(line)
      /\ 3 <= Len(line) /\ Len(line) <= 4
  <2> DEFINE l == Len(line)
  <2>1. l \in {3, 4}
    BY <1>1
  <2> HIDE DEF l
  <2>2. l \in Nat /\ 1 \in 1 .. l /\ l \in 1 .. l /\ 3 <= l /\ l <= 4
    BY <2>1
  <2> QED
    BY <2>2 DEF l
<1> DEFINE s == Unrouted
           n == Len(sent) + 1
           L == Len(s)
<1>2. /\ in_use /\ in_use' = in_use /\ temp' = temp /\ current_msg' = current_msg
      /\ joined' = IF Cut(c) THEN joined \cup {n} ELSE joined
  BY DEF Send, structure
<1>3. /\ s \in Seq(PieceSet) /\ Len(s) \in Nat /\ joined \subseteq 1 .. Len(sent)
      /\ sent \in Seq(Spoken)
      /\ \A i \in 1 .. Len(s) : s[i] \in PieceSet /\ N(s[i]) \in 1 .. Len(sent)
  BY Parts, LenProperties DEF Typed, StreamInv, Genuine
<1>4. /\ Len(sent') = n
      /\ \A i \in 1 .. Len(sent) : sent'[i] = sent[i]
      /\ sent'[n] = m
  BY <1>1, <1>3, AppendProperties
<1>5. joined \subseteq joined' /\ joined' \subseteq 1 .. Len(sent')
  <2>1. 1 .. Len(sent) \subseteq 1 .. n /\ n \in 1 .. n
    BY <1>1
  <2> HIDE DEF n
  <2> QED
    BY <1>2, <1>3, <1>4, <2>1
<1>6. Unrouted' = s \o line /\ wire' \in Seq(PieceSet)
  <2> DEFINE d == current_msg \o temp
  <2>1. d \in Seq(PieceSet) /\ wire \in Seq(PieceSet) /\ line \in Seq(PieceSet)
    BY ConcatProperties DEF Typed
  <2>2. (d \o wire) \o line = d \o (wire \o line)
    <3> HIDE DEF d
    <3> QED
      BY <2>1, ConcatAssociative
  <2>3. wire \o line \in Seq(PieceSet)
    BY <2>1, ConcatProperties
  <2> QED
    BY <1>1, <1>2, <2>2, <2>3 DEF Unrouted
<1> HIDE DEF s
<1> DEFINE u == s \o line
<1>7. /\ u \in Seq(PieceSet) /\ Len(u) = L + Len(line)
      /\ \A i \in 1 .. L + Len(line) : u[i] = IF i <= L THEN s[i] ELSE line[i - L]
  BY <1>1, <1>3, ConcatProperties
<1> HIDE DEF u
<1>8. ASSUME NEW i \in 1 .. Len(u)
      PROVE  \/ i \in 1 .. L /\ u[i] = s[i]
             \/ i - L \in 1 .. Len(line) /\ u[i] = line[i - L]
  BY <1>1, <1>3, <1>7
<1>9. Chained(joined', u)
  <2> SUFFICES ASSUME NEW i \in 1 .. Len(u) - 1 PROVE Follows(joined', u[i], u[i + 1])
    BY DEF Chained
  <2>1. CASE i \in 1 .. L - 1
    <3>1. u[i] = s[i] /\ u[i + 1] = s[i + 1]
      BY <1>1, <1>3, <1>7, <2>1
    <3>2. Chained(joined', s)
      BY <1>5, Fewer DEF StreamInv, s
    <3> QED
      BY <2>1, <3>1, <3>2 DEF Chained
  <2>2. CASE i = L
    <3>0. /\ L # 0 /\ L \in 1 .. L + Len(line) /\ L <= L
          /\ L + 1 \in 1 .. L + Len(line) /\ ~ (L + 1 <= L) /\ L + 1 - L = 1
      BY <1>0, <1>3, <2>2
    <3>1. u[i] = s[L] /\ u[i + 1] = line[1]
      BY <1>7, <2>2, <3>0
    <3>2. s # <<>>
      BY <3>0, EmptySeq
    <3>3. Ended(joined, s[L]) /\ N(s[L]) = Len(sent)
      BY <1>2, <3>2 DEF StreamInv, Ends, s
    <3>4. line[1].part = "head" /\ N(line[1]) = n
      <4>1. 1 \in 1 .. Len(line)
        BY <1>0
      <4> QED
        BY <1>1, <4>1, PieceFacts
    <3>5. Ended(joined', s[L])
      BY <1>5, <3>3 DEF Ended
    <3> QED
      BY <3>1, <3>3, <3>4, <3>5 DEF Follows
  <2>3. CASE i > L
    <3>1. /\ i - L \in 1 .. Len(line) /\ i + 1 - L \in 1 .. Len(line)
          /\ i + 1 - L = (i - L) + 1 /\ i \in 1 .. L + Len(line) /\ i + 1 \in 1 .. L + Len(line)
          /\ ~ (i <= L) /\ ~ (i + 1 <= L)
      BY <1>1, <1>3, <1>7, <2>3
    <3>2. u[i] = line[i - L] /\ u[i + 1] = line[(i - L) + 1]
      BY <1>7, <3>1
    <3>3. /\ line[i - L].message = m /\ line[(i - L) + 1].message = m
          /\ Rank(line[i - L]) = i - L /\ Rank(line[(i - L) + 1]) = (i - L) + 1
      BY <1>1, <3>1
    <3> QED
      BY <3>2, <3>3 DEF Follows
  <2> QED
    BY <1>1, <1>3, <1>7, <2>1, <2>2, <2>3
<1>10. Genuine(sent', u)
  <2> SUFFICES ASSUME NEW i \in 1 .. Len(u)
               PROVE  N(u[i]) \in 1 .. Len(sent') /\ u[i].message = sent'[N(u[i])]
    BY DEF Genuine
  <2>1. CASE i \in 1 .. L /\ u[i] = s[i]
    <3>1. N(s[i]) \in 1 .. Len(sent) /\ s[i].message = sent[N(s[i])]
      BY <2>1 DEF StreamInv, Genuine, s
    <3> QED
      BY <1>1, <1>4, <2>1, <3>1
  <2>2. CASE i - L \in 1 .. Len(line) /\ u[i] = line[i - L]
    <3>1. u[i].message = m /\ N(u[i]) = n
      BY <1>1, <2>2
    <3> QED
      BY <1>1, <1>4, <3>1
  <2> QED
    BY <1>8, <2>1, <2>2
<1>11. u # <<>> /\ u[1] = IF s = <<>> THEN line[1] ELSE s[1]
  <2>1. 1 \in 1 .. Len(u) /\ 1 \in 1 .. L + Len(line)
    BY <1>0, <1>3, <1>7
  <2>2. s = <<>> <=> L = 0
    BY <1>3, EmptySeq
  <2> QED
    BY <1>3, <1>7, <2>1, <2>2, EmptySeq
<1>12. line[1].part = "head" /\ N(line[1]) = n
  <2>1. 1 \in 1 .. Len(line)
    BY <1>0
  <2> QED
    BY <1>1, <2>1, PieceFacts
<1>13. Starts(u)
  BY <1>11, <1>12 DEF StreamInv, Starts, s
<1>14. Ends(joined', sent', u)
  <2> DEFINE k == Len(line)
  <2>1. u[Len(u)] = line[k] /\ k \in 1 .. Len(line)
    <3>1. Len(u) \in 1 .. L + k /\ ~ (Len(u) <= L) /\ Len(u) - L = k /\ k \in 1 .. Len(line)
      BY <1>0, <1>3, <1>7
    <3> QED
      BY <1>7, <3>1
  <2>2. N(line[k]) = Len(sent')
    BY <1>1, <1>4, <2>1
  <2>3. Ended(joined', line[k])
    <3>1. Rank(line[k]) = k /\ N(line[k]) = n /\ line[k] \in PieceSet
      BY <1>1, <2>1
    <3>2. CASE k = 4
      BY <3>1, <3>2, PieceFacts DEF Ended
    <3>3. CASE k = 3
      <4>1. n \in joined'
        BY <1>1, <1>2, <3>3
      <4>2. line[k].part = "CR"
        BY <3>1, <3>3, PieceFacts
      <4> QED
        BY <3>1, <4>1, <4>2 DEF Ended
    <3> QED
      BY <1>1, <3>2, <3>3
  <2> QED
    BY <2>1, <2>2, <2>3 DEF Ends
<1>15. TornInv'
  BY <1>2, <1>5, Fewer DEF TornInv
<1>16. ASSUME NEW i \in 1 .. Len(s), N(s[i]) \notin joined PROVE N(s[i]) \notin joined'
  <2>1. N(s[i]) # n
    BY <1>1, <1>3
  <2> QED
    BY <1>2, <1>16, <2>1
<1>17. Seen(joined', temp')
  <2> SUFFICES ASSUME NEW i \in Terminators(temp) PROVE N(temp[i]) \notin joined'
    BY <1>2 DEF Seen
  <2>1. N(temp[i]) \notin joined /\ i \in 1 .. Len(temp) - 1
    BY DEF SeenInv, Seen, Terminators
  <2>2. Len(current_msg) + i \in 1 .. Len(s) /\ s[Len(current_msg) + i] = temp[i]
    BY <2>1, Parts DEF s
  <2> QED
    BY <1>16, <2>1, <2>2
<1>18. Seen(joined', wire')
  <2> SUFFICES ASSUME NEW i \in Terminators(wire') PROVE N(wire'[i]) \notin joined'
    BY DEF Seen
  <2> DEFINE W == Len(wire)
             w == wire \o line
  <2>1. /\ wire' = w /\ Len(w) = W + Len(line) /\ W \in Nat
        /\ \A j \in 1 .. W + Len(line) : w[j] = IF j <= W THEN wire[j] ELSE line[j - W]
    BY <1>1, ConcatProperties, LenProperties DEF Typed
  <2> HIDE DEF w
  <2>2. i \in 1 .. Len(w) - 1 /\ w[i].part = "CR" /\ w[i + 1].part = "LF"
    BY <2>1 DEF Terminators
  <2>3. CASE i \in 1 .. W - 1
    <3>1. w[i] = wire[i] /\ w[i + 1] = wire[i + 1]
      BY <1>1, <2>1, <2>3
    <3>2. N(wire[i]) \notin joined
      BY <2>2, <2>3, <3>1 DEF SeenInv, Seen, Terminators
    <3>3. i \in 1 .. Len(wire)
      BY <2>1, <2>3
    <3>4. /\ Len(current_msg) + Len(temp) + i \in 1 .. Len(s)
          /\ s[Len(current_msg) + Len(temp) + i] = wire[i]
      BY <3>3, Parts DEF s
    <3> QED
      BY <1>16, <2>1, <3>1, <3>2, <3>4
  <2>4. CASE i = W
    <3>1. w[i + 1] = line[1]
      BY <1>1, <2>1, <2>4
    <3> QED
      BY <1>12, <2>2, <3>1
  <2>5. CASE i > W
    <3> DEFINE j == i - W
    <3>1. /\ j \in 1 .. Len(line) /\ j + 1 \in 1 .. Len(line) /\ i + 1 - W = j + 1
          /\ i \in 1 .. W + Len(line) /\ ~ (i <= W)
      BY <1>1, <2>1, <2>2, <2>5
    <3>2. w[i] = line[j]
      BY <2>1, <3>1
    <3> HIDE DEF j
    <3>3. N(w[i]) = n /\ Rank(w[i]) = j /\ w[i] \in PieceSet
      BY <1>1, <3>1, <3>2
    <3>4. j = 3
      BY <2>2, <3>3, PieceFacts
    <3>5. joined' = joined
      <4>1. 4 \in 1 .. Len(line)
        BY <3>1, <3>4
      <4> DEFINE l == Len(line)
      <4>2. l # 3
        <5> HIDE DEF l
        <5>1. 4 \in 1 .. l
          BY <4>1 DEF l
        <5> QED
          BY <5>1
      <4>3. ~ Cut(c)
        BY <1>1, <4>2
      <4> QED
        BY <1>2, <4>3
    <3>6. n \notin joined
      BY <1>1, <1>3
    <3> QED
      BY <2>1, <3>3, <3>5, <3>6
  <2> QED
    BY <1>1, <2>1, <2>2, <2>3, <2>4, <2>5
<1>19. StreamInv'
  BY <1>6, <1>9, <1>10, <1>13, <1>14 DEF StreamInv, u
<1>20. m.n = Len(sent) + 1 /\ sent' = Append(sent, m) /\ joined' \in {joined, joined \cup {m.n}}
  BY <1>1, <1>2
<1>21. N(u[1]) = IF s = <<>> THEN n ELSE N(s[1])
  BY <1>11, <1>12
<1> QED
  BY <1>5, <1>6, <1>7, <1>11, <1>15, <1>17, <1>18, <1>19, <1>20, <1>21 DEF SeenInv, u, s

-----------------------------------------------------------------------------
\* What is routed starts with the first piece that is not.
LEMMA HeadOfHeld ==
    ASSUME Typed, StreamInv, TornInv, Terminators(temp) # {}
    PROVE  /\ Head(Concatenated(Appended(temp))) = Unrouted[1]
           /\ 1 \in 1 .. Len(Unrouted) /\ Unrouted # <<>>
<1> DEFINE held == Concatenated(Appended(temp))
<1>1. /\ held \in Seq(PieceSet) /\ Len(held) = Len(current_msg) + Taken
      /\ \A i \in 1 .. Len(held) : held[i] = Unrouted[i] /\ i \in 1 .. Len(Unrouted)
  <2> HIDE DEF held
  <2>1. held = Concatenated(Appended(temp))
    BY DEF held
  <2> QED
    BY <2>1, Held
<1> HIDE DEF held
<1>2. Len(held) = At - 1 /\ At \in 2 .. Len(Unrouted) - 1
  <2>1. Len(current_msg) \in Nat /\ Taken \in Int
    BY Parts, FirstTerminator DEF Taken
  <2> QED
    BY <1>1, <2>1, AtTerminator
<1>3. 1 \in 1 .. Len(held)
  BY <1>2
<1>4. held[1] = Unrouted[1] /\ 1 \in 1 .. Len(Unrouted) /\ held # <<>>
  BY <1>1, <1>3, EmptySeq
<1>5. Head(held) = held[1]
  BY <1>1, <1>4
<1> QED
  BY <1>4, <1>5, EmptySeq DEF held

\* Nothing is left to read after EXIT.
LEMMA ExitIsLast ==
    ASSUME Typed, StreamInv, TornInv, FreeInv, Terminators(temp) # {},
           Head(Concatenated(Appended(temp))).message.command = "EXIT"
    PROVE  Len(Unrouted) = At + 1
<1>1. /\ At \in 2 .. Len(Unrouted) - 1 /\ At + 1 \in 1 .. Len(Unrouted)
      /\ Unrouted[At + 1].part = "LF" /\ Unrouted[At] \in PieceSet
      /\ Unrouted[At + 1] \in PieceSet
      /\ N(Unrouted[At]) = N(Unrouted[At + 1])
      /\ Len(Unrouted) \in Nat /\ Unrouted \in Seq(PieceSet) /\ Len(sent) \in Nat
  BY AtTerminator, Parts, LenProperties DEF Typed
<1>2. 1 \in 1 .. Len(Unrouted) /\ Unrouted[1].message.command = "EXIT"
  BY HeadOfHeld
<1>3. \A i \in 1 .. Len(Unrouted) : N(Unrouted[i]) \in 1 .. Len(sent)
  BY DEF StreamInv, Genuine
<1>4. N(Unrouted[1]) = Len(sent)
  <2>1. sent[N(Unrouted[1])].command = "EXIT"
    BY <1>2 DEF StreamInv, Genuine
  <2>2. N(Unrouted[1]) \notin 1 .. Len(sent) - 1
    BY <2>1 DEF FreeInv
  <2> QED
    BY <1>1, <1>2, <1>3, <2>2
<1>5. N(Unrouted[At]) = Len(sent)
  <2>1. At \in 1 .. Len(Unrouted) /\ 1 < At
    BY <1>1
  <2>2. N(Unrouted[1]) < N(Unrouted[At]) \/ N(Unrouted[1]) = N(Unrouted[At])
    BY <1>1, <1>2, <2>1, Increasing DEF StreamInv
  <2>3. N(Unrouted[At]) \in 1 .. Len(sent)
    BY <1>3, <2>1
  <2> QED
    BY <1>1, <1>4, <2>2, <2>3
<1>6. ~ (At + 1 < Len(Unrouted))
  <2> SUFFICES ASSUME At + 1 < Len(Unrouted) PROVE FALSE
    OBVIOUS
  <2> DEFINE p == Unrouted[At + 1]
             q == Unrouted[(At + 1) + 1]
  <2>1. At + 1 \in 1 .. Len(Unrouted) - 1 /\ (At + 1) + 1 \in 1 .. Len(Unrouted)
    BY <1>1
  <2>2. Follows(joined, p, q) /\ p \in PieceSet /\ q \in PieceSet /\ p.part = "LF"
    BY <1>1, <2>1, Parts DEF StreamInv, Chained
  <2>3. N(p) = Len(sent) /\ N(q) \in 1 .. Len(sent)
    BY <1>1, <1>3, <1>5, <2>1
  <2> HIDE DEF p, q
  <2>4. N(q) = N(p) + 1
    BY <2>2, AfterEnd
  <2> QED
    BY <1>1, <2>3, <2>4
<1> QED
  BY <1>1, <1>6

LEMMA TypedStep == IInv /\ [Next]_vars => Typed' /\ PcInv'
<1> SUFFICES ASSUME Typed, PcInv, StreamInv, TornInv, SeenInv, [Next]_vars PROVE Typed' /\ PcInv'
  BY DEF IInv
<1>0. /\ <<>> \in Seq(PieceSet) /\ <<>> \in Seq(Spoken) /\ Len(<<>>) = 0
      /\ Length(<<>>) = 0 /\ MAX_MESSAGE_LEN_TO_SERVER \in Nat
  BY EmptySeq, NoLength, LengthsAssumption
<1>1. CASE UNCHANGED vars
  BY <1>1 DEF Typed, PcInv, vars, structure, history
<1>2. CASE Connect
  <2>1. /\ in_use' = TRUE /\ state' \in ClientStates /\ current_msg' = <<>>
        /\ num_of_clients' \in Int /\ wire' = <<>> /\ hung_up' = FALSE
        /\ sent' = <<>> /\ joined' = {} /\ connections' \in 0 .. MaxConnections
        /\ UNCHANGED <<in_room, pc, temp, after_exit>> /\ pc = "epoll_wait"
    BY <1>2 DEF Connect, ClientStates, Typed
  <2>2. \A n \in 1 .. Len(sent') : sent'[n].n = n
    BY <1>0, <2>1
  <2> QED
    BY <1>0, <2>1, <2>2 DEF Typed, PcInv
<1>3. CASE HangUp
  BY <1>3 DEF Typed, PcInv, HangUp, structure, history
<1>4. CASE Event
  BY <1>4 DEF Typed, PcInv, Event, structure, history
<1>5. CASE Closed
  <2>1. /\ UNCHANGED <<temp, hung_up, history>> /\ pc = "closed" /\ pc' = "epoll_wait"
        /\ in_use' = FALSE /\ state' = "awaiting_username" /\ current_msg' = <<>>
        /\ num_of_clients' = num_of_clients - 1 /\ wire' = <<>>
        /\ in_room' \in BOOLEAN
    BY <1>5 DEF Closed, Disconnect, LeavesRoom, Typed
  <2>2. UNCHANGED <<sent, joined, connections, after_exit>>
    BY <2>1 DEF history
  <2>3. num_of_clients' \in Int /\ state' \in ClientStates /\ temp = <<>>
    BY <2>1 DEF ClientStates, Typed, PcInv
  <2> QED
    BY <1>0, <2>1, <2>2, <2>3 DEF Typed, PcInv
<1>6. CASE SavePartial
  <2>1. current_msg \o temp \in Seq(PieceSet)
    BY ConcatProperties DEF Typed
  <2>2. /\ current_msg' = current_msg \o temp /\ temp' = <<>> /\ pc' = "epoll_wait"
        /\ UNCHANGED <<in_use, state, in_room, num_of_clients, wire, hung_up, sent, joined,
                       connections, after_exit>>
    BY <1>6 DEF SavePartial, Concatenated, history
  <2> QED
    BY <1>0, <2>1, <2>2 DEF Typed, PcInv
<1>7. CASE ProcessMessage
  <2> DEFINE i == Min(Terminators(temp))
  <2>1. /\ temp' \in Seq(PieceSet) /\ temp' = SubSeq(temp, i + 2, Len(temp))
        /\ wire' \in {wire, <<>>} /\ current_msg' = <<>>
        /\ UNCHANGED <<pc, hung_up, sent, joined, connections, after_exit>>
    BY <1>7, Processed DEF history
  <2>2. i + 2 \in 1 .. Len(temp) + 1
    BY <1>7, FirstTerminator DEF ProcessMessage
  <2>3. Length(temp') <= Length(temp) /\ Length(temp) \in Nat
    <3>1. Length(temp) \in Nat
      BY <2>2, RestLength DEF Typed
    <3> HIDE DEF i
    <3>2. Length(SubSeq(temp, i + 2, Len(temp))) <= Length(temp)
      BY <2>2, RestLength DEF Typed
    <3> QED
      BY <2>1, <3>1, <3>2
  <2>4. Length(temp') \in Int
    <3>1. \E f \in [0 .. Len(temp') -> Nat] : Length(temp') = f[Len(temp')]
      BY <2>1, LengthOf
    <3>2. Len(temp') \in 0 .. Len(temp')
      BY <2>1, LenProperties
    <3> QED
      BY <3>1, <3>2
  <2>5. Length(temp') <= MAX_MESSAGE_LEN_TO_SERVER
    BY <1>0, <2>3, <2>4 DEF Typed
  <2>6. /\ state' \in ClientStates /\ in_room' \in BOOLEAN /\ num_of_clients' \in Int
        /\ in_use' \in BOOLEAN /\ pc = "loop"
    BY <1>7, RouteEffect DEF ProcessMessage, Disconnect, Typed
  <2> HIDE DEF i
  <2> QED
    BY <1>0, <2>1, <2>5, <2>6 DEF Typed, PcInv
<1>8. ASSUME NEW k \in 1 .. Len(wire), Recv(k) PROVE Typed' /\ PcInv'
  <2>1. temp' \in Seq(PieceSet) /\ wire' \in Seq(PieceSet) /\ in_use
    BY <1>8, Received
  <2>2. joined' \subseteq 1 .. Len(sent')
    BY <1>8, StreamRecv
  <2>3. /\ Length(temp') <= MAX_MESSAGE_LEN_TO_SERVER /\ pc' = "loop"
        /\ UNCHANGED <<in_use, state, current_msg, in_room, num_of_clients, hung_up, sent,
                       connections, after_exit>>
    BY <1>8 DEF Recv, RECV_LEN, structure
  <2> QED
    BY <2>1, <2>2, <2>3 DEF Typed, PcInv
<1>9. ASSUME NEW c \in DOMAIN ContentLength, Send(c) PROVE Typed' /\ PcInv'
  <2>1. PICK m \in Spoken : m.n = Len(sent) + 1 /\ sent' = Append(sent, m)
    BY <1>9, StreamSend
  <2>2. wire' \in Seq(PieceSet) /\ joined' \subseteq 1 .. Len(sent')
    BY <1>9, StreamSend
  <2>3. sent' \in Seq(Spoken) /\ \A n \in 1 .. Len(sent') : sent'[n].n = n
    <3>1. /\ sent' \in Seq(Spoken) /\ Len(sent') = Len(sent) + 1 /\ Len(sent) \in Nat
          /\ \A n \in 1 .. Len(sent) : sent'[n] = sent[n]
          /\ sent'[Len(sent) + 1] = m
      BY <2>1, AppendProperties, LenProperties DEF Typed
    <3>2. ASSUME NEW n \in 1 .. Len(sent') PROVE sent'[n].n = n
      <4>1. CASE n \in 1 .. Len(sent)
        BY <3>1, <4>1 DEF Typed
      <4>2. CASE n = Len(sent) + 1
        BY <2>1, <3>1, <4>2
      <4> QED
        BY <3>1, <4>1, <4>2
    <3> QED
      BY <3>1, <3>2
  <2>4. /\ after_exit' \in BOOLEAN
        /\ UNCHANGED <<in_use, state, current_msg, in_room, num_of_clients, pc, temp, hung_up,
                       connections>>
    BY <1>9 DEF Send, structure, Typed
  <2> QED
    BY <2>2, <2>3, <2>4 DEF Typed, PcInv
<1> QED
  BY <1>1, <1>2, <1>3, <1>4, <1>5, <1>6, <1>7, <1>8, <1>9 DEF Next, WorkerStep, HandlerStep, OwnStep

LEMMA StreamStep == IInv /\ [Next]_vars => StreamInv' /\ TornInv' /\ SeenInv'
<1> SUFFICES ASSUME Typed, PcInv, StreamInv, TornInv, SeenInv, [Next]_vars
             PROVE  StreamInv' /\ TornInv' /\ SeenInv'
  BY DEF IInv
<1>1. CASE UNCHANGED vars \/ HangUp \/ Event
  <2>1. UNCHANGED <<in_use, current_msg, temp, wire, sent, joined>>
    BY <1>1 DEF HangUp, Event, vars, structure, history
  <2>2. Unrouted' = Unrouted
    BY <2>1 DEF Unrouted
  <2> QED
    BY <2>1, <2>2 DEF StreamInv, TornInv, SeenInv
<1>2. CASE Connect \/ Closed
  <2>1. current_msg' = <<>> /\ temp' = <<>> /\ wire' = <<>>
    BY <1>2 DEF Connect, Closed, Disconnect, PcInv
  <2>2. Unrouted' = <<>>
    BY <2>1, NothingThere DEF Unrouted
  <2> QED
    BY <2>1, <2>2, NothingThere DEF StreamInv, TornInv, SeenInv
<1> QED
  BY <1>1, <1>2, StreamProcess, StreamRecv, StreamSave, StreamSend
     DEF Next, WorkerStep, HandlerStep, OwnStep

\* In a free structure there is nothing to process.
LEMMA Processing ==
    ASSUME Typed, StreamInv, FreeInv, ProcessMessage
    PROVE  in_use
<1>1. At + 1 \in 1 .. Len(Unrouted)
  BY AtTerminator DEF ProcessMessage
<1>2. Unrouted # <<>>
  BY <1>1, EmptySeq
<1> QED
  BY <1>2 DEF FreeInv, Typed

LEMMA FreeStep == IInv /\ [Next]_vars => (after_exit \/ FreeInv)'
<1> SUFFICES ASSUME Typed, PcInv, StreamInv, TornInv, SeenInv, after_exit \/ FreeInv,
                    [Next]_vars, ~ after_exit'
             PROVE  FreeInv'
  BY DEF IInv
<1>0. FreeInv
  <2>1. after_exit => after_exit'
    BY DEF Next, WorkerStep, HandlerStep, OwnStep,
       Connect, HangUp, Event, Closed, SavePartial, ProcessMessage, Recv,
       Send, vars, structure, history, Typed
  <2> QED
    BY <2>1
<1>1. CASE UNCHANGED vars \/ HangUp \/ Event
  <2>1. UNCHANGED <<in_use, sent>> /\ Unrouted' = Unrouted
    BY <1>1 DEF HangUp, Event, vars, structure, history, Unrouted
  <2> QED
    BY <1>0, <2>1 DEF FreeInv
<1>2. CASE Connect
  <2>1. in_use' = TRUE /\ sent' = <<>> /\ Len(<<>>) = 0
    BY <1>2, EmptySeq DEF Connect
  <2> QED
    BY <2>1 DEF FreeInv
<1>3. CASE Closed
  <2>1. current_msg' = <<>> /\ temp' = <<>> /\ wire' = <<>> /\ sent' = sent
    BY <1>3 DEF Closed, Disconnect, PcInv, history
  <2>2. Unrouted' = <<>>
    BY <2>1, NothingThere DEF Unrouted
  <2> QED
    BY <1>0, <2>1, <2>2 DEF FreeInv
<1>4. CASE SavePartial
  <2>1. UNCHANGED <<in_use, sent>> /\ Unrouted' = Unrouted
    BY <1>4, StreamSave DEF SavePartial, history
  <2> QED
    BY <1>0, <2>1 DEF FreeInv
<1>5. ASSUME NEW k \in 1 .. Len(wire), Recv(k) PROVE FreeInv'
  <2>1. UNCHANGED <<in_use, sent>> /\ Unrouted' = Unrouted
    BY <1>5, Received DEF Recv, structure
  <2> QED
    BY <1>0, <2>1 DEF FreeInv
<1>6. ASSUME NEW c \in DOMAIN ContentLength, Send(c) PROVE FreeInv'
  <2>1. PICK m \in Spoken : sent' = Append(sent, m)
    BY <1>6, StreamSend
  <2>2. in_use' /\ \A n \in 1 .. Len(sent) : sent[n].command # "EXIT"
    BY <1>6, LenProperties DEF Send, structure, Typed
  <2>3. /\ Len(sent') = Len(sent) + 1 /\ Len(sent) \in Nat
        /\ \A n \in 1 .. Len(sent) : sent'[n] = sent[n]
    BY <2>1, AppendProperties, LenProperties DEF Typed
  <2>4. Len(sent') - 1 = Len(sent)
    BY <2>3
  <2> QED
    BY <2>2, <2>3, <2>4 DEF FreeInv
<1>7. CASE ProcessMessage
  <2>1. in_use /\ sent' = sent
    BY <1>0, <1>7, Processing DEF ProcessMessage, history
  <2>2. CASE UNCHANGED <<in_use, wire>>
    BY <1>0, <2>1, <2>2 DEF FreeInv
  <2>3. CASE Head(Concatenated(Appended(temp))).message.command = "EXIT" /\ Disconnect
    <3>1. Len(Unrouted) = At + 1 /\ Len(Unrouted) \in Nat
      BY <1>0, <1>7, <2>3, ExitIsLast, Parts DEF ProcessMessage
    <3>2. /\ Unrouted' \in Seq(PieceSet)
          /\ \A j \in 1 .. Len(Unrouted') : At + 1 + j \in 1 .. Len(Unrouted)
      BY <1>7, Processed
    <3>3. Unrouted' = <<>>
      <4>1. SUFFICES ASSUME Unrouted' # <<>> PROVE FALSE
        BY <4>1
      <4>2. Len(Unrouted') \in Nat \ {0}
        BY <3>2, <4>1, EmptySeq
      <4>3. 1 \in 1 .. Len(Unrouted')
        BY <4>2
      <4>4. At + 1 + 1 \in 1 .. Len(Unrouted)
        BY <3>2, <4>3
      <4>5. At \in Int
        BY <1>7, AtTerminator DEF ProcessMessage
      <4> QED
        BY <3>1, <4>4, <4>5
    <3> QED
      BY <1>0, <2>1, <3>3 DEF FreeInv
  <2> QED
    BY <1>7, <2>2, <2>3, RouteEffect DEF ProcessMessage
<1> QED
  BY <1>1, <1>2, <1>3, <1>4, <1>5, <1>6, <1>7 DEF Next, WorkerStep, HandlerStep, OwnStep

LEMMA SlotStep == IInv /\ [Next]_vars => SlotAgrees'
<1> SUFFICES ASSUME Typed, PcInv, StreamInv, after_exit \/ FreeInv, SlotAgrees, [Next]_vars,
                    ~ after_exit'
             PROVE  SlotAgrees'
  BY DEF IInv, SlotAgrees
<1>0. ~ after_exit /\ FreeInv
  <2>1. after_exit => after_exit'
    BY DEF Next, WorkerStep, HandlerStep, OwnStep,
       Connect, HangUp, Event, Closed, SavePartial, ProcessMessage, Recv,
       Send, vars, structure, history, Typed
  <2> QED
    BY <2>1
<1>1. CASE \/ UNCHANGED vars \/ HangUp \/ Event \/ SavePartial
           \/ \E k \in 1 .. Len(wire) : Recv(k)
           \/ \E c \in DOMAIN ContentLength : Send(c)
  <2>1. UNCHANGED <<num_of_clients, in_use, in_room, state>>
    BY <1>1 DEF HangUp, Event, SavePartial, Recv, Send, vars, structure, history
  <2> QED
    BY <1>0, <2>1 DEF SlotAgrees
<1>2. CASE Connect
  BY <1>0, <1>2 DEF Connect, SlotAgrees
<1>3. ASSUME Disconnect, in_use PROVE SlotAgrees'
  <2>1. num_of_clients = 1 /\ (in_room <=> state = "in_chat_room")
    BY <1>0, <1>3 DEF SlotAgrees
  <2>2. in_use' = FALSE /\ state' = "awaiting_username" /\ num_of_clients' = 0
    BY <1>3, <2>1 DEF Disconnect
  <2>3. ~ in_room'
    BY <1>3, <2>1 DEF Disconnect, LeavesRoom
  <2> QED
    BY <2>2, <2>3 DEF SlotAgrees
<1>4. CASE Closed
  BY <1>3, <1>4 DEF Closed, PcInv
<1>5. CASE ProcessMessage
  <2>1. in_use
    BY <1>0, <1>5, Processing
  <2>2. \/ Disconnect
        \/ /\ UNCHANGED <<in_use, num_of_clients, wire>>
           /\ in_room' = IF state' = state THEN in_room ELSE state' = "in_chat_room"
    BY <1>5, RouteEffect DEF ProcessMessage
  <2> QED
    BY <1>0, <1>3, <2>1, <2>2 DEF SlotAgrees
<1> QED
  BY <1>1, <1>2, <1>4, <1>5 DEF Next, WorkerStep, HandlerStep, OwnStep

LEMMA InitIInv == Init => IInv
<1> SUFFICES ASSUME Init PROVE IInv
  OBVIOUS
<1>1. /\ current_msg = <<>> /\ temp = <<>> /\ wire = <<>> /\ sent = <<>> /\ joined = {}
      /\ in_use = FALSE /\ Len(<<>>) = 0 /\ Length(<<>>) = 0 /\ Unrouted = <<>>
  BY NothingThere, NoLength, EmptySeq DEF Init, Unrouted
<1>2. Typed
  <2>1. /\ current_msg \in Seq(PieceSet) /\ temp \in Seq(PieceSet)
        /\ wire \in Seq(PieceSet) /\ sent \in Seq(Spoken)
    BY <1>1, NothingThere, Zenon
  <2>2. /\ state \in ClientStates /\ num_of_clients \in Int
        /\ pc \in {"epoll_wait", "readable", "closed", "loop"}
        /\ connections \in 0 .. MaxConnections
    BY DEF Init, ClientStates
  <2>3. /\ in_use \in BOOLEAN /\ in_room \in BOOLEAN /\ after_exit \in BOOLEAN
        /\ hung_up \in BOOLEAN
    BY Zenon DEF Init
  <2>4. /\ Length(temp) <= MAX_MESSAGE_LEN_TO_SERVER
        /\ \A n \in 1 .. Len(sent) : sent[n].n = n
        /\ joined \subseteq 1 .. Len(sent)
    BY <1>1, LengthsAssumption
  <2> QED
    BY <2>1, <2>2, <2>3, <2>4 DEF Typed
<1>3. PcInv /\ SlotAgrees
  BY DEF Init, PcInv, SlotAgrees
<1>4. StreamInv /\ TornInv /\ SeenInv
  BY <1>1, NothingThere DEF StreamInv, TornInv, SeenInv
<1>5. FreeInv
  BY <1>1 DEF FreeInv
<1> QED
  BY <1>2, <1>3, <1>4, <1>5 DEF IInv

LEMMA Invariance == Spec => []IInv
<1>1. IInv /\ [Next]_vars => IInv'
  BY TypedStep, StreamStep, FreeStep, SlotStep DEF IInv
<1> QED
  BY <1>1, InitIInv, PTL DEF Spec

-----------------------------------------------------------------------------
\* Every buffer holds pieces of messages, in numbers and states that the code's
\* fields can have, and temp never more bytes than recv was given room for.
THEOREM TypeCorrect == Spec => []TypeOK
<1>1. IInv => TypeOK
  <2> SUFFICES ASSUME Typed, PcInv PROVE TypeOK
    BY DEF IInv
  <2>1. Spoken \subseteq Messages
    BY LengthsAssumption DEF Spoken, Messages
  <2>2. ASSUME NEW s \in {current_msg, temp, wire}, NEW i \in DOMAIN s
        PROVE  s[i].message \in Messages /\ s[i].part \in Pieces
    <3>1. s \in Seq(PieceSet)
      BY DEF Typed
    <3>2. DOMAIN s = 1 .. Len(s)
      BY <3>1, LenProperties
    <3>3. s[i] \in PieceSet
      BY <3>1, <3>2, ElementOfSeq
    <3> QED
      BY <2>1, <3>3 DEF PieceSet
  <2>3. ASSUME NEW n \in DOMAIN sent PROVE sent[n] \in Messages /\ sent[n].n = n
    <3>1. n \in 1 .. Len(sent)
      BY LenProperties DEF Typed
    <3> QED
      BY <2>1, <3>1, ElementOfSeq DEF Typed
  <2>4. /\ in_use \in BOOLEAN /\ state \in ClientStates /\ in_room \in BOOLEAN
        /\ num_of_clients \in Int
        /\ pc \in {"epoll_wait", "readable", "closed", "loop"}
        /\ Length(temp) <= MAX_MESSAGE_LEN_TO_SERVER
        /\ pc # "loop" => temp = <<>>
        /\ hung_up \in BOOLEAN
        /\ joined \subseteq 1 .. Len(sent)
        /\ connections \in 0 .. MaxConnections
        /\ after_exit \in BOOLEAN
    BY DEF Typed, PcInv
  <2> QED
    BY <2>2, <2>3, <2>4 DEF TypeOK
<1> QED
  BY <1>1, Invariance, PTL

\* Unless some client speaks on after EXIT, a structure that is free is in no
\* room and counts for nothing, and one in use is in a room exactly when its
\* state says so: cleanup_client hands it on clean however the segments fall.
THEOREM SlotCorrect == Spec => []SlotAgrees
<1>1. IInv => SlotAgrees
  BY DEF IInv
<1> QED
  BY <1>1, Invariance, PTL

\* current_msg has room for every message whatever the segments: it takes the
\* unseen terminators of three messages in a row to overrun it.
THEOREM BufferCorrect == Spec => []BufferHolds
<1>1. IInv => BufferHolds
  <2> SUFFICES ASSUME Typed, StreamInv, TornInv,
                      NEW held, held = Concatenated(Appended(temp)),
                      NEW K, K = {n \in joined : \E i \in DOMAIN held : held[i].message.n = n},
                      Cardinality(K) <= 2
               PROVE  Length(held) < CURRENT_MSG_SIZE
    BY DEF IInv, BufferHolds
  <2> DEFINE Q == MAX_MESSAGE_LEN_TO_SERVER
  <2>1. Q \in Nat /\ Q >= 4 /\ CURRENT_MSG_SIZE = Q * 3
    BY LengthsAssumption, ConformingAssumption DEF CURRENT_MSG_SIZE
  <2>2. /\ held \in Seq(PieceSet) /\ Chained(joined, held) /\ Starts(held)
        /\ Clear(joined, held)
    BY Held
  <2>3. CASE held = <<>>
    BY <2>1, <2>3, NoLength
  <2>4. CASE held # <<>>
    <3> DEFINE last == held[Len(held)]
               a == N(held[1])
               b == N(last)
    <3>1. Len(held) \in 1 .. Len(held) /\ DOMAIN held = 1 .. Len(held) /\ last \in PieceSet
      <4>1. Len(held) \in Nat \ {0} /\ DOMAIN held = 1 .. Len(held)
        BY <2>2, <2>4, EmptySeq, LenProperties
      <4>2. Len(held) \in 1 .. Len(held)
        BY <4>1
      <4> QED
        BY <2>2, <4>1, <4>2, ElementOfSeq
    <3>2. /\ a \in Nat /\ b \in Nat /\ a <= b
          /\ \A n \in a .. b - 1 : n \in joined /\ \E h \in 1 .. Len(held) : N(held[h]) = n
          /\ last.part \in {"CR", "LF"} => b \in joined
      <4> DEFINE i == Len(held)
      <4>1. i \in 1 .. Len(held) /\ b = N(held[i]) /\ last = held[i]
        BY <3>1
      <4> HIDE DEF i, last, b
      <4>2. /\ N(held[1]) \in Nat /\ N(held[i]) \in Nat /\ N(held[1]) <= N(held[i])
            /\ \A n \in N(held[1]) .. N(held[i]) - 1 :
                  n \in joined /\ \E h \in 1 .. Len(held) : N(held[h]) = n
            /\ held[i].part \in {"CR", "LF"} => N(held[i]) \in joined
        BY <2>2, <4>1, Behind, Zenon
      <4> QED
        BY <4>1, <4>2
    <3>3. a .. b - 1 \subseteq K
      BY <3>1, <3>2 DEF N
    <3>4. last.part \in {"CR", "LF"} => a .. b \subseteq K
      <4>1. last.part \in {"CR", "LF"} => b \in K
        BY <3>1, <3>2 DEF N
      <4>2. a .. b \subseteq (a .. b - 1) \cup {b}
        <5> HIDE DEF a, b
        <5> QED
          BY <3>2
      <4> QED
        BY <3>3, <4>1, <4>2
    <3>5. IsFiniteSet(K) /\ Cardinality(K) \in Nat
      <4>1. IsFiniteSet(1 .. Len(sent))
        BY LenProperties, FS_Interval DEF Typed
      <4>2. K \subseteq 1 .. Len(sent)
        BY DEF Typed
      <4> QED
        BY <4>1, <4>2, FS_Subset, FS_CardinalityType
    <3> HIDE DEF last, a, b
    <3>6. b - a <= 2
      <4>1. Cardinality(a .. b - 1) <= Cardinality(K)
        BY <3>3, <3>5, FS_Subset
      <4>2. Cardinality(a .. b - 1) = b - a
        <5>1. Cardinality(a .. b - 1) = IF a > b - 1 THEN 0 ELSE (b - 1) - a + 1
          BY <3>2, FS_Interval
        <5> QED
          BY <3>2, <5>1
      <4> QED
        BY <3>2, <3>5, <4>1, <4>2
    <3>7. last.part \in {"CR", "LF"} => b - a <= 1
      <4> SUFFICES ASSUME last.part \in {"CR", "LF"} PROVE b - a <= 1
        OBVIOUS
      <4>1. Cardinality(a .. b) <= Cardinality(K)
        BY <3>4, <3>5, FS_Subset
      <4>2. Cardinality(a .. b) = b - a + 1
        <5>1. Cardinality(a .. b) = IF a > b THEN 0 ELSE b - a + 1
          BY <3>2, FS_Interval
        <5> QED
          BY <3>2, <5>1
      <4> QED
        BY <3>2, <3>5, <4>1, <4>2
    <3>8. Length(held) <= Whole(b - a) + UpTo(last)
      BY <2>2, <2>4, <3>6, ChainLength DEF last, a, b
    <3>9. Length(held) \in Nat
      <4>1. PICK f \in [0 .. Len(held) -> Nat] : Length(held) = f[Len(held)]
        BY <2>2, LengthOf
      <4>2. Len(held) \in 0 .. Len(held)
        BY <2>2, LenProperties
      <4> QED
        BY <4>1, <4>2
    <3>10. last.part \in {"head", "content", "CR", "LF"}
      BY <3>1 DEF PieceSet, Pieces
    <3>11. CASE last.part \in {"CR", "LF"}
      <4>1. UpTo(last) <= Q /\ UpTo(last) \in Int /\ Whole(b - a) <= Q /\ Whole(b - a) \in Int
        BY <2>1, <3>2, <3>7, <3>11 DEF UpTo, Whole
      <4> QED
        BY <2>1, <3>8, <3>9, <4>1
    <3>12. CASE last.part \in {"head", "content"}
      <4>1. /\ UpTo(last) < Q /\ UpTo(last) \in Int
            /\ Whole(b - a) <= Q + Q /\ Whole(b - a) \in Int
        BY <2>1, <3>2, <3>6, <3>12 DEF UpTo, Whole
      <4> QED
        BY <2>1, <3>8, <3>9, <4>1
    <3> QED
      BY <3>10, <3>11, <3>12
  <2> QED
    BY <2>3, <2>4
<1> QED
  BY <1>1, Invariance, PTL

-----------------------------------------------------------------------------
\* What is pending are the last messages sent, from Oldest on.
Oldest == IF Unrouted = <<>> THEN Len(sent) + 1 ELSE N(Unrouted[1])

PendingSays ==
    Typed /\ StreamInv /\ in_use =>
        /\ Oldest \in 1 .. Len(sent) + 1 /\ Len(sent) \in Nat
        /\ Pending \in Seq(Spoken) /\ Len(Pending) = Len(sent) - Oldest + 1
        /\ \A j \in 1 .. Len(Pending) : /\ Pending[j] = sent[Oldest + j - 1]
                                        /\ Oldest + j - 1 \in 1 .. Len(sent)

LEMMA PendingIs == PendingSays
<1> SUFFICES ASSUME Typed, StreamInv, in_use
             PROVE  /\ Oldest \in 1 .. Len(sent) + 1 /\ Len(sent) \in Nat
                    /\ Pending \in Seq(Spoken) /\ Len(Pending) = Len(sent) - Oldest + 1
                    /\ \A j \in 1 .. Len(Pending) : /\ Pending[j] = sent[Oldest + j - 1]
                                                    /\ Oldest + j - 1 \in 1 .. Len(sent)
  BY DEF PendingSays
<1>1. /\ sent \in Seq(Spoken) /\ Len(sent) \in Nat /\ Unrouted \in Seq(PieceSet)
      /\ \A i \in 1 .. Len(sent) : sent[i] \in Spoken
  BY Parts, LenProperties, ElementOfSeq DEF Typed
<1>2. /\ Oldest \in 1 .. Len(sent) + 1
      /\ Pending \in Seq(Spoken) /\ Len(Pending) = Len(sent) - Oldest + 1
      /\ \A j \in 1 .. Len(Pending) : Pending[j] = sent[Oldest + j - 1]
  <2>1. CASE Unrouted = <<>>
    <3>1. Pending = <<>>
      BY <2>1, NoContents DEF Pending
    <3>2. Oldest = Len(sent) + 1
      BY <2>1 DEF Oldest
    <3> QED
      BY <1>1, <3>1, <3>2, EmptySeq
  <2>2. CASE Unrouted # <<>>
    <3> DEFINE l == Len(Unrouted)
               last == Unrouted[l]
    <3>1. l \in 1 .. l /\ 1 \in 1 .. l
      <4>1. l \in Nat \ {0}
        BY <1>1, <2>2, EmptySeq
      <4> QED
        BY <4>1
    <3>2. Ended(joined, last) /\ N(last) = Len(sent)
      BY <2>2 DEF StreamInv, Ends
    <3>3. N(Unrouted[1]) \in 1 .. Len(sent) /\ Oldest = N(Unrouted[1])
      BY <2>2, <3>1 DEF StreamInv, Genuine, Oldest
    <3>4. Begun(Unrouted, l) = Len(sent) - Oldest + 1
      <4>1. last.part # "head"
        BY <3>2 DEF Ended
      <4> QED
        BY <3>2, <3>3, <4>1 DEF Begun
    <3>5. /\ Pending \in Seq(Spoken) /\ Len(Pending) = Begun(Unrouted, l)
          /\ \A j \in 1 .. Len(Pending) : Pending[j] = sent[N(Unrouted[1]) + j - 1]
      BY <1>1, <2>2, ContentsAre DEF StreamInv, Pending
    <3> QED
      BY <1>1, <3>3, <3>4, <3>5
  <2> QED
    BY <2>1, <2>2
<1>3. \A j \in 1 .. Len(Pending) : Oldest + j - 1 \in 1 .. Len(sent)
  BY <1>1, <1>2
<1> QED
  BY <1>1, <1>2, <1>3

\* What MessageStream calls pending.
Waiting == IF in_use THEN Pending ELSE <<>>

LEMMA StreamVars == Stream!vars = <<in_use, hung_up, Waiting, joined>>
  BY DEF Stream!vars, Waiting

LEMMA SendRefines ==
    ASSUME IInv, IInv', PendingSays, PendingSays', NEW c \in DOMAIN ContentLength, Send(c)
    PROVE  Stream!Next
<1> USE DEF IInv
<1>1. PICK m \in Spoken : /\ m.n = Len(sent) + 1 /\ sent' = Append(sent, m)
                          /\ joined' \in {joined, joined \cup {m.n}}
  BY StreamSend
<1>2. /\ in_use /\ ~ hung_up /\ in_use' = in_use /\ hung_up' = hung_up
  BY DEF Send, structure
<1>3. Oldest' = Oldest
  <2>1. /\ Unrouted' # <<>>
        /\ N(Unrouted'[1]) = IF Unrouted = <<>> THEN Len(sent) + 1 ELSE N(Unrouted[1])
    BY StreamSend
  <2> QED
    BY <2>1 DEF Oldest
<1>4. /\ Len(sent) \in Nat /\ Oldest \in 1 .. Len(sent) + 1 /\ Pending \in Seq(Spoken)
      /\ Len(Pending) = Len(sent) - Oldest + 1
      /\ \A j \in 1 .. Len(Pending) : /\ Pending[j] = sent[Oldest + j - 1]
                                      /\ Oldest + j - 1 \in 1 .. Len(sent)
  BY <1>2 DEF PendingSays
<1>5. /\ Pending' \in Seq(Spoken)
      /\ Len(Pending') = Len(sent') - Oldest' + 1
      /\ \A j \in 1 .. Len(Pending') : Pending'[j] = sent'[Oldest' + j - 1]
  BY <1>2 DEF PendingSays
<1>6. /\ Len(sent') = Len(sent) + 1 /\ sent'[Len(sent) + 1] = m
      /\ \A i \in 1 .. Len(sent) : sent'[i] = sent[i]
  BY <1>1, AppendProperties DEF Typed
<1>7. Pending' = Append(Pending, m)
  <2> DEFINE r == Append(Pending, m)
  <2>1. /\ r \in Seq(Spoken) /\ Len(r) = Len(Pending) + 1
        /\ \A i \in 1 .. Len(Pending) : r[i] = Pending[i]
        /\ r[Len(Pending) + 1] = m
    <3>1. Pending \in Seq(Spoken) /\ m \in Spoken
      BY <1>1, <1>4
    <3> QED
      BY <3>1, AppendProperties
  <2> HIDE DEF r
  <2>2. Len(Pending') = Len(r) /\ Len(Pending) \in Nat
    BY <1>3, <1>4, <1>5, <1>6, <2>1
  <2>3. ASSUME NEW i \in 1 .. Len(Pending') PROVE Pending'[i] = r[i]
    <3>1. Pending'[i] = sent'[Oldest + i - 1]
      BY <1>3, <1>5
    <3>2. CASE i \in 1 .. Len(Pending)
      BY <1>4, <1>6, <2>1, <3>1, <3>2
    <3>3. CASE i = Len(Pending) + 1
      <4>1. Oldest + i - 1 = Len(sent) + 1
        BY <1>4, <3>3
      <4> QED
        BY <1>6, <2>1, <3>1, <3>3, <4>1
    <3> QED
      BY <2>1, <2>2, <3>2, <3>3
  <2>4. Pending' = r
    BY <1>5, <2>1, <2>2, <2>3, SeqEqual
  <2> QED
    BY <2>4 DEF r
<1>8. m \in Messages
  BY LengthsAssumption DEF Spoken, Messages
<1>9. Stream!Send(m)
  BY <1>1, <1>2, <1>7 DEF Stream!Send
<1> QED
  BY <1>8, <1>9 DEF Stream!Next

LEMMA RecvRefines ==
    ASSUME IInv, NEW k \in 1 .. Len(wire), Recv(k)
    PROVE  [Stream!Next]_(Stream!vars)
<1> USE DEF IInv
<1>1. in_use /\ Unrouted' = Unrouted
  BY Received
<1>2. /\ UNCHANGED <<in_use, hung_up>>
      /\ joined' \in {joined, joined \cup {wire[k].message.n}}
  BY DEF Recv, structure
<1>3. Pending' = Pending
  BY <1>1 DEF Pending
<1>4. wire[k].message \in Messages
  <2>1. wire[k] \in PieceSet
    BY ElementOfSeq DEF Typed
  <2> QED
    BY <2>1, LengthsAssumption DEF PieceSet, Spoken, Messages
<1>5. CASE joined' = joined
  BY <1>2, <1>3, <1>5 DEF Stream!vars
<1>6. CASE joined' = joined \cup {wire[k].message.n}
  <2>1. Stream!Join(wire[k].message)
    BY <1>1, <1>2, <1>3, <1>6 DEF Stream!Join
  <2> QED
    BY <1>4, <2>1 DEF Stream!Next
<1> QED
  BY <1>2, <1>5, <1>6

LEMMA ProcessRefines ==
    ASSUME IInv, IInv', PendingSays, PendingSays', ProcessMessage
    PROVE  [Stream!Next]_(Stream!vars)
<1> USE DEF IInv
<1> DEFINE msg == Concatenated(Appended(temp))
           n == N(Unrouted[At])
           k == n - Oldest + 1
<1>1. UNCHANGED <<hung_up, sent, joined>>
  BY DEF ProcessMessage, history
<1>2. \/ Head(msg).message.command = "EXIT" /\ Disconnect
      \/ UNCHANGED <<in_use, wire>>
  BY RouteEffect DEF ProcessMessage
<1> HIDE DEF msg
<1>3. CASE ~ in_use
  <2>1. ~ in_use'
    BY <1>2, <1>3 DEF Disconnect
  <2>2. /\ (IF in_use THEN Pending ELSE <<>>) = <<>>
        /\ (IF in_use' THEN Pending' ELSE <<>>) = <<>>
    BY <1>3, <2>1
  <2>3. in_use' = in_use
    BY <1>3, <2>1, IInv' DEF IInv, Typed
  <2> QED
    BY <1>1, <2>2, <2>3 DEF Stream!vars
<1>4. CASE in_use
  <2>1. /\ Len(sent) \in Nat /\ Oldest \in 1 .. Len(sent) + 1 /\ Pending \in Seq(Spoken)
        /\ Len(Pending) = Len(sent) - Oldest + 1
        /\ \A j \in 1 .. Len(Pending) : /\ Pending[j] = sent[Oldest + j - 1]
                                        /\ Oldest + j - 1 \in 1 .. Len(sent)
    BY <1>4 DEF PendingSays
  <2>2. /\ Unrouted # <<>> /\ 1 \in 1 .. Len(Unrouted) /\ Oldest = N(Unrouted[1])
        /\ Head(msg) = Unrouted[1]
    BY HeadOfHeld DEF ProcessMessage, Oldest, msg
  <2>3. Oldest \in 1 .. Len(sent) /\ Unrouted[1].message = sent[Oldest]
    BY <2>2 DEF StreamInv, Genuine
  <2>4. 1 \in 1 .. Len(Pending) /\ Pending # <<>> /\ Head(Pending) = sent[Oldest]
    <3>1. 1 \in 1 .. Len(Pending) /\ Oldest + 1 - 1 = Oldest
      BY <2>1, <2>3
    <3>2. Pending # <<>> /\ Pending[1] = sent[Oldest]
      BY <2>1, <3>1, EmptySeq
    <3> QED
      BY <2>1, <3>1, <3>2
  <2>5. CASE Head(msg).message.command = "EXIT" /\ Disconnect
    <3>1. ~ in_use' /\ Head(Pending).command = "EXIT"
      BY <2>2, <2>3, <2>4, <2>5 DEF Disconnect
    <3>2. Stream!Close
      BY <1>1, <1>4, <2>4, <3>1 DEF Stream!Close
    <3> QED
      BY <3>2 DEF Stream!Next
  <2>6. CASE UNCHANGED <<in_use, wire>>
    <3>1. /\ At \in 2 .. Len(Unrouted) - 1 /\ At + 1 \in 1 .. Len(Unrouted)
          /\ At = Len(current_msg) + Taken + 1
          /\ Unrouted[At + 1].part = "LF"
          /\ Unrouted[At] = temp[Min(Terminators(temp))]
          /\ Unrouted[At + 1] \in PieceSet
          /\ n = N(Unrouted[At + 1]) /\ N(Unrouted[At - 1]) = n
          /\ Len(Unrouted) \in Nat /\ Len(current_msg) \in Nat
      BY AtTerminator, Parts DEF ProcessMessage
    <3>2. At \in 1 .. Len(Unrouted) /\ At - 1 \in 1 .. Len(Unrouted) /\ At \in Int
      BY <3>1
    <3>3. n \in 1 .. Len(sent)
      BY <3>2 DEF StreamInv, Genuine
    <3>4. n \notin joined
      <4>1. Min(Terminators(temp)) \in Terminators(temp)
        BY FirstTerminator DEF ProcessMessage
      <4>2. N(temp[Min(Terminators(temp))]) \notin joined
        BY <4>1 DEF SeenInv, Seen
      <4> QED
        BY <3>1, <4>2
    <3>5. Oldest <= n /\ \A h \in Oldest .. n - 1 : h \in joined
      <4>1. /\ msg \in Seq(PieceSet) /\ Len(msg) = Len(current_msg) + Taken
            /\ \A i \in 1 .. Len(msg) : msg[i] = Unrouted[i]
            /\ Chained(joined, msg) /\ Starts(msg) /\ Clear(joined, msg)
        BY Held DEF msg
      <4> DEFINE i == At - 1
      <4>2. Taken \in Int
        BY Parts, FirstTerminator DEF Taken
      <4>3. i \in 1 .. Len(msg) /\ 1 \in 1 .. Len(msg)
        BY <3>1, <4>1, <4>2
      <4>4. N(msg[i]) = n /\ N(msg[1]) = Oldest
        BY <2>2, <3>1, <4>1, <4>3
      <4> HIDE DEF i, n
      <4>5. /\ N(msg[1]) <= N(msg[i])
            /\ \A h \in N(msg[1]) .. N(msg[i]) - 1 : h \in joined
        BY <4>1, <4>3, Behind
      <4> QED
        BY <4>4, <4>5
    <3> HIDE DEF n
    <3>6. k \in 1 .. Len(Pending)
      BY <2>1, <2>3, <3>3, <3>5
    <3>7. ASSUME NEW i \in 1 .. k PROVE Pending[i].n \in joined <=> i < k
      <4>1. /\ i \in 1 .. Len(Pending) /\ Oldest + i - 1 \in 1 .. Len(sent)
            /\ Pending[i] = sent[Oldest + i - 1]
        BY <2>1, <3>6
      <4>2. Pending[i].n = Oldest + i - 1
        BY <4>1 DEF Typed
      <4>3. CASE i < k
        <5>1. Oldest + i - 1 \in Oldest .. n - 1
          BY <2>1, <3>3, <4>3
        <5> QED
          BY <3>5, <4>2, <4>3, <5>1
      <4>4. CASE i = k
        <5>1. Oldest + i - 1 = n
          BY <2>1, <3>3, <4>4
        <5> QED
          BY <3>4, <4>2, <4>4, <5>1
      <4> QED
        BY <2>1, <3>3, <4>3, <4>4
    <3>8. Oldest' = n + 1
      <4>1. /\ Unrouted' \in Seq(PieceSet)
            /\ Len(Unrouted') = Len(temp') + Len(wire')
            /\ Len(temp') = Len(current_msg) + Len(temp) - At - 1
            /\ \A j \in 1 .. Len(Unrouted') : /\ Unrouted'[j] = Unrouted[At + 1 + j]
                                              /\ At + 1 + j \in 1 .. Len(Unrouted)
        BY Processed
      <4>2. CASE Unrouted' = <<>>
        <5>1. Len(Unrouted) = At + 1
          <6>1. Len(Unrouted') = 0
            BY <4>2, EmptySeq
          <6>2. Len(wire') = Len(wire)
            BY <2>6
          <6>3. /\ Len(Unrouted) = Len(current_msg) + Len(temp) + Len(wire)
                /\ Len(wire) \in Nat /\ Len(temp) \in Nat
            BY Parts
          <6> QED
            <7> DEFINE lt == Len(temp')
                       lw == Len(wire)
                       lu == Len(Unrouted)
                       lc == Len(current_msg)
                       lb == Len(temp)
            <7>1. /\ lt + lw = 0 /\ lt = lc + lb - At - 1 /\ lu = lc + lb + lw
                  /\ lc \in Nat /\ lb \in Nat /\ lw \in Nat /\ At \in Int
              BY <3>1, <3>2, <4>1, <6>1, <6>2, <6>3
            <7> HIDE DEF lt, lw, lu, lc, lb
            <7>2. lu = At + 1
              BY <7>1
            <7> QED
              BY <7>2 DEF lu
        <5>2. N(Unrouted[Len(Unrouted)]) = Len(sent)
          BY <1>4, <2>2 DEF StreamInv, Ends
        <5>3. n = Len(sent)
          BY <3>1, <5>1, <5>2
        <5> QED
          BY <1>1, <4>2, <5>3 DEF Oldest
      <4>3. CASE Unrouted' # <<>>
        <5>1. Len(Unrouted') \in Nat \ {0}
          BY <4>1, <4>3, EmptySeq
        <5>2. 1 \in 1 .. Len(Unrouted')
          BY <5>1
        <5>3. Unrouted'[1] = Unrouted[At + 1 + 1] /\ At + 1 + 1 \in 1 .. Len(Unrouted)
          BY <4>1, <5>2
        <5> DEFINE p == Unrouted[At + 1]
                   q == Unrouted[At + 1 + 1]
        <5>4. At + 1 \in 1 .. Len(Unrouted) - 1
          BY <3>1, <5>3
        <5>5. Follows(joined, p, q) /\ p \in PieceSet /\ q \in PieceSet /\ p.part = "LF"
          BY <3>1, <5>3, <5>4, Parts DEF StreamInv, Chained
        <5>6. N(p) = n /\ Oldest' = N(q)
          BY <3>1, <4>3, <5>3 DEF Oldest
        <5> HIDE DEF p, q
        <5>7. N(q) = N(p) + 1
          BY <5>5, AfterEnd
        <5> QED
          BY <5>6, <5>7
      <4> QED
        BY <4>2, <4>3
    <3>9. Pending' = SubSeq(Pending, k + 1, Len(Pending))
      <4> DEFINE r == SubSeq(Pending, k + 1, Len(Pending))
                 l == Len(Pending)
      <4>1. /\ Pending' \in Seq(Spoken)
            /\ Len(Pending') = Len(sent) - (n + 1) + 1
            /\ \A j \in 1 .. Len(Pending') : Pending'[j] = sent[(n + 1) + j - 1]
        BY <1>1, <1>4, <2>6, <3>8 DEF PendingSays
      <4>2. k + 1 \in Int /\ l \in Int /\ \A i \in k + 1 .. l : Pending[i] \in Spoken
        <5>1. l \in Nat /\ \A i \in 1 .. l : Pending[i] \in Spoken
          BY <2>1, LenProperties, ElementOfSeq
        <5> QED
          BY <3>6, <5>1
      <4>3. /\ r \in Seq(Spoken)
            /\ Len(r) = IF k + 1 <= l THEN l - (k + 1) + 1 ELSE 0
            /\ \A i \in 1 .. l - (k + 1) + 1 : r[i] = Pending[(k + 1) + i - 1]
        <5> DEFINE a == k + 1
        <5>1. r = SubSeq(Pending, a, l)
          OBVIOUS
        <5>2. a \in Int /\ l \in Int /\ \A i \in a .. l : Pending[i] \in Spoken
          BY <4>2
        <5> HIDE DEF a, l, r
        <5>3. /\ r \in Seq(Spoken)
              /\ Len(r) = IF a <= l THEN l - a + 1 ELSE 0
              /\ \A i \in 1 .. l - a + 1 : r[i] = Pending[a + i - 1]
          BY <5>1, <5>2, SubSeqProperties
        <5> QED
          BY <5>3 DEF a
      <4> HIDE DEF r
      <4>4. Len(r) = Len(Pending') /\ Len(r) = l - k
        BY <2>1, <3>3, <3>6, <4>1, <4>3
      <4>5. ASSUME NEW i \in 1 .. Len(Pending') PROVE Pending'[i] = r[i]
        <5>1. /\ i \in 1 .. l - (k + 1) + 1 /\ (k + 1) + i - 1 = k + i
              /\ k + i \in 1 .. l /\ Oldest + (k + i) - 1 = (n + 1) + i - 1
          BY <2>1, <3>3, <3>6, <4>4
        <5>2. r[i] = Pending[k + i] /\ Pending[k + i] = sent[(n + 1) + i - 1]
          BY <2>1, <4>3, <5>1
        <5> QED
          BY <4>1, <5>2
      <4>6. Pending' = r
        BY <4>1, <4>3, <4>4, <4>5, SeqEqual
      <4> QED
        BY <4>6 DEF r
    <3>10. Stream!Route(k)
      BY <1>1, <1>4, <2>6, <3>7, <3>9 DEF Stream!Route
    <3> QED
      BY <1>4, <3>6, <3>10 DEF Stream!Next
  <2> QED
    BY <1>2, <2>5, <2>6
<1> QED
  BY <1>3, <1>4 DEF Typed

LEMMA RefinementStep ==
    ASSUME IInv, IInv', PendingSays, PendingSays', [Next]_vars
    PROVE  [Stream!Next]_(Stream!vars)
<1> USE DEF IInv
<1>1. CASE UNCHANGED vars \/ Event \/ SavePartial
  <2>1. UNCHANGED <<in_use, hung_up, joined>>
    BY <1>1 DEF Event, SavePartial, vars, structure, history
  <2>2. Unrouted' = Unrouted
    <3>1. CASE UNCHANGED vars \/ Event
      BY <3>1 DEF Event, vars, structure, history, Unrouted
    <3>2. CASE SavePartial
      BY <3>2, StreamSave
    <3> QED
      BY <1>1, <3>1, <3>2
  <2>3. Pending' = Pending
    BY <2>2 DEF Pending
  <2> QED
    BY <2>1, <2>3 DEF Stream!vars
<1>2. CASE Connect
  <2>1. /\ ~ in_use /\ in_use' /\ ~ hung_up' /\ joined' = {}
        /\ current_msg' = <<>> /\ temp' = <<>> /\ wire' = <<>>
    BY <1>2 DEF Connect, PcInv
  <2>2. Pending' = <<>>
    <3>1. Unrouted' = <<>>
      BY <2>1, NothingThere DEF Unrouted
    <3> QED
      BY <3>1, NoContents DEF Pending
  <2>3. Stream!Open
    BY <2>1, <2>2 DEF Stream!Open
  <2> QED
    BY <2>3 DEF Stream!Next
<1>3. CASE HangUp
  <2>1. in_use /\ hung_up' /\ UNCHANGED <<in_use, joined, current_msg, temp, wire>>
    BY <1>3 DEF HangUp, structure, history
  <2>2. Pending' = Pending
    BY <2>1 DEF Pending, Unrouted
  <2>3. Stream!Leave
    BY <2>1, <2>2 DEF Stream!Leave
  <2> QED
    BY <2>3 DEF Stream!Next
<1>4. CASE Closed
  <2>1. in_use /\ hung_up /\ ~ in_use' /\ UNCHANGED <<hung_up, joined>>
    BY <1>4 DEF Closed, Disconnect, PcInv, history
  <2>2. Stream!Close
    BY <2>1 DEF Stream!Close
  <2> QED
    BY <2>2 DEF Stream!Next
<1> QED
  BY <1>1, <1>2, <1>3, <1>4, ProcessRefines, RecvRefines, SendRefines
     DEF Next, WorkerStep, HandlerStep, OwnStep

\* What the clients of one structure see of the worker is MessageStream: as long
\* as the connection is open each message is routed once and in order, alone
\* unless its terminator was not seen, and only EXIT or the client closes it.
THEOREM RefinementCorrect == Spec => ImplementsMessageStream
<1>1. Init => Stream!Init
  BY DEF Init, Stream!Init
<1>2. IInv /\ IInv' /\ PendingSays /\ PendingSays' /\ [Next]_vars
        => [Stream!Next]_(Stream!vars)
  BY RefinementStep
<1>3. [][Stream!Next]_(Stream!vars)
        => [][Stream!Next]_<<in_use, hung_up, IF in_use THEN Pending ELSE <<>>, joined>>
  BY DEF Stream!vars
<1> QED
  BY <1>1, <1>2, <1>3, Invariance, PendingIs, PTL
     DEF Spec, ImplementsMessageStream, Stream!Spec

=============================================================================
