---------------------------- MODULE TunnelOrder -----------------------------
(***************************************************************************)
(* What the session tells its connector, and in what order.  Three queues  *)
(* lie between the two: the session's outbox, the queue of the transport   *)
(* task that serves the connector's socket, and the socket itself.  Every  *)
(* ACP envelope in them comes behind all the lines before it, Exit behind  *)
(* all lines there are, and Exit is on its way only once the loop of       *)
(* run_agent_session is over or about to end.  So a connector that returns *)
(* because of the agent's exit has written every line to its stdout.       *)
(***************************************************************************)
EXTENDS TunnelRetention

-----------------------------------------------------------------------------
(* Envelopes in order.                                                     *)

\* The lowest number that may still be missing when e is read: an ACP line
\* needs all lines below it, `shutdown` and `exit` need all lines, top of them.
Follows(e, top) == IF e.type = "acp" THEN e.sequence
                   ELSE IF e.type \in {"shutdown", "exit"} THEN top ELSE 0

\* The numbers that are settled once e was read: after an error the reader
\* reads nothing more from this socket.
Covers(e) == IF e.type = "acp" THEN {e.sequence}
             ELSE IF e.type = "error" THEN Nat ELSE {}
Numbers(q) == {n \in Nat : \E i \in 1 .. Len(q) : n \in Covers(q[i])}

\* A reader that expects x and has the numbers in D before it finds no gap
\* in q.
Gapless(q, D, x, top) ==
    \A i \in 1 .. Len(q) :
      \/ Follows(q[i], top) <= x
      \/ Follows(q[i], top) - 1 \in D
      \/ \E j \in 1 .. i - 1 : Follows(q[i], top) - 1 \in Covers(q[j])

\* The same for one envelope.
Preceded(e, D, x, top) == Follows(e, top) <= x \/ Follows(e, top) - 1 \in D

\* Numbers are numbers.
LEMMA FollowsNat ==
    ASSUME NEW e \in Envelopes, NEW top \in Nat
    PROVE  Follows(e, top) \in Nat /\ (e.type = "acp" => e.sequence \in Nat)
BY DEF Follows, Envelopes, ControlTypes

\* A reader may have read more than is needed.
LEMMA GaplessMore ==
    ASSUME NEW q \in Seq(Envelopes), NEW D, NEW D2, D \subseteq D2,
           NEW x \in Nat, NEW x2 \in Nat, x <= x2, NEW top \in Nat,
           Gapless(q, D, x, top)
    PROVE  Gapless(q, D2, x2, top)
<1> SUFFICES ASSUME NEW i \in 1 .. Len(q)
             PROVE  \/ Follows(q[i], top) <= x2
                    \/ Follows(q[i], top) - 1 \in D2
                    \/ \E j \in 1 .. i - 1 : Follows(q[i], top) - 1 \in Covers(q[j])
  BY DEF Gapless
<1>1. Follows(q[i], top) \in Nat
  BY ElementOfSeq, FollowsNat
<1> QED BY <1>1 DEF Gapless

\* An empty queue.
LEMMA GaplessEmpty ==
    ASSUME NEW D, NEW x, NEW top
    PROVE  Gapless(<< >>, D, x, top) /\ Numbers(<< >>) = {}
BY DEF Gapless, Numbers

\* One envelope.
LEMMA GaplessOne ==
    ASSUME NEW e, NEW D, NEW x, NEW top
    PROVE  /\ Gapless(<<e>>, D, x, top) <=> Preceded(e, D, x, top)
           /\ e \in Envelopes => Numbers(<<e>>) = Covers(e)
<1>1. Len(<<e>>) = 1 /\ <<e>>[1] = e
  OBVIOUS
<1>2. \A i \in 1 .. 1 : i = 1
  OBVIOUS
<1>3. ~\E j \in 1 .. 1 - 1 : TRUE
  OBVIOUS
<1>4. Gapless(<<e>>, D, x, top) <=> Preceded(e, D, x, top)
  BY <1>1, <1>2, <1>3 DEF Gapless, Preceded
<1>5. e \in Envelopes => Covers(e) \subseteq Nat
  BY DEF Covers, Envelopes, ControlTypes
<1>6. e \in Envelopes => Numbers(<<e>>) = Covers(e)
  BY <1>1, <1>2, <1>5 DEF Numbers
<1> QED BY <1>4, <1>6

\* One more envelope at the end.
LEMMA GaplessAppend ==
    ASSUME NEW q \in Seq(Envelopes), NEW e \in Envelopes, NEW D, NEW x \in Nat,
           NEW top \in Nat, Gapless(q, D, x, top),
           Preceded(e, D \cup Numbers(q), x, top)
    PROVE  Gapless(Append(q, e), D, x, top)
<1> DEFINE r == Append(q, e)
<1>1. /\ Len(r) = Len(q) + 1 /\ Len(q) \in Nat
      /\ \A i \in 1 .. Len(q) : r[i] = q[i]
      /\ r[Len(q) + 1] = e
  BY EventAppended
<1> HIDE DEF r
<1> SUFFICES ASSUME NEW i \in 1 .. Len(r)
             PROVE  \/ Follows(r[i], top) <= x
                    \/ Follows(r[i], top) - 1 \in D
                    \/ \E j \in 1 .. i - 1 : Follows(r[i], top) - 1 \in Covers(r[j])
  BY DEF Gapless, r
<1>2. CASE i \in 1 .. Len(q)
  <2>1. \A j \in 1 .. i - 1 : r[j] = q[j]
    BY <1>1, <1>2
  <2> QED BY <1>1, <1>2, <2>1 DEF Gapless
<1>3. CASE i = Len(q) + 1
  <2>1. r[i] = e
    BY <1>1, <1>3
  <2>2. CASE Follows(e, top) - 1 \in Numbers(q)
    <3>1. PICK j \in 1 .. Len(q) : Follows(e, top) - 1 \in Covers(q[j])
      BY <2>2 DEF Numbers
    <3>2. j \in 1 .. i - 1 /\ r[j] = q[j]
      BY <1>1, <1>3
    <3> QED BY <2>1, <3>1, <3>2
  <2> QED BY <2>1, <2>2 DEF Preceded
<1> QED BY <1>1, <1>2, <1>3

\* The numbers in a queue with one more envelope.
LEMMA NumbersAppend ==
    ASSUME NEW q \in Seq(Envelopes), NEW e \in Envelopes
    PROVE  Numbers(Append(q, e)) = Numbers(q) \cup Covers(e)
<1> DEFINE r == Append(q, e)
<1>1. /\ Len(r) = Len(q) + 1 /\ Len(q) \in Nat
      /\ \A i \in 1 .. Len(q) : r[i] = q[i]
      /\ r[Len(q) + 1] = e
  BY EventAppended
<1>2. Covers(e) \subseteq Nat
  BY DEF Covers, Envelopes, ControlTypes
<1> HIDE DEF r
<1>3. \A i \in 1 .. Len(r) : i \in 1 .. Len(q) \/ i = Len(q) + 1
  BY <1>1
<1>4. \A i \in 1 .. Len(q) : i \in 1 .. Len(r)
  BY <1>1
<1>5. Len(q) + 1 \in 1 .. Len(r)
  BY <1>1
<1>6. Numbers(r) \subseteq Numbers(q) \cup Covers(e)
  BY <1>1, <1>3 DEF Numbers
<1>7. Numbers(q) \subseteq Numbers(r)
  BY <1>1, <1>4 DEF Numbers
<1>8. Covers(e) \subseteq Numbers(r)
  BY <1>1, <1>2, <1>5 DEF Numbers
<1> QED BY <1>6, <1>7, <1>8 DEF r

\* The first envelope, and those after it.
LEMMA GaplessTail ==
    ASSUME NEW q \in Seq(Envelopes), q # << >>, NEW D, NEW x \in Nat, NEW top \in Nat,
           Gapless(q, D, x, top)
    PROVE  /\ Preceded(Head(q), D, x, top)
           /\ Gapless(Tail(q), D \cup Covers(Head(q)), x, top)
<1> DEFINE r == Tail(q)
<1>1. /\ Len(r) = Len(q) - 1 /\ Len(q) \in Nat /\ Len(q) > 0
      /\ \A i \in 1 .. Len(r) : i + 1 \in 1 .. Len(q) /\ r[i] = q[i + 1]
      /\ Head(q) = q[1]
  BY TailElements
<1> HIDE DEF r
<1>2. Preceded(Head(q), D, x, top)
  <2>1. 1 \in 1 .. Len(q) /\ ~\E j \in 1 .. 1 - 1 : TRUE
    BY <1>1
  <2> QED BY <1>1, <2>1 DEF Gapless, Preceded
<1>3. Gapless(r, D \cup Covers(Head(q)), x, top)
  <2> SUFFICES ASSUME NEW i \in 1 .. Len(r)
               PROVE  \/ Follows(r[i], top) <= x
                      \/ Follows(r[i], top) - 1 \in D \cup Covers(Head(q))
                      \/ \E j \in 1 .. i - 1 : Follows(r[i], top) - 1 \in Covers(r[j])
    BY DEF Gapless
  <2>1. i + 1 \in 1 .. Len(q) /\ r[i] = q[i + 1]
    BY <1>1
  <2>2. ASSUME NEW j \in 1 .. (i + 1) - 1, Follows(r[i], top) - 1 \in Covers(q[j])
        PROVE  \/ Follows(r[i], top) - 1 \in Covers(Head(q))
               \/ \E k \in 1 .. i - 1 : Follows(r[i], top) - 1 \in Covers(r[k])
    <3>1. CASE j = 1
      BY <1>1, <2>2, <3>1
    <3>2. CASE j # 1
      <4>1. j - 1 \in 1 .. i - 1 /\ j - 1 \in 1 .. Len(r) /\ (j - 1) + 1 = j
        BY <1>1, <3>2
      <4>2. r[j - 1] = q[j]
        BY <1>1, <4>1
      <4> QED BY <2>2, <4>1, <4>2
    <3> QED BY <3>1, <3>2
  <2>3. \/ Follows(q[i + 1], top) <= x
        \/ Follows(q[i + 1], top) - 1 \in D
        \/ \E j \in 1 .. (i + 1) - 1 : Follows(q[i + 1], top) - 1 \in Covers(q[j])
    BY <2>1 DEF Gapless
  <2> QED BY <2>1, <2>2, <2>3
<1> QED BY <1>2, <1>3 DEF r

\* The numbers in a queue, and in what is behind its first envelope.
LEMMA NumbersTail ==
    ASSUME NEW q \in Seq(Envelopes), q # << >>
    PROVE  Numbers(q) = Covers(Head(q)) \cup Numbers(Tail(q))
<1> DEFINE r == Tail(q)
<1>1. /\ Len(r) = Len(q) - 1 /\ Len(q) \in Nat /\ Len(q) > 0
      /\ \A i \in 1 .. Len(r) : i + 1 \in 1 .. Len(q) /\ r[i] = q[i + 1]
      /\ Head(q) = q[1] /\ Head(q) \in Envelopes
  BY TailElements, HeadIn
<1>2. Covers(Head(q)) \subseteq Nat
  BY <1>1 DEF Covers, Envelopes, ControlTypes
<1> HIDE DEF r
<1>3. \A i \in 1 .. Len(q) : i = 1 \/ (i - 1 \in 1 .. Len(r) /\ r[i - 1] = q[i])
  <2> SUFFICES ASSUME NEW i \in 1 .. Len(q), i # 1
               PROVE  i - 1 \in 1 .. Len(r) /\ r[i - 1] = q[i]
    OBVIOUS
  <2>1. i - 1 \in 1 .. Len(r) /\ (i - 1) + 1 = i
    BY <1>1
  <2> QED BY <1>1, <2>1
<1>4. 1 \in 1 .. Len(q)
  BY <1>1
<1>5. Numbers(q) \subseteq Covers(Head(q)) \cup Numbers(r)
  BY <1>1, <1>3 DEF Numbers
<1>6. Numbers(r) \subseteq Numbers(q)
  BY <1>1 DEF Numbers
<1>7. Covers(Head(q)) \subseteq Numbers(q)
  BY <1>1, <1>2, <1>4 DEF Numbers
<1> QED BY <1>5, <1>6, <1>7 DEF r

\* A stream that was cut.
LEMMA GaplessCut ==
    ASSUME NEW q \in Seq(Envelopes), NEW p, Cut(p, q), NEW D, NEW x, NEW top,
           Gapless(q, D, x, top)
    PROVE  Gapless(p, D, x, top)
<1>1. /\ p \in Seq(Envelopes) /\ Len(p) \in Nat /\ Len(p) <= Len(q)
      /\ \A i \in 1 .. Len(p) : p[i] = q[i]
      /\ q = << >> => p = << >>
  BY CutElements
<1>2. Len(q) \in Nat
  BY LenProperties
<1> SUFFICES ASSUME NEW i \in 1 .. Len(p)
             PROVE  \/ Follows(p[i], top) <= x
                    \/ Follows(p[i], top) - 1 \in D
                    \/ \E j \in 1 .. i - 1 : Follows(p[i], top) - 1 \in Covers(p[j])
  BY DEF Gapless
<1>3. i \in 1 .. Len(q) /\ p[i] = q[i] /\ \A j \in 1 .. i - 1 : p[j] = q[j]
  BY <1>1, <1>2
<1> QED BY <1>3 DEF Gapless

\* What was read and counted need not be there any more.
LEMMA GaplessRead ==
    ASSUME NEW q \in Seq(Envelopes), NEW e \in Envelopes, NEW D, NEW x \in Nat,
           NEW top \in Nat, Gapless(q, D \cup Covers(e), x, top),
           e.type # "error", e.type = "acp" => e.sequence < x
    PROVE  Gapless(q, D, x, top)
<1> SUFFICES ASSUME NEW i \in 1 .. Len(q)
             PROVE  \/ Follows(q[i], top) <= x
                    \/ Follows(q[i], top) - 1 \in D
                    \/ \E j \in 1 .. i - 1 : Follows(q[i], top) - 1 \in Covers(q[j])
  BY DEF Gapless
<1>1. Follows(q[i], top) \in Nat
  BY ElementOfSeq, FollowsNat
<1>2. ASSUME Follows(q[i], top) - 1 \in Covers(e) PROVE Follows(q[i], top) <= x
  <2>1. e.type = "acp" /\ Follows(q[i], top) - 1 = e.sequence
    BY <1>2 DEF Covers
  <2>2. e.sequence \in Nat /\ e.sequence < x
    BY <2>1, FollowsNat
  <2> QED BY <1>1, <2>1, <2>2
<1> QED BY <1>2 DEF Gapless

\* The top only matters to `shutdown` and `exit`.
LEMMA GaplessTop ==
    ASSUME NEW q, NEW D, NEW x, NEW top, NEW top2, Gapless(q, D, x, top),
           \A i \in 1 .. Len(q) : q[i].type \notin {"shutdown", "exit"}
    PROVE  Gapless(q, D, x, top2)
BY DEF Gapless, Follows

-----------------------------------------------------------------------------
(* Three queues in a row: what a reader of a, then b, then c finds.        *)

Pending3(a, b, c) == Numbers(a) \cup Numbers(b) \cup Numbers(c)
InOrder(a, b, c, x, top) ==
    /\ Gapless(a, {}, x, top)
    /\ Gapless(b, Numbers(a), x, top)
    /\ Gapless(c, Numbers(a) \cup Numbers(b), x, top)

\* Pushing an envelope at the end.
LEMMA PushInOrder ==
    ASSUME NEW a, NEW b, NEW c \in Seq(Envelopes),
           NEW e \in Envelopes, NEW x \in Nat, NEW top \in Nat,
           InOrder(a, b, c, x, top), Preceded(e, Pending3(a, b, c), x, top)
    PROVE  /\ InOrder(a, b, Append(c, e), x, top)
           /\ Pending3(a, b, Append(c, e)) = Pending3(a, b, c) \cup Covers(e)
<1>1. Numbers(Append(c, e)) = Numbers(c) \cup Covers(e)
  BY NumbersAppend
<1>2. Preceded(e, (Numbers(a) \cup Numbers(b)) \cup Numbers(c), x, top)
  BY DEF Pending3
<1>3. Gapless(Append(c, e), Numbers(a) \cup Numbers(b), x, top)
  BY <1>2, GaplessAppend DEF InOrder
<1> QED BY <1>1, <1>3 DEF InOrder, Pending3

\* The first envelope of the last queue goes to the empty one before it.
LEMMA BlockInOrder ==
    ASSUME NEW a, NEW c \in Seq(Envelopes), c # << >>, NEW x \in Nat, NEW top \in Nat,
           InOrder(a, << >>, c, x, top)
    PROVE  /\ InOrder(a, <<Head(c)>>, Tail(c), x, top)
           /\ Pending3(a, <<Head(c)>>, Tail(c)) = Pending3(a, << >>, c)
<1>1. /\ Head(c) \in Envelopes /\ Numbers(<< >>) = {}
      /\ Numbers(<<Head(c)>>) = Covers(Head(c))
      /\ Numbers(c) = Covers(Head(c)) \cup Numbers(Tail(c))
  <2>1. Head(c) \in Envelopes
    BY HeadIn
  <2> QED BY <2>1, GaplessEmpty, GaplessOne, NumbersTail
<1>2. Gapless(c, Numbers(a), x, top)
  <2>1. Numbers(a) \cup Numbers(<< >>) = Numbers(a)
    BY <1>1
  <2> QED BY <2>1 DEF InOrder
<1>3. /\ Preceded(Head(c), Numbers(a), x, top)
      /\ Gapless(Tail(c), Numbers(a) \cup Covers(Head(c)), x, top)
  BY <1>2, GaplessTail
<1>4. Gapless(<<Head(c)>>, Numbers(a), x, top)
  BY <1>3, GaplessOne
<1>5. Numbers(a) \cup Numbers(<<Head(c)>>) = Numbers(a) \cup Covers(Head(c))
  BY <1>1
<1>6. Gapless(Tail(c), Numbers(a) \cup Numbers(<<Head(c)>>), x, top)
  BY <1>3, <1>5
<1>7. Pending3(a, <<Head(c)>>, Tail(c)) = Pending3(a, << >>, c)
  BY <1>1 DEF Pending3
<1> QED BY <1>4, <1>6, <1>7 DEF InOrder

\* The envelope in the middle goes to the end of the first queue.
LEMMA WriteInOrder ==
    ASSUME NEW a \in Seq(Envelopes), NEW e \in Envelopes, NEW c, NEW x \in Nat, NEW top \in Nat,
           InOrder(a, <<e>>, c, x, top)
    PROVE  /\ InOrder(Append(a, e), << >>, c, x, top)
           /\ Pending3(Append(a, e), << >>, c) = Pending3(a, <<e>>, c)
<1>1. /\ Numbers(Append(a, e)) = Numbers(a) \cup Covers(e)
      /\ Numbers(<< >>) = {} /\ Numbers(<<e>>) = Covers(e)
  BY NumbersAppend, GaplessEmpty, GaplessOne
<1>2. Preceded(e, Numbers(a), x, top)
  BY GaplessOne DEF InOrder
<1>3. Preceded(e, {} \cup Numbers(a), x, top)
  <2>1. {} \cup Numbers(a) = Numbers(a)
    OBVIOUS
  <2> QED BY <1>2, <2>1
<1>4. Gapless(Append(a, e), {}, x, top)
  BY <1>3, GaplessAppend DEF InOrder
<1>5. Numbers(Append(a, e)) \cup Numbers(<< >>) = Numbers(a) \cup Numbers(<<e>>)
  BY <1>1
<1>6. Gapless(c, Numbers(Append(a, e)) \cup Numbers(<< >>), x, top)
  BY <1>5 DEF InOrder
<1>7. Gapless(<< >>, Numbers(Append(a, e)), x, top)
  BY GaplessEmpty
<1>8. Pending3(Append(a, e), << >>, c) = Pending3(a, <<e>>, c)
  BY <1>1 DEF Pending3
<1> QED BY <1>4, <1>6, <1>7, <1>8 DEF InOrder

\* The first envelope of the last queue goes past the empty one in between.
LEMMA PassInOrder ==
    ASSUME NEW a \in Seq(Envelopes), NEW c \in Seq(Envelopes), c # << >>,
           NEW x \in Nat, NEW top \in Nat, InOrder(a, << >>, c, x, top)
    PROVE  /\ InOrder(Append(a, Head(c)), << >>, Tail(c), x, top)
           /\ Pending3(Append(a, Head(c)), << >>, Tail(c)) = Pending3(a, << >>, c)
<1>1. Head(c) \in Envelopes
  BY HeadIn
<1>2. /\ InOrder(a, <<Head(c)>>, Tail(c), x, top)
      /\ Pending3(a, <<Head(c)>>, Tail(c)) = Pending3(a, << >>, c)
  BY BlockInOrder
<1> QED BY <1>1, <1>2, WriteInOrder

\* The reader takes the first envelope and counts it.
LEMMA ReadInOrder ==
    ASSUME NEW a \in Seq(Envelopes), a # << >>, NEW b \in Seq(Envelopes),
           NEW c \in Seq(Envelopes), NEW x \in Nat, NEW top \in Nat, NEW x2 \in Nat,
           InOrder(a, b, c, x, top), x <= x2, Head(a).type # "error",
           Head(a).type = "acp" => Head(a).sequence < x2
    PROVE  /\ InOrder(Tail(a), b, c, x2, top)
           /\ Pending3(a, b, c) = Pending3(Tail(a), b, c) \cup Covers(Head(a))
<1>1. /\ Head(a) \in Envelopes /\ Tail(a) \in Seq(Envelopes)
      /\ Numbers(a) = Covers(Head(a)) \cup Numbers(Tail(a))
  BY HeadIn, NumbersTail
<1>2. Gapless(Tail(a), {}, x2, top)
  <2>1. Gapless(Tail(a), {} \cup Covers(Head(a)), x, top)
    BY GaplessTail DEF InOrder
  <2>2. Gapless(Tail(a), {} \cup Covers(Head(a)), x2, top)
    BY <1>1, <2>1, GaplessMore
  <2> QED BY <1>1, <2>2, GaplessRead
<1>3. Gapless(b, Numbers(Tail(a)), x2, top)
  <2>1. Numbers(a) = Numbers(Tail(a)) \cup Covers(Head(a))
    BY <1>1
  <2>2. Gapless(b, Numbers(Tail(a)) \cup Covers(Head(a)), x2, top)
    BY <2>1, GaplessMore DEF InOrder
  <2> QED BY <1>1, <2>2, GaplessRead
<1>4. Gapless(c, Numbers(Tail(a)) \cup Numbers(b), x2, top)
  <2>1. Numbers(a) \cup Numbers(b) = (Numbers(Tail(a)) \cup Numbers(b)) \cup Covers(Head(a))
    BY <1>1
  <2>2. Gapless(c, (Numbers(Tail(a)) \cup Numbers(b)) \cup Covers(Head(a)), x2, top)
    BY <2>1, GaplessMore DEF InOrder
  <2> QED BY <1>1, <2>2, GaplessRead
<1>5. Pending3(a, b, c) = Pending3(Tail(a), b, c) \cup Covers(Head(a))
  BY <1>1 DEF Pending3
<1> QED BY <1>2, <1>3, <1>4, <1>5 DEF InOrder

\* What comes after three queues when the reader takes an envelope.
LEMMA ReadBehind ==
    ASSUME NEW q \in Seq(Envelopes), NEW e \in Envelopes, NEW D, NEW D2, D = D2 \cup Covers(e),
           NEW x \in Nat, NEW x2 \in Nat, x <= x2, NEW top \in Nat, Gapless(q, D, x, top),
           e.type # "error", e.type = "acp" => e.sequence < x2
    PROVE  Gapless(q, D2, x2, top)
<1>1. Gapless(q, D2 \cup Covers(e), x2, top)
  BY GaplessMore
<1> QED BY <1>1, GaplessRead

\* Something that is no line comes between the first queue and the rest.
LEMMA PadInOrder ==
    ASSUME NEW a \in Seq(Envelopes), NEW b, NEW c, NEW e \in Envelopes,
           NEW x \in Nat, NEW top \in Nat, InOrder(a, b, c, x, top),
           e.type \notin {"acp", "error", "shutdown", "exit"}
    PROVE  /\ InOrder(Append(a, e), b, c, x, top)
           /\ Pending3(Append(a, e), b, c) = Pending3(a, b, c)
<1>1. Covers(e) = {} /\ Follows(e, top) = 0
  BY DEF Covers, Follows
<1>2. Numbers(Append(a, e)) = Numbers(a)
  BY <1>1, NumbersAppend
<1>3. Preceded(e, {} \cup Numbers(a), x, top)
  BY <1>1 DEF Preceded
<1>4. Gapless(Append(a, e), {}, x, top)
  BY <1>3, GaplessAppend DEF InOrder
<1> QED BY <1>2, <1>4 DEF InOrder, Pending3

\* The last queue is cut.
LEMMA CutInOrder ==
    ASSUME NEW a, NEW b, NEW c \in Seq(Envelopes), NEW p, Cut(p, c),
           NEW x, NEW top, InOrder(a, b, c, x, top)
    PROVE  InOrder(a, b, p, x, top)
BY GaplessCut DEF InOrder

\* The reader expects more, or the writer has said that there is more.
LEMMA MoreInOrder ==
    ASSUME NEW a \in Seq(Envelopes), NEW b \in Seq(Envelopes), NEW c \in Seq(Envelopes),
           NEW x \in Nat, NEW x2 \in Nat, x <= x2, NEW top \in Nat,
           InOrder(a, b, c, x, top)
    PROVE  InOrder(a, b, c, x2, top)
BY GaplessMore DEF InOrder

NoEnd(q) == \A i \in 1 .. Len(q) : q[i].type \notin {"shutdown", "exit"}
\* Queues without `shutdown` and `exit` do not depend on how many lines there are.
LEMMA TopInOrder ==
    ASSUME NEW a, NEW b, NEW c, NEW x, NEW top, NEW top2,
           NoEnd(a), NoEnd(b), NoEnd(c), InOrder(a, b, c, x, top)
    PROVE  InOrder(a, b, c, x, top2)
<1>1. Gapless(a, {}, x, top2)
  BY GaplessTop DEF InOrder, NoEnd
<1>2. Gapless(b, Numbers(a), x, top2)
  BY GaplessTop DEF InOrder, NoEnd
<1>3. Gapless(c, Numbers(a) \cup Numbers(b), x, top2)
  BY GaplessTop DEF InOrder, NoEnd
<1> QED BY <1>1, <1>2, <1>3 DEF InOrder

-----------------------------------------------------------------------------
(* Queues without a kind of envelope.                                      *)

Without(type, q) == \A i \in 1 .. Len(q) : q[i].type # type

\* An empty queue.
LEMMA WithoutEmpty ==
    ASSUME NEW type
    PROVE  Without(type, << >>)
BY DEF Without

\* A queue of one envelope.
LEMMA WithoutOne ==
    ASSUME NEW type, NEW e
    PROVE  Without(type, <<e>>) <=> e.type # type
<1>1. Len(<<e>>) = 1 /\ <<e>>[1] = e /\ \A i \in 1 .. 1 : i = 1
  OBVIOUS
<1> QED BY <1>1 DEF Without

\* The first envelope, and those after it.
LEMMA WithoutTail ==
    ASSUME NEW type, NEW S, NEW q \in Seq(S), q # << >>
    PROVE  Without(type, q) <=> Head(q).type # type /\ Without(type, Tail(q))
<1>1. /\ Len(Tail(q)) = Len(q) - 1 /\ Len(q) \in Nat /\ Len(q) > 0
      /\ \A i \in 1 .. Len(Tail(q)) : i + 1 \in 1 .. Len(q) /\ Tail(q)[i] = q[i + 1]
      /\ Head(q) = q[1]
  BY TailElements
<1>2. ASSUME Without(type, q) PROVE Head(q).type # type /\ Without(type, Tail(q))
  BY <1>1, <1>2 DEF Without
<1>3. ASSUME Head(q).type # type, Without(type, Tail(q)), NEW i \in 1 .. Len(q)
      PROVE  q[i].type # type
  <2>1. CASE i = 1
    BY <1>1, <1>3, <2>1
  <2>2. CASE i # 1
    <3>1. i - 1 \in 1 .. Len(Tail(q)) /\ (i - 1) + 1 = i
      BY <1>1, <2>2
    <3> QED BY <1>1, <1>3, <3>1 DEF Without
  <2> QED BY <2>1, <2>2
<1> QED BY <1>2, <1>3 DEF Without

\* One more envelope at the end.
LEMMA WithoutAppend ==
    ASSUME NEW type, NEW S, NEW q \in Seq(S), NEW e
    PROVE  Without(type, Append(q, e)) <=> Without(type, q) /\ e.type # type
<1>1. /\ Len(Append(q, e)) = Len(q) + 1 /\ Len(q) \in Nat
      /\ \A i \in 1 .. Len(q) : Append(q, e)[i] = q[i]
      /\ Append(q, e)[Len(q) + 1] = e
  BY EventAppended
<1>2. /\ \A i \in 1 .. Len(q) + 1 : i \in 1 .. Len(q) \/ i = Len(q) + 1
      /\ \A i \in 1 .. Len(q) : i \in 1 .. Len(q) + 1
      /\ Len(q) + 1 \in 1 .. Len(q) + 1
  BY <1>1
<1> QED BY <1>1, <1>2 DEF Without

\* An empty queue is empty when it is cut.
LEMMA CutEmpty ==
    ASSUME NEW S, NEW q \in Seq(S), NEW p, Cut(p, q), q = << >>
    PROVE  p = << >>
<1>1. PICK k \in 0 .. Len(q) : p = SubSeq(q, 1, k)
  BY DEF Cut
<1>2. Len(q) = 0
  BY EmptySeq
<1>3. p \in Seq(S) /\ Len(p) = 0
  BY <1>1, <1>2, SubSeqProperties
<1> QED BY <1>3, EmptySeq

\* A queue that was cut.
LEMMA WithoutCut ==
    ASSUME NEW type, NEW S, NEW q \in Seq(S), NEW p, Cut(p, q), Without(type, q)
    PROVE  Without(type, p)
<1>1. /\ p \in Seq(S) /\ Len(p) \in Nat /\ Len(p) <= Len(q)
      /\ \A i \in 1 .. Len(p) : p[i] = q[i]
      /\ q = << >> => p = << >>
  BY CutElements
<1>2. Len(q) \in Nat
  OBVIOUS
<1>3. \A i \in 1 .. Len(p) : i \in 1 .. Len(q)
  BY <1>1, <1>2
<1> QED BY <1>1, <1>3 DEF Without

\* Only the first envelope of three queues in a row can have this type.
OnlyFirst(type, a, b, c) ==
    /\ a # << >> => Without(type, Tail(a)) /\ Without(type, b) /\ Without(type, c)
    /\ b # << >> => Without(type, c)
    /\ c # << >> => Without(type, Tail(c))

\* Three empty queues.
LEMMA FirstEmpty ==
    ASSUME NEW type
    PROVE  OnlyFirst(type, << >>, << >>, << >>)
BY DEF OnlyFirst

\* Three queues without it.
LEMMA FirstNone ==
    ASSUME NEW type, NEW a \in Seq(Envelopes), NEW b, NEW c \in Seq(Envelopes),
           Without(type, a), Without(type, b), Without(type, c)
    PROVE  OnlyFirst(type, a, b, c)
BY WithoutTail DEF OnlyFirst

\* It may only be pushed to three empty queues.
LEMMA FirstPush ==
    ASSUME NEW type, NEW a \in Seq(Envelopes), NEW b, NEW c \in Seq(Envelopes),
           NEW e, OnlyFirst(type, a, b, c),
           e.type = type => a = << >> /\ b = << >> /\ c = << >>
    PROVE  OnlyFirst(type, a, b, Append(c, e))
<1>1. CASE c = << >>
  <2>1. Append(c, e) = <<e>> /\ Tail(<<e>>) = << >> /\ <<e>> # << >>
    BY <1>1
  <2> QED BY <1>1, <2>1, WithoutOne, WithoutEmpty DEF OnlyFirst
<1>2. CASE c # << >>
  <2>1. Tail(Append(c, e)) = Append(Tail(c), e) /\ Append(c, e) # << >>
    BY <1>2
  <2>2. e.type # type
    BY <1>2
  <2>3. Tail(c) \in Seq(Envelopes)
    BY <1>2, HeadIn
  <2>4. Without(type, Append(Tail(c), e)) <=> Without(type, Tail(c))
    BY <2>2, <2>3, WithoutAppend
  <2>5. Without(type, Append(c, e)) <=> Without(type, c)
    BY <2>2, WithoutAppend
  <2> QED BY <1>2, <2>1, <2>4, <2>5 DEF OnlyFirst
<1> QED BY <1>1, <1>2

\* The first envelope of the last queue goes to the empty one before it.
LEMMA FirstBlock ==
    ASSUME NEW type, NEW a, NEW c \in Seq(Envelopes), c # << >>,
           OnlyFirst(type, a, << >>, c)
    PROVE  OnlyFirst(type, a, <<Head(c)>>, Tail(c))
<1>1. Tail(c) \in Seq(Envelopes)
  BY HeadIn
<1>2. Without(type, c) <=> Head(c).type # type /\ Without(type, Tail(c))
  BY WithoutTail
<1>3. Without(type, <<Head(c)>>) <=> Head(c).type # type
  BY WithoutOne
<1>4. Tail(c) # << >> /\ Without(type, Tail(c)) => Without(type, Tail(Tail(c)))
  BY <1>1, WithoutTail
<1> QED BY <1>2, <1>3, <1>4 DEF OnlyFirst

\* The envelope in the middle goes to the end of the first queue.
LEMMA FirstEmit ==
    ASSUME NEW type, NEW a \in Seq(Envelopes), NEW e, NEW c \in Seq(Envelopes),
           OnlyFirst(type, a, <<e>>, c)
    PROVE  OnlyFirst(type, Append(a, e), << >>, c)
<1>1. CASE a = << >>
  <2>1. Append(a, e) = <<e>> /\ Tail(<<e>>) = << >> /\ <<e>> # << >>
    BY <1>1
  <2> QED BY <2>1, WithoutEmpty DEF OnlyFirst
<1>2. CASE a # << >>
  <2>1. Tail(Append(a, e)) = Append(Tail(a), e) /\ Append(a, e) # << >>
    BY <1>2
  <2>2. e.type # type /\ Without(type, c)
    BY <1>2, WithoutOne DEF OnlyFirst
  <2>3. Tail(a) \in Seq(Envelopes)
    BY <1>2, HeadIn
  <2>4. Without(type, Append(Tail(a), e))
    BY <1>2, <2>2, <2>3, WithoutAppend DEF OnlyFirst
  <2> QED BY <2>1, <2>2, <2>4, WithoutEmpty DEF OnlyFirst
<1> QED BY <1>1, <1>2

\* A queue cut short.
LEMMA FirstCut ==
    ASSUME NEW type, NEW a \in Seq(Envelopes), NEW p, Cut(p, a), p # << >>,
           a # << >> => Without(type, Tail(a))
    PROVE  Without(type, Tail(p))
<1>1. /\ p \in Seq(Envelopes) /\ Len(p) \in Nat /\ Len(p) <= Len(a)
      /\ \A i \in 1 .. Len(p) : p[i] = a[i]
      /\ a = << >> => p = << >>
  BY CutElements
<1>2. /\ Len(Tail(p)) = Len(p) - 1 /\ Len(p) \in Nat /\ Len(p) > 0
      /\ \A i \in 1 .. Len(Tail(p)) : i + 1 \in 1 .. Len(p) /\ Tail(p)[i] = p[i + 1]
      /\ Head(p) = p[1]
  BY <1>1, TailElements
<1>3. /\ Len(Tail(a)) = Len(a) - 1 /\ Len(a) \in Nat /\ Len(a) > 0
      /\ \A i \in 1 .. Len(Tail(a)) : i + 1 \in 1 .. Len(a) /\ Tail(a)[i] = a[i + 1]
      /\ Head(a) = a[1]
  BY <1>1, TailElements
<1>4. \A i \in 1 .. Len(Tail(p)) : i \in 1 .. Len(Tail(a)) /\ Tail(p)[i] = Tail(a)[i]
  BY <1>1, <1>2, <1>3
<1> QED BY <1>1, <1>4 DEF Without

-----------------------------------------------------------------------------
(* What a step does to the envelopes on their way to the connector: those  *)
(* in the stream of socket s, the one its task is writing and the ones in  *)
(* its commands.                                                           *)

Same(s) == /\ up'[s] = up[s] /\ s2c'[s] = s2c[s]
           /\ tasks'[s].writing = tasks[s].writing
           /\ tasks'[s].commands = tasks[s].commands
\* One more command.
Pushes(s, e) == /\ up'[s] = up[s] /\ s2c'[s] = s2c[s]
                /\ tasks'[s].writing = tasks[s].writing
                /\ tasks'[s].commands = Append(tasks[s].commands, e)
\* The task starts to write the first command and has to wait.
Blocks(s) == /\ up'[s] = up[s] /\ s2c'[s] = s2c[s]
             /\ tasks[s].writing = << >> /\ tasks[s].commands # << >>
             /\ tasks'[s].writing = <<Head(tasks[s].commands)>>
             /\ tasks'[s].commands = Tail(tasks[s].commands)
\* The command it is writing, or the first one, goes out.
Emits(s) == /\ up[s] /\ up'[s]
            /\ s2c'[s] = Append(s2c[s], Current(s))
            /\ tasks'[s].writing = << >>
            /\ \/ /\ tasks[s].writing = <<Current(s)>>
                  /\ tasks'[s].commands = tasks[s].commands
               \/ /\ tasks[s].writing = << >> /\ tasks[s].commands # << >>
                  /\ Current(s) = Head(tasks[s].commands)
                  /\ tasks'[s].commands = Tail(tasks[s].commands)
\* The socket is lost, and with it any part of what is on its way.
Loses(s) == /\ ~up'[s]
            /\ Cut(s2c'[s], s2c[s])
            /\ tasks[s].writing = << >> => tasks'[s].writing = << >>
            /\ tasks[s].commands = << >> => tasks'[s].commands = << >>
\* The same, after `shutdown_complete` went out.
Finishes(s) == /\ ~up'[s] /\ HasCommand(s)
               /\ \E e \in Envelopes : /\ e.type = "shutdown_complete"
                                       /\ Cut(s2c'[s], Append(s2c[s], e))
\* A socket for which there is no session gets `error` and is closed.
Refuses(s) == /\ ~up'[s] /\ tasks[s].state = "none" /\ s \notin Queued
              /\ s2c'[s] = << >> \/ s2c'[s] = <<Control("error")>>

\* The queues between the session and the connector are sequences.
LEMMA PipeTypes ==
    ASSUME LinesKeepTheirNumbers, NEW s \in Sockets
    PROVE  /\ s2c[s] \in Seq(Envelopes) /\ tasks[s].writing \in Seq(Envelopes)
           /\ tasks[s].commands \in Seq(Envelopes)
           /\ s2c[s] \in Seq(ServerEnvelopes) /\ tasks[s].writing \in Seq(ServerEnvelopes)
           /\ tasks[s].commands \in Seq(ServerEnvelopes)
           /\ session.outbox \in Seq(Envelopes)
           /\ up[s] \in BOOLEAN
<1>1. ServerEnvelopes \subseteq Envelopes
  BY DEF ServerEnvelopes
<1>2. Seq(ServerEnvelopes) \subseteq Seq(Envelopes)
  BY <1>1, SeqGrows
<1>3. /\ s2c[s] \in Seq(ServerEnvelopes) /\ up[s] \in BOOLEAN
      /\ session.outbox \in Seq(ServerEnvelopes)
  BY DEF LinesKeepTheirNumbers, NetworkInv, SessionInv, SessionState
<1>4. tasks[s] \in Task(ServerEnvelopes, ClientEvents)
  BY DEF LinesKeepTheirNumbers, ChannelInv
<1>5. tasks[s].writing \in Seq(ServerEnvelopes) /\ tasks[s].commands \in Seq(ServerEnvelopes)
  BY <1>4 DEF Task
<1> QED BY <1>2, <1>3, <1>5

\* A queue of at most one element.
LEMMA AtMostOne ==
    ASSUME NEW S, NEW q \in Seq(S), Len(q) <= 1, q # << >>
    PROVE  q = <<Head(q)>>
OBVIOUS

\* A step of a transport task.
LEMMA TaskPipe ==
    ASSUME LinesKeepTheirNumbers, TaskInv, NEW t \in Sockets, TaskNext(t),
           NEW s \in Sockets
    PROVE  \/ Same(s) \/ Loses(s)
           \/ s = t /\ Finishes(s)
           \/ s = t /\ Blocks(s)
           \/ s = t /\ Emits(s) /\ session' = [session EXCEPT !.sent = SentAfter(s, Current(s))]
<1>1. /\ tasks \in [Sockets -> Task(ServerEnvelopes, ClientEvents)]
      /\ NetworkInv /\ tasks[s] \in Task(ServerEnvelopes, ClientEvents)
      /\ TaskOK(s)
  BY DEF LinesKeepTheirNumbers, ChannelInv, TaskInv
<1>2. /\ s2c[s] \in Seq(Envelopes) /\ tasks[s].writing \in Seq(Envelopes)
      /\ tasks[s].commands \in Seq(Envelopes)
      /\ up[s] \in BOOLEAN
  BY PipeTypes
<1>3. CASE s # t
  BY <1>3, TaskMoves DEF Same
<1> SUFFICES ASSUME s = t
             PROVE  \/ Same(s) \/ Loses(s) \/ Finishes(s) \/ Blocks(s)
                    \/ Emits(s) /\ session' = [session EXCEPT !.sent = SentAfter(s, Current(s))]
  BY <1>3
<1>4. Cut(s2c[s], s2c[s])
  BY <1>2, CutWhole
<1>5. ASSUME StopTask(s) PROVE Loses(s)
  <2>1. tasks'[s].writing = << >> /\ tasks'[s].commands = << >>
    BY <1>1, <1>5 DEF StopTask, StoppedTask, NoTask
  <2> QED BY <1>1, <1>5, <2>1, ServerEndCloses DEF StopTask, Loses
<1>6. CASE TaskWrites(s)
  <2>1. /\ HasCommand(s) /\ s2c' = Transmit(s2c, s, Current(s)) /\ up' = up
        /\ session' = [session EXCEPT !.sent = SentAfter(s, Current(s))]
        /\ tasks' = IF tasks[s].writing # << >>
                      THEN [tasks EXCEPT ![s].writing = << >>]
                      ELSE [tasks EXCEPT ![s].commands = Tail(@)]
    BY <1>6 DEF TaskWrites
  <2>2. CASE ~up[s]
    <3>1. /\ tasks[s].writing = << >> => tasks'[s].writing = << >>
          /\ tasks[s].commands = << >> => tasks'[s].commands = << >>
      <4>1. CASE tasks[s].writing # << >>
        BY <1>1, <2>1, <4>1 DEF Task
      <4>2. CASE tasks[s].writing = << >>
        BY <1>1, <2>1, <4>2 DEF Task, HasCommand
      <4> QED BY <4>1, <4>2
    <3> QED BY <1>4, <2>1, <2>2, <3>1 DEF Transmit, Loses
  <2>3. CASE up[s] /\ tasks[s].writing # << >>
    <3>1. tasks[s].writing = <<Current(s)>>
      BY <1>1, <1>2, <2>3, AtMostOne DEF TaskOK, Current
    <3>2. s2c'[s] = Append(s2c[s], Current(s))
      BY <1>1, <2>1, <2>3 DEF Transmit, NetworkInv
    <3>3. tasks'[s].writing = << >> /\ tasks'[s].commands = tasks[s].commands
      BY <1>1, <2>1, <2>3 DEF Task
    <3> QED BY <2>1, <2>3, <3>1, <3>2, <3>3 DEF Emits
  <2>4. CASE up[s] /\ tasks[s].writing = << >>
    <3>1. tasks[s].commands # << >> /\ Current(s) = Head(tasks[s].commands)
      BY <2>1, <2>4 DEF HasCommand, Current
    <3>2. s2c'[s] = Append(s2c[s], Current(s))
      BY <1>1, <2>1, <2>4 DEF Transmit, NetworkInv
    <3>3. tasks'[s].writing = << >> /\ tasks'[s].commands = Tail(tasks[s].commands)
      BY <1>1, <2>1, <2>4 DEF Task
    <3> QED BY <2>1, <2>4, <3>1, <3>2, <3>3 DEF Emits
  <2> QED BY <1>2, <2>2, <2>3, <2>4
<1>7. CASE TaskFinishes(s)
  <2>1. Current(s) \in Envelopes /\ Current(s).type = "shutdown_complete"
    BY <1>7, CurrentIn DEF TaskFinishes, LinesKeepTheirNumbers, ServerEnvelopes
  <2>2. ~up'[s]
    BY <1>1, <1>7 DEF TaskFinishes, NetworkInv
  <2> DEFINE stream == Transmit(s2c, s, Current(s))[s]
  <2>3. \E kept \in 0 .. Len(stream) : s2c' = [s2c EXCEPT ![s] = SubSeq(stream, 1, kept)]
    BY <1>7 DEF TaskFinishes
  <2>4. Cut(s2c'[s], stream)
    BY <1>1, <2>3 DEF Cut, NetworkInv
  <2>5. stream = IF up[s] THEN Append(s2c[s], Current(s)) ELSE s2c[s]
    BY <1>1 DEF Transmit, NetworkInv
  <2> HIDE DEF stream
  <2>6. tasks'[s].writing = << >> /\ tasks'[s].commands = << >>
    BY <1>1, <1>7 DEF TaskFinishes, StoppedTask, NoTask
  <2> QED BY <1>7, <2>1, <2>2, <2>4, <2>5, <2>6 DEF Loses, Finishes, TaskFinishes
<1>8. CASE TaskBlocks(s)
  <2>1. /\ Selecting(s) /\ tasks[s].commands # << >> /\ UNCHANGED networkVars
        /\ tasks' = [tasks EXCEPT ![s].writing = <<Head(tasks[s].commands)>>,
                                  ![s].commands = Tail(@)]
    BY <1>8 DEF TaskBlocks
  <2> QED BY <1>1, <2>1 DEF Blocks, Selecting, networkVars, Task
<1>9. CASE TaskWriteFails(s) \/ OrphanStops(s)
  BY <1>5, <1>9 DEF TaskWriteFails, OrphanStops
<1>10. CASE TaskReads(s)
  <2>1. tasks' = tasks \/ \E h : tasks' = [tasks EXCEPT ![s].held = h]
    BY <1>10 DEF TaskReads
  <2>2. UNCHANGED <<s2c, up>>
    BY <1>10 DEF TaskReads
  <2> QED BY <1>1, <2>1, <2>2 DEF Same, Task
<1>11. CASE (TaskSeesEnd(s) \/ TaskHandsOver(s)) /\ ~StopTask(s)
  <2>1. \E h : tasks' = [tasks EXCEPT ![s].held = h]
    BY <1>11 DEF TaskSeesEnd, TaskHandsOver
  <2>2. UNCHANGED <<s2c, up>>
    BY <1>11 DEF TaskSeesEnd, TaskHandsOver, networkVars
  <2> QED BY <1>1, <2>1, <2>2 DEF Same, Task
<1> QED BY <1>5, <1>6, <1>7, <1>8, <1>9, <1>10, <1>11 DEF TaskNext

-----------------------------------------------------------------------------
\* The commands the session enqueues.
Pumps(s, e) ==
    /\ session.pc = "top" /\ s = session.transport
    /\ \E i \in Unsent : /\ \A j \in Unsent : i <= j
                         /\ e = Acp(serverPending[i])
                         /\ serverPending' = [serverPending EXCEPT ![i].sentOn = s]
    /\ UNCHANGED <<session, nextServer>>
SetsUp(s, e) ==
    /\ session.pc = "attach" /\ s = session.attaching
    /\ session.setupAt < SetupLength
    /\ e = SetupEnvelope(session.setupAt)
    /\ serverPending' = IF session.setupAt <= 1 THEN serverPending
                        ELSE [serverPending EXCEPT ![session.setupAt - 1].sentOn = s]
    /\ session' = [session EXCEPT !.setupAt = @ + 1]
    /\ UNCHANGED nextServer
Exits(s, e) ==
    /\ session.pc = "exit" /\ s = session.transport /\ e = Control("exit")
    /\ session' = [session EXCEPT !.pc = "exit_wait", !.sent = "waiting"]
    /\ UNCHANGED <<serverPending, nextServer>>
Replies(s, e) ==
    /\ session.pc = "reply" /\ s = session.transport /\ e = Head(session.outbox)
    /\ session' = [session EXCEPT !.pc = "top", !.outbox = << >>]
    /\ UNCHANGED <<serverPending, nextServer>>
Notes(s, e) ==
    /\ session.pc = "select" /\ s = session.transport
    /\ e = Control("ping") \/ e = Control("stderr")
    /\ session' = [session EXCEPT !.pc = "top"]
    /\ UNCHANGED <<serverPending, nextServer>>
Parts(s, e) ==
    /\ session.pc = "farewell" /\ s = session.transport
    /\ session.outbox # << >> /\ e = Head(session.outbox)
    /\ session' = IF Len(session.outbox) = 1
                    THEN [session EXCEPT !.pc = "farewell_wait",
                                         !.outbox = << >>, !.sent = "waiting"]
                    ELSE [session EXCEPT !.outbox = Tail(@)]
    /\ UNCHANGED <<serverPending, nextServer>>
Says(s, e) == \/ Pumps(s, e) \/ SetsUp(s, e) \/ Exits(s, e)
              \/ Replies(s, e) \/ Notes(s, e) \/ Parts(s, e)

\* A command that is enqueued, for the queues of socket s.
LEMMA EnqueuePipe ==
    ASSUME LinesKeepTheirNumbers, NEW t \in Sockets, NEW e, Enqueue(t, e),
           UNCHANGED networkVars, NEW s \in Sockets
    PROVE  (s = t /\ Pushes(s, e)) \/ (s # t /\ Same(s))
<1>1. /\ tasks \in [Sockets -> Task(ServerEnvelopes, ClientEvents)]
      /\ tasks[s] \in Task(ServerEnvelopes, ClientEvents)
  BY DEF LinesKeepTheirNumbers, ChannelInv
<1> QED BY <1>1 DEF Enqueue, Pushes, Same, Task, networkVars

\* What the session's own steps leave alone, or close.
LEMMA ClosePipe ==
    ASSUME LinesKeepTheirNumbers, SocketInv, SessionNext,
           Detaches \/ TakeAttachment \/ Leaves, NEW s \in Sockets
    PROVE  Same(s) \/ Loses(s)
<1>1. /\ tasks \in [Sockets -> Task(ServerEnvelopes, ClientEvents)]
      /\ NetworkInv /\ tasks[s] \in Task(ServerEnvelopes, ClientEvents)
  BY DEF LinesKeepTheirNumbers, ChannelInv
<1>5. /\ StoppedTask.commands = << >> /\ StoppedTask.writing = << >>
      /\ StartedTask.commands = << >> /\ StartedTask.writing = << >>
  BY DEF StoppedTask, StartedTask, NoTask
<1>2. CASE Detaches
  <2>1. CASE s = session.transport
    <3>1. tasks'[s] = StoppedTask
      BY <1>1, <1>2, <2>1 DEF Detaches
    <3> QED BY <1>1, <1>2, <1>5, <2>1, <3>1, ServerEndCloses DEF Detaches, Loses
  <2>2. CASE s # session.transport
    BY <1>1, <1>2, <2>2, ServerEndCloses DEF Detaches, Same
  <2> QED BY <2>1, <2>2
<1>3. CASE TakeAttachment
  <2>1. CASE s = session.transport
    <3>1. tasks'[s] = StoppedTask \/ tasks'[s] = StartedTask
      BY <1>1, <1>3, <2>1 DEF TakeAttachment
    <3> QED BY <1>1, <1>3, <1>5, <2>1, <3>1, ServerEndCloses DEF TakeAttachment, Loses
  <2>2. CASE s # session.transport /\ s = Head(attachments)
    <3>1. tasks[s] = NoTask
      <4>1. attachments # << >> /\ attachments \in Seq(Sockets)
        BY <1>3 DEF TakeAttachment, LinesKeepTheirNumbers, SessionInv
      <4>2. Head(attachments) = attachments[1] /\ Len(attachments) \in Nat /\ Len(attachments) > 0
        BY <4>1, TailElements
      <4>3. 1 \in 1 .. Len(attachments)
        BY <4>2
      <4> QED BY <2>2, <4>2, <4>3 DEF SocketInv, AttachmentInv, TaskInv, TaskOK
    <3>2. tasks'[s] = StartedTask
      BY <1>3, <2>2 DEF TakeAttachment
    <3>3. up'[s] = up[s] /\ s2c'[s] = s2c[s]
      BY <1>1, <1>3, <2>2, ServerEndCloses DEF TakeAttachment
    <3> QED BY <3>1, <3>2, <3>3 DEF Same, NoTask, StartedTask
  <2>3. CASE s # session.transport /\ s # Head(attachments)
    BY <1>1, <1>3, <2>3, ServerEndCloses DEF TakeAttachment, Same
  <2> QED BY <2>1, <2>2, <2>3
<1>4. CASE Leaves
  <2>1. CASE CloseServerEnd({} \cup Queued) /\ UNCHANGED tasks
    BY <1>1, <2>1, ServerEndCloses DEF Same, Loses
  <2>2. CASE /\ CloseServerEnd({session.transport} \cup Queued)
             /\ tasks' = [t \in Sockets |-> IF t = session.transport
                                                 THEN StoppedTask ELSE tasks[t]]
    <3>1. CASE s \in {session.transport} \cup Queued
      <4>1. tasks'[s] = StoppedTask \/ tasks'[s] = tasks[s]
        BY <1>1, <2>2
      <4> QED BY <1>1, <1>5, <2>2, <3>1, <4>1, ServerEndCloses DEF Loses
    <3>2. CASE s \notin {session.transport} \cup Queued
      BY <1>1, <2>2, <3>2, ServerEndCloses DEF Same
    <3> QED BY <3>1, <3>2
  <2> QED BY <1>4, <2>1, <2>2 DEF Leaves
<1> QED BY <1>2, <1>3, <1>4

\* A step of run_agent_session.
LEMMA SessionPipe ==
    ASSUME LinesKeepTheirNumbers, SocketInv, SessionNext, NEW s \in Sockets
    PROVE  Same(s) \/ Loses(s) \/ \E e : Pushes(s, e) /\ Says(s, e)
<1>1. session \in SessionState(ServerEnvelopes) /\ TransportInv
  BY DEF LinesKeepTheirNumbers, SessionInv, SocketInv
<1>2. CASE PumpReplay
  <2>1. PICK i \in Unsent : /\ \A j \in Unsent : i <= j
                            /\ Enqueue(session.transport, Acp(serverPending[i]))
                            /\ serverPending' = [serverPending EXCEPT
                                                   ![i].sentOn = session.transport]
    BY <1>2 DEF PumpReplay
  <2>2. session.transport \in Sockets /\ UNCHANGED networkVars
    BY <1>1, <1>2 DEF PumpReplay, SessionState
  <2>3. s = session.transport => Pumps(s, Acp(serverPending[i]))
    BY <1>2, <2>1 DEF PumpReplay, Pumps
  <2> QED BY <2>1, <2>2, <2>3, EnqueuePipe DEF Says
<1>3. CASE AttachEnqueues
  <2>1. session.attaching \in Sockets /\ UNCHANGED networkVars
        /\ Enqueue(session.attaching, SetupEnvelope(session.setupAt))
    BY <1>1, <1>3 DEF AttachEnqueues, SessionState, TransportInv
  <2>2. s = session.attaching => SetsUp(s, SetupEnvelope(session.setupAt))
    BY <1>3 DEF AttachEnqueues, SetsUp
  <2> QED BY <2>1, <2>2, EnqueuePipe DEF Says
<1>4. CASE SendExit
  <2>1. session.transport \in Sockets /\ UNCHANGED networkVars
        /\ Enqueue(session.transport, Control("exit"))
    BY <1>1, <1>4 DEF SendExit, SessionState, TransportInv
  <2>2. s = session.transport => Exits(s, Control("exit"))
    BY <1>4 DEF SendExit, Exits, frameVars
  <2> QED BY <2>1, <2>2, EnqueuePipe DEF Says
<1>5. CASE SendReply
  <2>1. CASE UNCHANGED tasks
    BY <1>5, <2>1 DEF SendReply, networkVars, Same
  <2>2. CASE session.transport # NoSocket /\ Enqueue(session.transport, Head(session.outbox))
    <3>1. session.transport \in Sockets /\ UNCHANGED networkVars
      BY <1>1, <1>5, <2>2 DEF SendReply, SessionState
    <3>2. s = session.transport => Replies(s, Head(session.outbox))
      BY <1>5 DEF SendReply, Replies, frameVars
    <3> QED BY <2>2, <3>1, <3>2, EnqueuePipe DEF Says
  <2> QED BY <1>5, <2>1, <2>2 DEF SendReply, TryEnqueue
<1>6. CASE SendNoise
  <2>1. PICK type \in {"ping", "stderr"} : TryEnqueue(session.transport, Control(type))
    BY <1>6 DEF SendNoise
  <2>2. CASE UNCHANGED tasks
    BY <1>6, <2>2 DEF SendNoise, networkVars, Same
  <2>3. CASE session.transport # NoSocket /\ Enqueue(session.transport, Control(type))
    <3>1. session.transport \in Sockets /\ UNCHANGED networkVars
      BY <1>1, <1>6, <2>3 DEF SendNoise, SessionState
    <3>2. s = session.transport => Notes(s, Control(type))
      BY <1>6 DEF SendNoise, Notes, frameVars, Proceed
    <3> QED BY <2>3, <3>1, <3>2, EnqueuePipe DEF Says
  <2> QED BY <2>1, <2>2, <2>3 DEF TryEnqueue
<1>7. CASE SendFarewell
  <2>1. session.transport \in Sockets /\ UNCHANGED networkVars
        /\ Enqueue(session.transport, Head(session.outbox))
    BY <1>1, <1>7 DEF SendFarewell, SessionState, TransportInv
  <2>2. s = session.transport => Parts(s, Head(session.outbox))
    BY <1>7 DEF SendFarewell, Parts, frameVars
  <2> QED BY <2>1, <2>2, EnqueuePipe DEF Says
<1>8. CASE UNCHANGED <<channelVars, networkVars>>
  BY <1>8 DEF channelVars, networkVars, Same
<1>9. CASE TakesEvent
  BY <1>9 DEF TakesEvent, networkVars, Same
<1>10. CASE Detaches \/ TakeAttachment \/ Leaves
  BY <1>10, ClosePipe
<1>11. CASE ReceiveEvent
  <2>1. events # << >> /\ session.pc = "select"
    BY <1>11 DEF ReceiveEvent
  <2>2. CASE Only(Proceed("top"))
    BY <2>2 DEF Only, networkVars, Same
  <2>3. CASE ~Stale(Head(events)) /\ Detach("top") /\ events' = Tail(events)
    <3>1. Head(events) \in ClientEvents
      BY <2>1, HeadIn DEF LinesKeepTheirNumbers, ChannelInv
    <3>2. session.transport # NoSocket
      BY <2>3, <3>1, NetworkAssumption
      DEF Stale, ClientEvents, Event, Sockets, NoSocket
    <3>3. Detaches
      BY <1>1, <2>1, <2>3, <3>2 DEF Detach, Detaches, SessionState
    <3> QED BY <1>10, <3>3
  <2>4. CASE HandleClientEnvelope(Head(events).envelope)
    BY <1>9, <1>10, <2>1, <2>4, HandlingMoves
  <2> QED BY <1>11, <2>2, <2>3, <2>4 DEF ReceiveEvent
<1>12. CASE PumpFindsClosed \/ KeepaliveExpires \/ ExitFails
  <2>1. PICK pc : Detach(pc)
    BY <1>12 DEF PumpFindsClosed, KeepaliveExpires, ExitFails
  <2>2. session.transport # NoSocket /\ UNCHANGED events
    BY <1>1, <1>12 DEF PumpFindsClosed, KeepaliveExpires, ExitFails, TransportInv
  <2>3. Detaches
    BY <1>1, <2>1, <2>2 DEF Detach, Detaches, SessionState
  <2> QED BY <1>10, <2>3
<1>13. CASE EnterSelect \/ Wake \/ ExitConfirmed \/ ServerShutdown \/ GraceExpires
           \/ ChildWait \/ AttachSucceeds \/ AttachFails \/ ReadAgent \/ ReapAgent
  BY <1>8, <1>13 DEF EnterSelect, Wake, ExitConfirmed, ServerShutdown, GraceExpires,
     ChildWait, AttachSucceeds, AttachFails, ReadAgent, ReapAgent
<1>14. CASE EndSession
  BY <1>1, <1>10, <1>14 DEF EndSession, Leave, Leaves, SessionState
<1>15. CASE ReapFails
  BY <1>1, <1>10, <1>15 DEF ReapFails, Abandon, Leave, Leaves, SessionState
<1> QED
  BY <1>2, <1>3, <1>4, <1>5, <1>6, <1>7, <1>10, <1>11, <1>12, <1>13, <1>14, <1>15
  DEF SessionNext

\* A resumed socket that is taken over, refused or dropped.
LEMMA ResumePipe ==
    ASSUME LinesKeepTheirNumbers, OpenInv, NEW t \in Sockets, AcceptResume(t),
           NEW s \in Sockets
    PROVE  /\ Same(s) \/ Loses(s) \/ (s = t /\ Refuses(s))
           /\ s \in Queued' => s \in Queued \/ s2c'[s] = << >>
<1>1. NetworkInv /\ UNCHANGED tasks /\ attachments \in Seq(Sockets)
  BY DEF LinesKeepTheirNumbers, SessionInv, AcceptResume
<1>2. tasks[t].state = "none" /\ s2c[t] = << >> /\ t \notin Queued
  <2>1. /\ c2s[t] # << >> /\ Head(c2s[t]) = Control("open")
        /\ tasks[t].state = "none" /\ c2s[t] \in Seq(ClientEnvelopes)
    BY <1>1 DEF AcceptResume, NetworkInv
  <2>2. Head(c2s[t]) = c2s[t][1] /\ Len(c2s[t]) \in Nat /\ Len(c2s[t]) > 0
    BY <2>1, TailElements
  <2>3. 1 \in 1 .. Len(c2s[t]) /\ c2s[t][1].type = "open"
    BY <2>1, <2>2 DEF Control
  <2> QED BY <2>1, <2>3 DEF OpenInv
<1>3. CASE /\ s2c' = Transmit(s2c, t, Control("error")) /\ UNCHANGED attachments
           /\ up' = [up EXCEPT ![t] = FALSE]
  <2>1. Queued' = Queued
    BY <1>3 DEF Queued
  <2>2. CASE s # t
    BY <1>1, <1>3, <2>1, <2>2 DEF Transmit, Same, NetworkInv
  <2>3. CASE s = t
    <3>1. s2c'[s] = s2c[s] \/ s2c'[s] = Append(s2c[s], Control("error"))
      BY <1>1, <1>3, <2>3 DEF Transmit, NetworkInv
    <3>2. Append(<< >>, Control("error")) = <<Control("error")>>
      OBVIOUS
    <3>3. ~up'[s]
      BY <1>1, <1>3, <2>3 DEF NetworkInv
    <3> QED BY <1>2, <2>1, <2>3, <3>1, <3>2, <3>3 DEF Refuses
  <2> QED BY <2>2, <2>3
<1>4. CASE attachments' = Append(attachments, t) /\ UNCHANGED <<s2c, up>>
  <2>1. /\ Len(attachments') = Len(attachments) + 1 /\ Len(attachments) \in Nat
        /\ \A i \in 1 .. Len(attachments) : attachments'[i] = attachments[i]
        /\ attachments'[Len(attachments) + 1] = t
    BY <1>1, <1>4, EventAppended
  <2>2. \A i \in 1 .. Len(attachments') : i \in 1 .. Len(attachments) \/ i = Len(attachments) + 1
    BY <2>1
  <2>3. s \in Queued' => s \in Queued \/ s = t
    BY <2>1, <2>2 DEF Queued
  <2> QED BY <1>1, <1>2, <1>4, <2>3 DEF Same
<1>5. CASE CloseServerEnd({t}) /\ UNCHANGED attachments
  <2>1. Queued' = Queued
    BY <1>5 DEF Queued
  <2> QED BY <1>1, <1>5, <2>1, ServerEndCloses DEF Same, Loses
<1> QED BY <1>3, <1>4, <1>5 DEF AcceptResume

\* The network loses a socket.
LEMMA NetworkPipe ==
    ASSUME LinesKeepTheirNumbers, NetworkStep, NEW s \in Sockets
    PROVE  Same(s) \/ Loses(s)
<1>1. NetworkInv /\ UNCHANGED tasks
  BY DEF LinesKeepTheirNumbers, NetworkStep, serverVars, channelVars
<1>2. PICK t \in Sockets : LinkFails(t)
  BY DEF NetworkStep
<1> QED BY <1>1, <1>2, LinkCloses DEF Same, Loses

\* The connector takes the first envelope of its socket.
Takes(s) == /\ s2c[s] # << >> /\ s2c'[s] = Tail(s2c[s]) /\ up'[s] = up[s]
            /\ tasks'[s].writing = tasks[s].writing
            /\ tasks'[s].commands = tasks[s].commands

\* A step of the connector that keeps its socket.
LEMMA ConnectorPipe ==
    ASSUME LinesKeepTheirNumbers, ConnectedInv, ConnectorStep, NEW s \in Sockets,
           s = client.socket, client'.socket = s
    PROVE  \/ /\ Same(s) /\ (client'.pc = "await" <=> client.pc = "await")
              /\ UNCHANGED <<expectedServer, stdout>>
           \/ /\ Takes(s) /\ client'.pc # "await"
              /\ \/ /\ client.pc = "await" /\ Head(s2c[s]) = Control("ready")
                    /\ UNCHANGED expectedServer
                 \/ /\ client.pc = "select" /\ Head(s2c[s]).type # "error"
                    /\ Head(s2c[s]).type = "acp" => Head(s2c[s]).sequence < expectedServer'
                 \/ client.pc = "wait_complete" /\ UNCHANGED expectedServer
<1>1. /\ client \in ClientState(ClientEnvelopes) /\ UNCHANGED tasks /\ NetworkInv
      /\ NoSocket \notin Sockets /\ s2c[s] \in Seq(Envelopes)
  BY PipeTypes, NetworkAssumption
  DEF LinesKeepTheirNumbers, ConnectorInv, ConnectorStep, serverVars, channelVars,
      Sockets, NoSocket
<1>2. ASSUME NEW r, Return(r) PROVE FALSE
  BY <1>1, <1>2 DEF Return, ClientState
<1>3. ASSUME Redial PROVE FALSE
  BY <1>1, <1>3 DEF Redial, ClientState
<1>4. ASSUME NEW e, Put(e) PROVE Same(s)
  BY <1>1, <1>4 DEF Put, Same
<1>5. ASSUME HasIncoming, Consume PROVE Takes(s)
  BY <1>1, <1>5 DEF HasIncoming, Consume, Arrives, Takes, NetworkInv
<1>6. ASSUME UNCHANGED networkVars PROVE Same(s)
  BY <1>1, <1>6 DEF networkVars, Same
<1>7. ASSUME NEW e, Send(e) PROVE client'.pc = "send"
  BY <1>1, <1>7 DEF Send, ClientState
<1>8. ASSUME NEW pc, Continue(pc) PROVE client'.pc = pc
  BY <1>1, <1>8 DEF Continue, ClientState
<1>9. CASE ReadStdin
  BY <1>2, <1>6, <1>7, <1>9 DEF ReadStdin
<1>10. CASE StartShutdown \/ FinishReplay \/ Signal
  BY <1>1, <1>6, <1>10 DEF StartShutdown, FinishReplay, Signal, ClientState, streamVars
<1>11. CASE Receive
  <2>1. client.pc = "select" /\ HasIncoming /\ Incoming = Head(s2c[s])
    BY <1>11 DEF Receive, Incoming
  <2>2. CASE ReceiveAcp(Incoming)
    <3>1. Consume /\ client'.pc = "send" /\ Incoming.type = "acp"
          /\ expectedServer' = ExpectedAfter(Incoming.sequence)
          /\ ~(Incoming.sequence > expectedServer)
      BY <1>2, <1>7, <2>2 DEF ReceiveAcp
    <3>2. Incoming.sequence \in Nat /\ expectedServer \in Nat
      <4>1. Incoming \in Envelopes
        BY <1>1, <2>1, HeadIn DEF HasIncoming, Arrives
      <4> QED BY <3>1, <4>1, AcpType, Expected
    <3>3. Incoming.sequence < expectedServer'
      BY <3>1, <3>2 DEF ExpectedAfter
    <3> QED BY <1>5, <2>1, <3>1, <3>3
  <2>3. CASE ReceiveAck(Incoming)
    <3>1. Consume /\ client'.pc = "select" /\ Incoming.type = "ack"
      BY <1>2, <1>8, <2>3 DEF ReceiveAck
    <3> QED BY <1>5, <2>1, <3>1
  <2>4. CASE ReceiveControl(Incoming)
    <3>1. Consume /\ client'.pc \in {"select", "send"}
          /\ Incoming.type \in ControlTypes \ {"error"}
      BY <1>2, <1>7, <1>8, <2>4 DEF ReceiveControl
    <3> QED BY <1>5, <2>1, <3>1 DEF ControlTypes
  <2> QED BY <1>11, <2>2, <2>3, <2>4 DEF Receive
<1>12. CASE WriteOutgoing
  BY <1>1, <1>4, <1>12 DEF WriteOutgoing, ClientState, streamVars
<1>13. CASE LoseSocket \/ KeepaliveTimeout \/ AbandonAttempt \/ GiveUp
  BY <1>2, <1>3, <1>13 DEF LoseSocket, KeepaliveTimeout, AbandonAttempt, GiveUp
<1>14. CASE ReceiveReady
  <2>1. /\ client.pc = "await" /\ HasIncoming /\ UNCHANGED expectedServer
    BY <1>14 DEF ReceiveReady, streamVars
  <2>2. /\ Incoming = Control("ready") /\ Consume
        /\ client' = [client EXCEPT !.pc = IF client.closing THEN "send_shutdown" ELSE "replay",
                                    !.replayAt = ReplayFrom]
    BY <1>3, <1>14 DEF ReceiveReady
  <2>3. client'.pc # "await"
    BY <1>1, <2>2 DEF ClientState
  <2> QED BY <1>5, <2>1, <2>2, <2>3 DEF Incoming
<1>15. CASE ShutdownWhileDetached \/ ConnectorDies
  BY <1>1, <1>15 DEF ShutdownWhileDetached, ConnectorDies, ClientState
<1>16. CASE ReplayFrame
  BY <1>1, <1>4, <1>16 DEF ReplayFrame, ClientState, streamVars
<1>17. CASE SendShutdown
  BY <1>4, <1>8, <1>17 DEF SendShutdown, streamVars
<1>18. CASE AwaitComplete
  <2>1. client.pc = "wait_complete" /\ HasIncoming /\ UNCHANGED expectedServer
    BY <1>18 DEF AwaitComplete, streamVars
  <2>2. CASE Continue("wait_complete") /\ Consume
    BY <1>5, <1>8, <2>1, <2>2
  <2>3. CASE /\ s2c' = [s2c EXCEPT ![client.socket] = Tail(@)]
             /\ UNCHANGED <<client, up, faults>>
    BY <1>1, <2>1, <2>3 DEF Takes, HasIncoming, Arrives, NetworkInv
  <2> QED BY <1>2, <1>18, <2>2, <2>3 DEF AwaitComplete
<1>19. CASE Dial
  BY <1>1, <1>19 DEF Dial, ConnectedInv
<1> QED
  BY <1>9, <1>10, <1>11, <1>12, <1>13, <1>14, <1>15, <1>16, <1>17, <1>18, <1>19
  DEF ConnectorStep, ConnectorNext

\* A new socket of the connector.
LEMMA NewSocket ==
    ASSUME LinesKeepTheirNumbers, SocketInv, ConnectorStep, NEW s \in Sockets,
           s # client.socket, client'.socket = s
    PROVE  /\ Dial /\ Fresh(s) /\ client'.pc = "await" /\ s > 1
           /\ s \notin {session.transport, session.attaching}
           /\ s2c'[s] = << >> /\ UNCHANGED serverVars
           /\ c2s'[s] = <<Control("open")>> /\ up'[s]
<1>1. /\ client \in ClientState(ClientEnvelopes) /\ NoSocket \notin Sockets /\ NetworkInv
      /\ client.dialled \in Sockets
  BY NetworkAssumption DEF LinesKeepTheirNumbers, ConnectorInv, Sockets, NoSocket, ClientState
<1>2. Dial
  BY <1>1, ConnectorMoves DEF SocketInv
<1>3. s = client.dialled + 1 /\ client'.pc = "await"
      /\ c2s' = [c2s EXCEPT ![s] = <<Control("open")>>]
      /\ up' = [up EXCEPT ![s] = TRUE] /\ UNCHANGED s2c
  BY <1>1, <1>2 DEF Dial, ClientState
<1>4. s > client.dialled /\ s > 1
  BY <1>1, <1>3 DEF Sockets
<1>5. Fresh(s)
  BY <1>4 DEF SocketInv, FreshInv
<1>6. s \notin {session.transport, session.attaching}
  BY <1>1, <1>5 DEF SocketInv, TransportInv, Fresh, NoTask
<1> QED BY <1>1, <1>2, <1>3, <1>4, <1>5, <1>6 DEF Fresh, ConnectorStep, NetworkInv

-----------------------------------------------------------------------------
(* What the session is about to say, and where it is with a new transport. *)

\* A reply is an acknowledgement or a pong; a farewell is one of Farewell's.
OutboxInv ==
    /\ session.pc \notin {"reply", "farewell"} => session.outbox = << >>
    /\ session.pc = "reply" =>
         Head(session.outbox).type \in {"ack", "pong"} /\ Len(session.outbox) = 1
    /\ session.pc = "farewell" =>
         session.outbox \in {<< >>, <<Control("shutdown_complete")>>, <<Control("exit")>>,
                             <<Control("error"), Control("exit")>>}

\* handle_client_envelope leaves at most a reply to send.
LEMMA HandlingOutbox ==
    ASSUME LinesKeepTheirNumbers, OutboxInv, NEW e, HandleClientEnvelope(e),
           session.pc = "select"
    PROVE  OutboxInv'
<1>1. session \in SessionState(ServerEnvelopes) /\ session.outbox = << >>
  BY DEF LinesKeepTheirNumbers, SessionInv, OutboxInv
<1>2. ASSUME NEW c, Abandon(c) PROVE OutboxInv'
  BY <1>1, <1>2 DEF Abandon, Leave, SessionState, OutboxInv
<1>3. ASSUME NEW c, Only(EndLoop(c)) \/ Only(Proceed("top")) PROVE OutboxInv'
  BY <1>1, <1>3 DEF Only, EndLoop, Proceed, SessionState, OutboxInv
<1>4. ASSUME NEW r, Reply(r), r.type \in {"ack", "pong"} PROVE OutboxInv'
  <2>1. Head(<<r>>) = r /\ Len(<<r>>) = 1
    OBVIOUS
  <2> QED BY <1>1, <1>4, <2>1 DEF Reply, SessionState, OutboxInv
<1>5. /\ \A n : Ack("client_to_server", n).type = "ack"
      /\ Control("pong").type = "pong"
  BY DEF Ack, Control
<1>6. CASE HandleAcp(e)
  BY <1>2, <1>3, <1>4, <1>5, <1>6 DEF HandleAcp, ForwardLine, RejectLine, Accept
<1>7. CASE HandleAck(e)
  BY <1>1, <1>7 DEF HandleAck, Proceed, SessionState, OutboxInv
<1>8. CASE HandleControl(e)
  <2>1. CASE Only(session' = [session EXCEPT !.pc = "reap",
                                !.endCategory = "client_shutdown",
                                !.registered = FALSE])
    BY <1>1, <2>1 DEF Only, SessionState, OutboxInv
  <2> QED BY <1>3, <1>4, <1>5, <1>8, <2>1 DEF HandleControl
<1> QED BY <1>3, <1>6, <1>7, <1>8 DEF HandleClientEnvelope

\* Every other step of the session.
LEMMA SessionOutbox ==
    ASSUME LinesKeepTheirNumbers, OutboxInv, SessionNext
    PROVE  OutboxInv'
<1>1. session \in SessionState(ServerEnvelopes)
  BY DEF LinesKeepTheirNumbers, SessionInv
<1>2. ASSUME NEW pc \in {"top", "select"}, Detach(pc), session.outbox = << >>
      PROVE  OutboxInv'
  BY <1>1, <1>2 DEF Detach, SessionState, OutboxInv
<1>3. CASE ReceiveEvent
  <2>1. session.pc = "select" /\ session.outbox = << >>
    BY <1>3 DEF ReceiveEvent, OutboxInv
  <2>2. CASE Only(Proceed("top"))
    BY <1>1, <2>1, <2>2 DEF Only, Proceed, SessionState, OutboxInv
  <2>3. CASE Detach("top")
    BY <1>2, <2>1, <2>3
  <2>4. CASE HandleClientEnvelope(Head(events).envelope)
    BY <2>1, <2>4, HandlingOutbox
  <2> QED BY <1>3, <2>2, <2>3, <2>4 DEF ReceiveEvent
<1>4. CASE PumpFindsClosed \/ KeepaliveExpires \/ ExitFails
  BY <1>2, <1>4 DEF PumpFindsClosed, KeepaliveExpires, ExitFails, OutboxInv
<1>5. CASE EnterSelect \/ Wake
  BY <1>1, <1>5 DEF EnterSelect, Wake, Proceed, SessionState, OutboxInv
<1>6. CASE ExitConfirmed \/ ServerShutdown \/ GraceExpires
  BY <1>1, <1>6 DEF ExitConfirmed, ServerShutdown, GraceExpires, EndLoop, SessionState, OutboxInv
<1>7. CASE ChildWait \/ TakeAttachment
  BY <1>1, <1>7 DEF ChildWait, TakeAttachment, SessionState, OutboxInv
<1>8. CASE AttachEnqueues \/ AttachSucceeds \/ AttachFails
  BY <1>1, <1>8 DEF AttachEnqueues, AttachSucceeds, AttachFails, AfterFailedAttach,
     SessionState, OutboxInv
<1>9. CASE ReadAgent
  BY <1>1, <1>9 DEF ReadAgent, EndLoop, Proceed, SessionState, OutboxInv
<1>10. CASE PumpReplay \/ SendNoise
  BY <1>1, <1>10 DEF PumpReplay, SendNoise, Proceed, SessionState, OutboxInv
<1>11. CASE SendExit \/ SendReply
  BY <1>1, <1>11 DEF SendExit, SendReply, SessionState, OutboxInv
<1>12. CASE ReapAgent
  <2>1. session'.pc = "farewell" /\ session'.outbox = Farewell
    BY <1>1, <1>12 DEF ReapAgent, SessionState
  <2>2. Farewell \in {<< >>, <<Control("shutdown_complete")>>,
                      <<Control("error"), Control("exit")>>}
    <3>1. CASE \/ session.transport = NoSocket
               \/ session.endCategory \in {"child_exit", "reconnect_timeout"}
      BY <3>1 DEF Farewell
    <3>2. CASE /\ session.transport # NoSocket
               /\ session.endCategory = "client_shutdown"
      BY <3>2 DEF Farewell
    <3>3. CASE /\ session.transport # NoSocket
               /\ session.endCategory \notin {"child_exit", "reconnect_timeout", "client_shutdown"}
      BY <3>3 DEF Farewell
    <3> QED BY <3>1, <3>2, <3>3
  <2> QED BY <2>1, <2>2 DEF OutboxInv
<1>13. CASE SendFarewell
  <2>1. session.pc = "farewell" /\ session.outbox # << >>
    BY <1>13 DEF SendFarewell
  <2>2. CASE Len(session.outbox) = 1
    BY <1>1, <1>13, <2>2 DEF SendFarewell, SessionState, OutboxInv
  <2>3. CASE Len(session.outbox) # 1
    <3>1. session'.pc = "farewell" /\ session'.outbox = Tail(session.outbox)
      BY <1>1, <1>13, <2>1, <2>3 DEF SendFarewell, SessionState
    <3>2. session.outbox = <<Control("error"), Control("exit")>>
      <4>1. \A e : Len(<<e>>) = 1
        OBVIOUS
      <4> QED BY <2>1, <2>3, <4>1 DEF OutboxInv
    <3>3. Tail(<<Control("error"), Control("exit")>>) = <<Control("exit")>>
      OBVIOUS
    <3> QED BY <3>1, <3>2, <3>3 DEF OutboxInv
  <2> QED BY <2>2, <2>3
<1>14. CASE EndSession \/ ReapFails
  BY <1>1, <1>14 DEF EndSession, ReapFails, Abandon, Leave, SessionState, OutboxInv
<1> QED
  BY <1>3, <1>4, <1>5, <1>6, <1>7, <1>8, <1>9, <1>10, <1>11, <1>12, <1>13, <1>14
  DEF SessionNext

\* A session that took s and has not announced it yet.
Attached(s) == s = session.attaching /\ session.setupAt = 0

\* The session takes the first of the sockets that wait for it.
LEMMA QueuedTail ==
    ASSUME LinesKeepTheirNumbers, attachments # << >>, attachments' = Tail(attachments)
    PROVE  Queued' \subseteq Queued /\ Head(attachments) \in Queued /\ Head(attachments) \in Sockets
<1>1. attachments \in Seq(Sockets)
  BY DEF LinesKeepTheirNumbers, SessionInv
<1>2. /\ Len(Tail(attachments)) = Len(attachments) - 1 /\ Len(attachments) \in Nat
      /\ Len(attachments) > 0
      /\ \A i \in 1 .. Len(Tail(attachments)) :
           i + 1 \in 1 .. Len(attachments) /\ Tail(attachments)[i] = attachments[i + 1]
      /\ Head(attachments) = attachments[1]
  BY <1>1, TailElements
<1>3. 1 \in 1 .. Len(attachments)
  BY <1>2
<1>4. Head(attachments) \in Sockets
  BY <1>1, HeadIn
<1> QED BY <1>2, <1>3, <1>4 DEF Queued

\* Sockets come to the session through attachments only.
LEMMA SessionTakes ==
    ASSUME LinesKeepTheirNumbers, SocketInv, SessionNext, NEW s \in Sockets
    PROVE  /\ s \in Queued' => s \in Queued
           /\ tasks'[s].state = "none" => tasks[s].state = "none"
           /\ s = session'.transport => s \in {session.transport, session.attaching}
           /\ s = session'.attaching =>
                s = session.attaching \/ (s \in Queued /\ tasks[s] = NoTask)
           /\ Attached(s)' => Attached(s) \/ (s \in Queued /\ tasks[s] = NoTask)
<1>1. session \in SessionState(ServerEnvelopes) /\ TransportInv
      /\ tasks \in [Sockets -> Task(ServerEnvelopes, ClientEvents)]
      /\ tasks[s] \in Task(ServerEnvelopes, ClientEvents)
      /\ attachments \in Seq(Sockets) /\ NoSocket \notin Sockets
  BY NetworkAssumption
  DEF LinesKeepTheirNumbers, SessionInv, SocketInv, ChannelInv, Sockets, NoSocket
<1>2. ASSUME s \in Queued PROVE tasks[s] = NoTask
  BY <1>2 DEF Queued, SocketInv, AttachmentInv, TaskInv, TaskOK
<1>3. s \in Queued' => s \in Queued
  <2>1. CASE UNCHANGED attachments
    BY <2>1 DEF Queued
  <2>2. CASE TakeAttachment
    BY <2>2, QueuedTail DEF TakeAttachment
  <2>3. CASE Leaves
    BY <2>3 DEF Leaves, Queued
  <2> QED BY <1>1, <2>1, <2>2, <2>3, SessionMoves
          DEF Enqueues, TakesEvent, Detaches, channelVars
<1>4. tasks'[s].state = "none" => tasks[s].state = "none"
  <2>1. CASE UNCHANGED tasks
    BY <2>1
  <2>2. ASSUME NEW t \in Sockets, NEW e, Enqueue(t, e) PROVE tasks'[s].state = tasks[s].state
    BY <1>1, <2>2 DEF Enqueue, Task
  <2>3. StoppedTask.state # "none" /\ StartedTask.state # "none"
    BY DEF StoppedTask, StartedTask, NoTask
  <2>4. CASE Detaches
    BY <1>1, <2>3, <2>4 DEF Detaches
  <2>5. CASE TakeAttachment
    BY <1>1, <2>3, <2>5 DEF TakeAttachment
  <2>6. CASE Leaves
    BY <1>1, <2>3, <2>6 DEF Leaves
  <2> QED BY <1>1, <2>1, <2>2, <2>4, <2>5, <2>6, SessionMoves
          DEF Enqueues, TakesEvent, channelVars
<1>5. CASE TakeAttachment
  <2>1. session'.attaching = Head(attachments) /\ session'.transport = NoSocket
    BY <1>1, <1>5 DEF TakeAttachment, SessionState
  <2>2. Head(attachments) \in Queued
    BY <1>5, QueuedTail DEF TakeAttachment
  <2> QED BY <1>1, <1>2, <1>3, <1>4, <2>1, <2>2 DEF Attached
<1> DEFINE Goal == /\ s = session'.transport => s \in {session.transport, session.attaching}
                   /\ s = session'.attaching => s = session.attaching
                   /\ Attached(s)' => Attached(s)
<1>6. CASE UNCHANGED <<session.transport, session.attaching, session.setupAt>>
  <2>1. Goal
    BY <1>6 DEF Attached
  <2> QED BY <1>3, <1>4, <2>1
<1>7. ASSUME NEW pc, Detach(pc) PROVE Goal
  BY <1>1, <1>7 DEF Detach, SessionState, Attached
<1>8. ASSUME NEW c, NEW S, Leave(c, S) PROVE Goal
  BY <1>1, <1>8 DEF Leave, SessionState, Attached
<1>9. CASE ReceiveEvent
  <2>1. ASSUME NEW p, session' = [session EXCEPT !.pc = p]
        PROVE  UNCHANGED <<session.transport, session.attaching, session.setupAt>>
    BY <1>1, <2>1 DEF SessionState
  <2>2. ASSUME NEW p, NEW c, session' = [session EXCEPT !.pc = p, !.endCategory = c]
        PROVE  UNCHANGED <<session.transport, session.attaching, session.setupAt>>
    BY <1>1, <2>2 DEF SessionState
  <2>3. ASSUME NEW p, NEW c, session' = [session EXCEPT !.pc = p, !.outbox = c]
        PROVE  UNCHANGED <<session.transport, session.attaching, session.setupAt>>
    BY <1>1, <2>3 DEF SessionState
  <2>4. ASSUME NEW p, NEW c, session' = [session EXCEPT !.pc = p, !.endCategory = c,
                                                        !.registered = FALSE]
        PROVE  UNCHANGED <<session.transport, session.attaching, session.setupAt>>
    BY <1>1, <2>4 DEF SessionState
  <2>5. \/ \E pc : Detach(pc)
        \/ \E c, S : Leave(c, S)
        \/ \E p : session' = [session EXCEPT !.pc = p]
        \/ \E p, c : session' = [session EXCEPT !.pc = p, !.endCategory = c]
        \/ \E p, c : session' = [session EXCEPT !.pc = p, !.outbox = c]
        \/ \E p, c : session' = [session EXCEPT !.pc = p, !.endCategory = c,
                                                !.registered = FALSE]
    <3>1. CASE Stale(Head(events)) \/ Detach("top")
      BY <1>9, <3>1 DEF ReceiveEvent, Only, Proceed
    <3>2. CASE HandleAcp(Head(events).envelope)
      BY <3>2 DEF HandleAcp, ForwardLine, RejectLine, Accept, Abandon, Reply, Only, EndLoop
    <3>3. CASE HandleAck(Head(events).envelope)
      BY <3>3 DEF HandleAck, Proceed
    <3>4. CASE HandleControl(Head(events).envelope)
      BY <3>4 DEF HandleControl, Reply, Only, Proceed
    <3>5. CASE \E c : Only(EndLoop(c))
      BY <3>5 DEF Only, EndLoop
    <3> QED BY <1>9, <3>1, <3>2, <3>3, <3>4, <3>5 DEF ReceiveEvent, HandleClientEnvelope
  <2> QED BY <1>3, <1>4, <1>6, <1>7, <1>8, <2>1, <2>2, <2>3, <2>4, <2>5
<1>10. CASE EnterSelect \/ Wake \/ PumpReplay \/ SendNoise
  BY <1>1, <1>6, <1>10 DEF EnterSelect, Wake, PumpReplay, SendNoise, Proceed, SessionState
<1>11. CASE ExitConfirmed \/ ServerShutdown \/ GraceExpires \/ ChildWait
  BY <1>1, <1>6, <1>11 DEF ExitConfirmed, ServerShutdown, GraceExpires, EndLoop, ChildWait, SessionState
<1>12. CASE ReadAgent \/ SendExit \/ SendReply
  BY <1>1, <1>6, <1>12 DEF ReadAgent, EndLoop, Proceed, SendExit, SendReply, SessionState
<1>13. CASE ReapAgent \/ SendFarewell
  <2>1. CASE ReapAgent
    BY <1>1, <1>6, <2>1 DEF ReapAgent, SessionState
  <2>2. CASE SendFarewell
    BY <1>1, <1>6, <2>2 DEF SendFarewell, SessionState
  <2> QED BY <1>13, <2>1, <2>2
<1>14. CASE AttachEnqueues
  <2>1. Goal
    <3>1. session'.transport = session.transport /\ session'.attaching = session.attaching
          /\ session'.setupAt = session.setupAt + 1 /\ session.setupAt \in Nat
      BY <1>1, <1>14 DEF AttachEnqueues, SessionState
    <3> QED BY <3>1 DEF Attached
  <2> QED BY <1>3, <1>4, <2>1
<1>15. CASE AttachSucceeds \/ AttachFails
  <2>1. Goal
    BY <1>1, <1>15 DEF AttachSucceeds, AttachFails, AfterFailedAttach, SessionState, Attached
  <2> QED BY <1>3, <1>4, <2>1
<1>16. CASE PumpFindsClosed \/ KeepaliveExpires \/ ExitFails
  <2>1. Goal
    BY <1>7, <1>16 DEF PumpFindsClosed, KeepaliveExpires, ExitFails
  <2> QED BY <1>3, <1>4, <2>1
<1>17. CASE EndSession \/ ReapFails
  <2>1. Goal
    BY <1>8, <1>17 DEF EndSession, ReapFails, Abandon
  <2> QED BY <1>3, <1>4, <2>1
<1> QED
  BY <1>5, <1>9, <1>10, <1>11, <1>12, <1>13, <1>14, <1>15, <1>16, <1>17
  DEF SessionNext

-----------------------------------------------------------------------------
(* `ready` is the first thing the connector reads on a resumed socket, and *)
(* it is there once.                                                       *)

\* Before the session has announced socket s nothing but `error` is on its
\* way on it, and the connector waits for `ready`.
Quiet(s) ==
    /\ s \in Queued \/ Attached(s) => s2c[s] = << >>
    /\ Attached(s) => tasks[s].commands = << >> /\ tasks[s].writing = << >>
    /\ tasks[s].state = "none" => Without("ready", s2c[s])
    /\ tasks[s].state = "none" \/ Attached(s) => client.pc = "await"
QuietInv == \A s \in Sockets : s = client.socket => Quiet(s)

\* `ready` can only come first, and not once the connector has read it.
ReadyOnce(s) ==
    IF client.pc = "await"
      THEN /\ s2c[s] # << >> => Without("ready", Tail(s2c[s]))
           /\ up[s] => OnlyFirst("ready", s2c[s], tasks[s].writing, tasks[s].commands)
      ELSE /\ Without("ready", s2c[s])
           /\ up[s] => /\ Without("ready", tasks[s].writing)
                       /\ Without("ready", tasks[s].commands)
ReadyInv == \A s \in Sockets : s = client.socket => ReadyOnce(s)

\* Every move of the queues to the connector but its own.
PipeMove(s) == \/ Same(s) \/ Loses(s) \/ Finishes(s) \/ Refuses(s)
               \/ Blocks(s) \/ Emits(s) \/ \E e : Pushes(s, e) /\ Says(s, e)

\* What is enqueued is an envelope.
LEMMA PushedEnvelope ==
    ASSUME LinesKeepTheirNumbers, LinesKeepTheirNumbers', NEW s \in Sockets, NEW e, Pushes(s, e)
    PROVE  e \in Envelopes
<1>1. tasks'[s].commands \in Seq(Envelopes) /\ tasks[s].commands \in Seq(Envelopes)
  <2>1. (tasks[s].commands \in Seq(Envelopes))'
    BY PipeTypes, PTL
  <2> QED BY <2>1, PipeTypes
<1>2. /\ Len(tasks'[s].commands) = Len(tasks[s].commands) + 1 /\ Len(tasks[s].commands) \in Nat
      /\ tasks'[s].commands[Len(tasks[s].commands) + 1] = e
  BY <1>1, EventAppended DEF Pushes
<1>3. Len(tasks[s].commands) + 1 \in 1 .. Len(tasks'[s].commands)
  BY <1>2
<1> QED BY <1>1, <1>2, <1>3, ElementOfSeq

\* `ready` is enqueued by attach_transport alone, and first.
LEMMA ReadySaid ==
    ASSUME OutboxInv, NEW s, NEW e, Says(s, e), e.type = "ready"
    PROVE  Attached(s) /\ SetsUp(s, e)
<1>1. \A f : Acp(f).type # "ready"
  BY DEF Acp
<1>2. \A n : Ack("client_to_server", n).type # "ready"
  BY DEF Ack
<1>3. \A type \in {"exit", "ping", "stderr", "shutdown_complete", "error"} :
        Control(type).type # "ready"
  BY DEF Control
<1>4. ~Pumps(s, e) /\ ~Exits(s, e) /\ ~Replies(s, e) /\ ~Notes(s, e)
  BY <1>1, <1>3 DEF Pumps, Exits, Replies, Notes, OutboxInv
<1>5. ~Parts(s, e)
  <2>1. /\ Head(<<Control("shutdown_complete")>>) = Control("shutdown_complete")
        /\ Head(<<Control("exit")>>) = Control("exit")
        /\ Head(<<Control("error"), Control("exit")>>) = Control("error")
    OBVIOUS
  <2> QED BY <1>3, <2>1 DEF Parts, OutboxInv
<1>6. SetsUp(s, e)
  BY <1>4, <1>5 DEF Says
<1>7. session.setupAt = 0
  BY <1>1, <1>2, <1>6 DEF SetsUp, SetupEnvelope
<1> QED BY <1>6, <1>7 DEF Attached, SetsUp

\* Every step but the connector's own keeps `ready` first.
LEMMA ReadyMoves ==
    ASSUME LinesKeepTheirNumbers, LinesKeepTheirNumbers', OutboxInv, NEW s \in Sockets,
           Quiet(s), ReadyOnce(s), PipeMove(s), UNCHANGED client
    PROVE  ReadyOnce(s)'
<1> DEFINE a == s2c[s]
           b == tasks[s].writing
           c == tasks[s].commands
           a2 == s2c'[s]
           b2 == tasks'[s].writing
           c2 == tasks'[s].commands
<1>1. a \in Seq(Envelopes) /\ b \in Seq(Envelopes) /\ c \in Seq(Envelopes)
  BY PipeTypes
<1>2. ReadyOnce(s)' <=>
        IF client.pc = "await"
          THEN /\ a2 # << >> => Without("ready", Tail(a2))
               /\ up'[s] => OnlyFirst("ready", a2, b2, c2)
          ELSE /\ Without("ready", a2)
               /\ up'[s] => Without("ready", b2) /\ Without("ready", c2)
  BY DEF ReadyOnce
<1>3. ReadyOnce(s) <=>
        IF client.pc = "await"
          THEN /\ a # << >> => Without("ready", Tail(a))
               /\ up[s] => OnlyFirst("ready", a, b, c)
          ELSE /\ Without("ready", a)
               /\ up[s] => Without("ready", b) /\ Without("ready", c)
  BY DEF ReadyOnce
<1>4. CASE Same(s)
  BY <1>2, <1>3, <1>4 DEF Same
<1>5. CASE Loses(s)
  <2>1. Cut(a2, a) /\ ~up'[s]
    BY <1>5 DEF Loses
  <2> HIDE DEF a, a2
  <2>2. CASE client.pc = "await"
    BY <1>1, <1>2, <1>3, <2>1, <2>2, FirstCut
  <2>3. CASE client.pc # "await"
    BY <1>1, <1>2, <1>3, <2>1, <2>3, WithoutCut
  <2> QED BY <2>2, <2>3
<1>6. CASE Finishes(s)
  <2>1. PICK e \in Envelopes : e.type = "shutdown_complete" /\ Cut(a2, Append(a, e))
    BY <1>6 DEF Finishes
  <2>2. ~up'[s]
    BY <1>6 DEF Finishes
  <2>3. Append(a, e) \in Seq(Envelopes)
    BY <1>1, AppendIn
  <2> HIDE DEF a, a2
  <2>4. CASE client.pc = "await"
    <3>1. Append(a, e) # << >> => Without("ready", Tail(Append(a, e)))
      <4>1. CASE a = << >>
        <5>1. Tail(Append(a, e)) = << >>
          BY <4>1
        <5> QED BY <5>1, WithoutEmpty
      <4>2. CASE a # << >>
        <5>1. Tail(Append(a, e)) = Append(Tail(a), e) /\ Tail(a) \in Seq(Envelopes)
          BY <1>1, <4>2, HeadIn
        <5>2. Without("ready", Tail(a)) /\ e.type # "ready"
          BY <1>3, <2>1, <2>4, <4>2
        <5>3. Without("ready", Append(Tail(a), e))
          BY <5>1, <5>2, WithoutAppend
        <5> QED BY <5>1, <5>3
      <4> QED BY <4>1, <4>2
    <3> QED BY <1>2, <2>1, <2>2, <2>3, <2>4, <3>1, FirstCut
  <2>5. CASE client.pc # "await"
    <3>1. Without("ready", Append(a, e))
      BY <1>1, <1>3, <2>1, <2>5, WithoutAppend
    <3> QED BY <1>2, <2>1, <2>2, <2>3, <2>5, <3>1, WithoutCut
  <2> QED BY <2>4, <2>5
<1>7. CASE Refuses(s)
  <2>1. client.pc = "await" /\ ~up'[s]
    BY <1>7 DEF Refuses, Quiet
  <2>2. a2 = << >> \/ a2 = <<Control("error")>>
    BY <1>7 DEF Refuses
  <2>3. Tail(<<Control("error")>>) = << >>
    OBVIOUS
  <2> QED BY <1>2, <2>1, <2>2, <2>3, WithoutEmpty
<1>8. CASE Blocks(s)
  <2>1. /\ up'[s] = up[s] /\ a2 = a /\ b = << >> /\ c # << >>
        /\ b2 = <<Head(c)>> /\ c2 = Tail(c)
    BY <1>8 DEF Blocks
  <2> HIDE DEF a, b, c, a2, b2, c2
  <2>2. up[s] /\ client.pc = "await" => OnlyFirst("ready", a2, b2, c2)
    BY <1>1, <1>3, <2>1, FirstBlock
  <2>3. up[s] /\ client.pc # "await" => Without("ready", b2) /\ Without("ready", c2)
    BY <1>1, <1>3, <2>1, WithoutTail, WithoutOne
  <2> QED BY <1>2, <1>3, <2>1, <2>2, <2>3
<1>9. CASE Emits(s)
  <2> DEFINE e == Current(s)
  <2>1. /\ up[s] /\ a2 = Append(a, e) /\ b2 = << >>
        /\ \/ b = <<e>> /\ c2 = c
           \/ b = << >> /\ c # << >> /\ e = Head(c) /\ c2 = Tail(c)
    BY <1>9 DEF Emits
  <2> HIDE DEF a, b, c, a2, b2, c2, e
  <2>2. Tail(c) \in Seq(Envelopes) \/ c = << >>
    BY <1>1, HeadIn
  <2>3. CASE client.pc = "await"
    <3>1. OnlyFirst("ready", a, <<e>>, c2)
      BY <1>1, <1>3, <2>1, <2>3, FirstBlock
    <3>2. OnlyFirst("ready", a2, b2, c2)
      BY <1>1, <2>1, <2>2, <3>1, FirstEmit
    <3> QED BY <1>2, <2>3, <3>2 DEF OnlyFirst
  <2>4. CASE client.pc # "await"
    <3>1. e.type # "ready" /\ Without("ready", c2)
      BY <1>1, <1>3, <2>1, <2>4, WithoutTail, WithoutOne
    <3>2. Without("ready", a2)
      BY <1>1, <1>3, <2>1, <2>4, <3>1, WithoutAppend
    <3> QED BY <1>2, <2>1, <2>4, <3>1, <3>2, WithoutEmpty
  <2> QED BY <2>3, <2>4
<1>10. ASSUME NEW e, Pushes(s, e), Says(s, e) PROVE ReadyOnce(s)'
  <2>1. up'[s] = up[s] /\ a2 = a /\ b2 = b /\ c2 = Append(c, e)
    BY <1>10 DEF Pushes
  <2>2. e.type = "ready" => client.pc = "await" /\ a = << >> /\ b = << >> /\ c = << >>
    BY <1>10, ReadySaid DEF Quiet
  <2> HIDE DEF a, b, c, a2, b2, c2
  <2>3. up[s] /\ client.pc = "await" => OnlyFirst("ready", a2, b2, c2)
    BY <1>1, <1>3, <2>1, <2>2, FirstPush
  <2>4. up[s] /\ client.pc # "await" => Without("ready", c2)
    BY <1>1, <1>3, <2>1, <2>2, WithoutAppend
  <2> QED BY <1>2, <1>3, <2>1, <2>3, <2>4
<1> QED BY <1>4, <1>5, <1>6, <1>7, <1>8, <1>9, <1>10 DEF PipeMove

\* Every step but the connector's own leaves a new socket quiet.
LEMMA SessionQuiet ==
    ASSUME LinesKeepTheirNumbers, SocketInv, SessionNext, UNCHANGED client,
           NEW s \in Sockets, Quiet(s)
    PROVE  Quiet(s)'
<1>1. /\ s \in Queued' => s \in Queued
      /\ tasks'[s].state = "none" => tasks[s].state = "none"
      /\ s = session'.transport => s \in {session.transport, session.attaching}
      /\ s = session'.attaching =>
           s = session.attaching \/ (s \in Queued /\ tasks[s] = NoTask)
      /\ Attached(s)' => Attached(s) \/ (s \in Queued /\ tasks[s] = NoTask)
  BY SessionTakes
<1>2. /\ NoTask.commands = << >> /\ NoTask.writing = << >> /\ NoTask.state = "none"
  BY DEF NoTask
<1>3. /\ s2c[s] \in Seq(Envelopes) /\ tasks[s].writing \in Seq(Envelopes)
      /\ tasks[s].commands \in Seq(Envelopes)
  BY PipeTypes
<1>4. ASSUME s \in Queued PROVE tasks[s].state = "none"
  BY <1>4 DEF Queued, SocketInv, AttachmentInv
<1>5. CASE Same(s)
  BY <1>1, <1>2, <1>5 DEF Same, Quiet
<1>6. CASE Loses(s)
  <2>1. Cut(s2c'[s], s2c[s])
    BY <1>6 DEF Loses
  <2>2. s2c[s] = << >> => s2c'[s] = << >>
    BY <1>3, <2>1, CutEmpty
  <2>3. Without("ready", s2c[s]) => Without("ready", s2c'[s])
    BY <1>3, <2>1, WithoutCut
  <2> QED BY <1>1, <1>2, <1>6, <2>2, <2>3 DEF Quiet, Loses
<1>7. ASSUME NEW e, Pushes(s, e), Says(s, e) PROVE Quiet(s)'
  <2>1. session \in SessionState(ServerEnvelopes) /\ s # NoSocket
    BY NetworkAssumption DEF LinesKeepTheirNumbers, SessionInv, Sockets, NoSocket
  <2>2. s = session.transport \/ SetsUp(s, e)
    BY <1>7 DEF Says, Pumps, Exits, Replies, Notes, Parts
  <2>3. s \in {session.transport, session.attaching}
    BY <2>2 DEF SetsUp
  <2>4. tasks[s].state # "none" /\ s \notin Queued
    BY <1>4, <2>1, <2>3 DEF SocketInv, TransportInv
  <2>5. ~Attached(s)'
    <3>1. CASE SetsUp(s, e)
      BY <2>1, <3>1 DEF SetsUp, SessionState, Attached
    <3>2. CASE s = session.transport
      BY <1>1, <2>1, <2>4, <3>2 DEF Attached, SocketInv, TransportInv
    <3> QED BY <2>2, <3>1, <3>2
  <2> QED BY <1>1, <2>4, <2>5 DEF Quiet
<1> QED BY <1>5, <1>6, <1>7, SessionPipe

\* A step of a transport task leaves a socket quiet that is not announced.
LEMMA TaskQuiet ==
    ASSUME LinesKeepTheirNumbers, SocketInv, NEW t \in Sockets, TaskNext(t),
           UNCHANGED client, NEW s \in Sockets, Quiet(s)
    PROVE  Quiet(s)'
<1>1. /\ tasks[t].state = "running" /\ tasks'[t].state # "none"
      /\ \A u \in Sockets : u # t => tasks'[u] = tasks[u] /\ s2c'[u] = s2c[u]
      /\ UNCHANGED attachments
      /\ \E x : session' = [session EXCEPT !.sent = x]
  BY TaskMoves DEF SocketInv
<1>2. session \in SessionState(ServerEnvelopes)
  BY DEF LinesKeepTheirNumbers, SessionInv
<1>3. (Queued' = Queued) /\ (Attached(s)' <=> Attached(s))
  BY <1>1, <1>2 DEF Queued, Attached, SessionState
<1>4. CASE s # t
  BY <1>1, <1>3, <1>4 DEF Quiet
<1>5. CASE s = t
  <2>1. tasks[s].state # "none" /\ tasks'[s].state # "none"
    BY <1>1, <1>5
  <2>2. s \notin Queued
    BY <2>1 DEF Queued, SocketInv, AttachmentInv
  <2>3. ASSUME Attached(s)
        PROVE  s2c'[s] = << >> /\ tasks'[s].commands = << >> /\ tasks'[s].writing = << >>
    <3>1. s2c[s] = << >> /\ tasks[s].commands = << >> /\ tasks[s].writing = << >>
      BY <2>3 DEF Quiet
    <3>2. ~Finishes(s) /\ ~Blocks(s) /\ ~Emits(s)
      <4>1. Len(<< >>) = 0 /\ \A e : Len(<<e>>) = 1
        OBVIOUS
      <4> QED BY <3>1, <4>1 DEF Finishes, HasCommand, Blocks, Emits
    <3>3. CASE Same(s)
      BY <3>1, <3>3 DEF Same
    <3>4. CASE Loses(s)
      <4>1. Cut(s2c'[s], s2c[s]) /\ s2c[s] \in Seq(Envelopes)
        BY <3>4, PipeTypes DEF Loses
      <4>2. s2c[s] = << >> => s2c'[s] = << >>
        BY <4>1, CutEmpty
      <4> QED BY <3>1, <3>4, <4>2 DEF Loses
    <3> QED BY <3>2, <3>3, <3>4, TaskPipe DEF SocketInv
  <2> QED BY <1>3, <2>1, <2>2, <2>3 DEF Quiet
<1> QED BY <1>4, <1>5

\* So does a step that changes no task and not the session.
LEMMA OtherQuiet ==
    ASSUME LinesKeepTheirNumbers, SocketInv, UNCHANGED <<client, session, tasks>>,
           NEW s \in Sockets, Quiet(s), Same(s) \/ Loses(s) \/ Refuses(s),
           s \in Queued' => s \in Queued \/ s2c'[s] = << >>
    PROVE  Quiet(s)'
<1>1. Attached(s)' <=> Attached(s)
  BY DEF Attached
<1>2. s2c[s] \in Seq(Envelopes)
  BY PipeTypes
<1>3. CASE Same(s)
  BY <1>1, <1>3 DEF Same, Quiet
<1>4. CASE Loses(s)
  <2>1. Cut(s2c'[s], s2c[s])
    BY <1>4 DEF Loses
  <2>2. s2c[s] = << >> => s2c'[s] = << >>
    BY <1>2, <2>1, CutEmpty
  <2>3. Without("ready", s2c[s]) => Without("ready", s2c'[s])
    BY <1>2, <2>1, WithoutCut
  <2> QED BY <1>1, <2>2, <2>3 DEF Quiet
<1>5. CASE Refuses(s)
  <2>1. tasks[s].state = "none" /\ s \notin Queued
        /\ (s2c'[s] = << >> \/ s2c'[s] = <<Control("error")>>)
    BY <1>5 DEF Refuses
  <2>2. ~Attached(s)
    BY <2>1, NetworkAssumption DEF Attached, SocketInv, TransportInv, Sockets, NoSocket
  <2>3. Without("ready", << >>) /\ Without("ready", <<Control("error")>>)
    BY WithoutEmpty, WithoutOne DEF Control
  <2> QED BY <1>1, <2>1, <2>2, <2>3 DEF Quiet
<1> QED BY <1>3, <1>4, <1>5

\* The connector reads `ready` and goes on.
LEMMA ConnectorReady ==
    ASSUME LinesKeepTheirNumbers, SocketInv, QuietInv, ReadyInv, ConnectorStep,
           NEW s \in Sockets, s = client'.socket
    PROVE  Quiet(s)' /\ ReadyOnce(s)'
<1>1. UNCHANGED <<session, tasks, attachments>> /\ ConnectedInv /\ s # NoSocket
  BY NetworkAssumption
  DEF ConnectorStep, serverVars, channelVars, SocketInv, Sockets, NoSocket
<1>2. (Attached(s)' <=> Attached(s)) /\ Queued' = Queued
  BY <1>1 DEF Attached, Queued
<1>3. /\ s2c[s] \in Seq(Envelopes) /\ tasks[s].writing \in Seq(Envelopes)
      /\ tasks[s].commands \in Seq(Envelopes)
  BY PipeTypes
<1>4. CASE s # client.socket
  <2>1. Fresh(s) /\ client'.pc = "await" /\ s2c'[s] = << >>
        /\ s \notin {session.transport, session.attaching}
    BY <1>4, NewSocket
  <2>2. tasks'[s].writing = << >> /\ tasks'[s].commands = << >>
    BY <1>1, <2>1 DEF Fresh, NoTask
  <2>3. ~Attached(s) /\ s \notin Queued
    BY <2>1 DEF Attached, Fresh
  <2> QED BY <1>2, <2>1, <2>2, <2>3, FirstEmpty, WithoutEmpty DEF Quiet, ReadyOnce
<1>5. CASE s = client.socket
  <2>1. Quiet(s) /\ ReadyOnce(s)
    BY <1>5 DEF QuietInv, ReadyInv
  <2>2. CASE Same(s) /\ (client'.pc = "await" <=> client.pc = "await")
    BY <1>1, <1>2, <2>1, <2>2 DEF Same, Quiet, ReadyOnce
  <2>3. CASE Takes(s) /\ client'.pc # "await"
    <3>1. s2c[s] # << >> /\ s2c'[s] = Tail(s2c[s]) /\ up'[s] = up[s]
      BY <2>3 DEF Takes
    <3>2. CASE client.pc = "await" /\ Head(s2c[s]) = Control("ready")
      <4>1. Head(s2c[s]).type = "ready"
        BY <3>2 DEF Control
      <4>2. ~Without("ready", s2c[s])
        BY <1>3, <3>1, <4>1, WithoutTail
      <4>3. tasks[s].state # "none" /\ ~Attached(s) /\ s \notin Queued
        BY <2>1, <3>1, <4>2 DEF Quiet
      <4>4. /\ Without("ready", Tail(s2c[s]))
            /\ up[s] => /\ Without("ready", tasks[s].writing)
                        /\ Without("ready", tasks[s].commands)
        BY <2>1, <3>1, <3>2 DEF ReadyOnce, OnlyFirst
      <4> QED BY <1>1, <1>2, <2>3, <3>1, <4>3, <4>4 DEF Quiet, ReadyOnce
    <3>3. CASE client.pc # "await"
      <4>1. tasks[s].state # "none" /\ ~Attached(s) /\ s \notin Queued
        BY <2>1, <3>1, <3>3 DEF Quiet
      <4>2. Without("ready", Tail(s2c[s]))
        BY <1>3, <2>1, <3>1, <3>3, WithoutTail DEF ReadyOnce
      <4> QED BY <1>1, <1>2, <2>1, <2>3, <3>1, <3>3, <4>1, <4>2 DEF Quiet, ReadyOnce
    <3> QED BY <1>1, <1>5, <2>3, <3>2, <3>3, ConnectorPipe
  <2> QED BY <1>1, <1>5, <2>2, <2>3, ConnectorPipe
<1> QED BY <1>4, <1>5

AnnounceInv == OutboxInv /\ QuietInv /\ ReadyInv

\* In every step the session announces a socket once and first.
LEMMA AnnounceKeeps ==
    ASSUME LinesKeepTheirNumbers, LinesKeepTheirNumbers', SocketInv, OpenInv, AnnounceInv,
           [Next]_vars
    PROVE  AnnounceInv'
<1>1. session \in SessionState(ServerEnvelopes)
  BY DEF LinesKeepTheirNumbers, SessionInv
<1> USE DEF AnnounceInv
<1>2. ASSUME UNCHANGED client,
             \A s \in Sockets : s = client.socket => Quiet(s)' /\ PipeMove(s)
      PROVE  QuietInv' /\ ReadyInv'
  BY <1>2, ReadyMoves DEF QuietInv, ReadyInv
<1>3. ASSUME UNCHANGED session PROVE OutboxInv'
  BY <1>3 DEF OutboxInv
<1>4. CASE ConnectorStep
  <2>1. UNCHANGED session
    BY <1>4 DEF ConnectorStep, serverVars
  <2>2. QuietInv' /\ ReadyInv'
    BY <1>4, ConnectorReady DEF QuietInv, ReadyInv
  <2> QED BY <1>3, <2>1, <2>2
<1>5. CASE NetworkStep
  <2>1. UNCHANGED <<client, session, tasks, attachments>>
    BY <1>5 DEF NetworkStep, clientVars, serverVars, channelVars
  <2>2. Queued' = Queued
    BY <2>1 DEF Queued
  <2>3. \A s \in Sockets : s = client.socket => Quiet(s)' /\ PipeMove(s)
    BY <1>5, <2>1, <2>2, NetworkPipe, OtherQuiet DEF QuietInv, PipeMove
  <2> QED BY <1>2, <1>3, <2>1, <2>3
<1>6. CASE ServerStep
  <2>1. UNCHANGED client
    BY <1>6 DEF ServerStep, clientVars
  <2>2. CASE SessionNext
    <3>1. \A s \in Sockets : s = client.socket => Quiet(s)' /\ PipeMove(s)
      BY <2>1, <2>2, SessionPipe, SessionQuiet DEF QuietInv, PipeMove
    <3> QED BY <1>2, <2>1, <2>2, <3>1, SessionOutbox
  <2>3. CASE AgentWrites \/ AgentExits \/ Cancel
    <3>1. UNCHANGED <<session, tasks, attachments, s2c, up>>
      BY <2>3 DEF AgentWrites, AgentExits, Cancel, channelVars, networkVars
    <3>2. Queued' = Queued
      BY <3>1 DEF Queued
    <3>3. \A s \in Sockets : Same(s)
      BY <3>1 DEF Same
    <3>4. \A s \in Sockets : s = client.socket => Quiet(s)' /\ PipeMove(s)
      BY <2>1, <3>1, <3>2, <3>3, OtherQuiet DEF QuietInv, PipeMove
    <3> QED BY <1>2, <1>3, <2>1, <3>1, <3>4
  <2>4. ASSUME NEW t \in Sockets, TaskNext(t) PROVE AnnounceInv'
    <3>1. \A s \in Sockets : s = client.socket => Quiet(s)' /\ PipeMove(s)
      BY <2>1, <2>4, TaskPipe, TaskQuiet DEF QuietInv, PipeMove, SocketInv
    <3>2. \E x : session' = [session EXCEPT !.sent = x]
      BY <2>4, TaskMoves DEF SocketInv
    <3>3. OutboxInv'
      BY <1>1, <3>2 DEF OutboxInv, SessionState
    <3> QED BY <1>2, <2>1, <3>1, <3>3
  <2>5. ASSUME NEW t \in Sockets, AcceptResume(t) PROVE AnnounceInv'
    <3>1. UNCHANGED <<session, tasks>>
      BY <2>5 DEF AcceptResume
    <3>2. \A s \in Sockets : s = client.socket => Quiet(s)' /\ PipeMove(s)
      BY <2>1, <2>5, <3>1, ResumePipe, OtherQuiet DEF QuietInv, PipeMove
    <3> QED BY <1>2, <1>3, <2>1, <3>1, <3>2
  <2> QED BY <1>6, <2>2, <2>3, <2>4, <2>5 DEF ServerStep, ServerNext
<1>7. CASE UNCHANGED vars
  <2>1. UNCHANGED <<client, session, tasks, attachments, s2c, up>>
    BY <1>7 DEF vars, networkVars, clientVars, serverVars, channelVars
  <2>2. Queued' = Queued
    BY <2>1 DEF Queued
  <2>3. \A s \in Sockets : Same(s)
    BY <2>1 DEF Same
  <2>4. \A s \in Sockets : s = client.socket => Quiet(s)' /\ PipeMove(s)
    BY <2>1, <2>2, <2>3, OtherQuiet DEF QuietInv, PipeMove
  <2> QED BY <1>2, <1>3, <2>1, <2>4
<1> QED BY <1>4, <1>5, <1>6, <1>7 DEF Next

\* Socket 1 needs no `ready` any more.
LEMMA AnnounceInit == Init => AnnounceInv
<1> SUFFICES ASSUME Init PROVE AnnounceInv
  OBVIOUS
<1>1. session.pc = "top" /\ session.outbox = << >> /\ session.attaching = NoSocket
  BY DEF Init, SessionInit
<1>2. client.pc = "select" /\ client.socket = 1
  BY DEF Init, ConnectorInit
<1>3. attachments = << >> /\ tasks = [s \in Sockets |-> IF s = 1 THEN StartedTask ELSE NoTask]
  BY DEF Init, SessionInit
<1>4. s2c = [s \in Sockets |-> << >>]
  BY DEF Init, NetworkInit
<1>5. OutboxInv
  BY <1>1 DEF OutboxInv
<1>6. ASSUME NEW s \in Sockets, s = client.socket PROVE Quiet(s) /\ ReadyOnce(s)
  <2>1. tasks[s] = StartedTask /\ s2c[s] = << >> /\ s # NoSocket
    BY <1>2, <1>3, <1>4, <1>6 DEF NoSocket
  <2>2. StartedTask.writing = << >> /\ StartedTask.commands = << >> /\ StartedTask.state = "running"
    BY DEF StartedTask, NoTask
  <2>3. ~Attached(s)
    BY <1>1, <2>1 DEF Attached
  <2> QED BY <1>2, <2>1, <2>2, <2>3, WithoutEmpty DEF Quiet, ReadyOnce
<1> QED BY <1>5, <1>6 DEF AnnounceInv, QuietInv, ReadyInv

-----------------------------------------------------------------------------
(* Exit is on its way only once the loop is about to end.                  *)

\* The loop is over, or will be: Exit was written.
Over == \/ session.pc \in {"reap", "farewell", "farewell_wait", "ended"}
        \/ session.pc = "exit_wait" /\ session.sent = "sent"
\* send_exit waits for the task of socket s to write Exit.
Exiting(s) == session.pc = "exit_wait" /\ s = session.transport

ExitOK(s) ==
    /\ Over \/ Without("exit", s2c[s])
    /\ up[s] => \/ Over \/ Exiting(s)
                \/ Without("exit", tasks[s].writing) /\ Without("exit", tasks[s].commands)
ExitInv == \A s \in Sockets : s = client.socket => ExitOK(s)

\* A move of the queues to the connector keeps Exit behind the end of the loop.
LEMMA ExitMoves ==
    ASSUME LinesKeepTheirNumbers, NEW s \in Sockets, ExitOK(s), PipeMove(s), Over => Over',
           Exiting(s) => Over' \/ ~up'[s] \/ Exiting(s)',
           Emits(s) /\ Current(s).type = "exit" => Over',
           \A e : Pushes(s, e) /\ Says(s, e) /\ e.type = "exit" => Over' \/ Exiting(s)'
    PROVE  ExitOK(s)'
<1> DEFINE a == s2c[s]
           b == tasks[s].writing
           c == tasks[s].commands
           a2 == s2c'[s]
           b2 == tasks'[s].writing
           c2 == tasks'[s].commands
<1>1. a \in Seq(Envelopes) /\ b \in Seq(Envelopes) /\ c \in Seq(Envelopes)
  BY PipeTypes
<1>2. ExitOK(s)' <=> /\ Over' \/ Without("exit", a2)
                     /\ up'[s] => \/ Over' \/ Exiting(s)'
                                  \/ Without("exit", b2) /\ Without("exit", c2)
  BY DEF ExitOK
<1>3. /\ Over \/ Without("exit", a)
      /\ up[s] => \/ Over \/ Exiting(s) \/ (Without("exit", b) /\ Without("exit", c))
  BY DEF ExitOK
<1>4. CASE Same(s)
  BY <1>2, <1>3, <1>4 DEF Same
<1>5. CASE Loses(s)
  <2>1. Cut(a2, a) /\ ~up'[s]
    BY <1>5 DEF Loses
  <2> HIDE DEF a, a2
  <2>2. Without("exit", a) => Without("exit", a2)
    BY <1>1, <2>1, WithoutCut
  <2> QED BY <1>2, <1>3, <2>1, <2>2
<1>6. CASE Finishes(s)
  <2>1. PICK e \in Envelopes : e.type = "shutdown_complete" /\ Cut(a2, Append(a, e))
    BY <1>6 DEF Finishes
  <2>2. ~up'[s]
    BY <1>6 DEF Finishes
  <2>3. Append(a, e) \in Seq(Envelopes)
    BY <1>1, AppendIn
  <2> HIDE DEF a, a2
  <2>4. Without("exit", a) => Without("exit", Append(a, e))
    BY <1>1, <2>1, WithoutAppend
  <2>5. Without("exit", a) => Without("exit", a2)
    BY <2>1, <2>3, <2>4, WithoutCut
  <2> QED BY <1>2, <1>3, <2>2, <2>5
<1>7. CASE Refuses(s)
  <2>1. Without("exit", << >>) /\ Without("exit", <<Control("error")>>)
    BY WithoutEmpty, WithoutOne DEF Control
  <2> QED BY <1>2, <1>7, <2>1 DEF Refuses
<1>8. CASE Blocks(s)
  <2>1. /\ up'[s] = up[s] /\ a2 = a /\ b = << >> /\ c # << >>
        /\ b2 = <<Head(c)>> /\ c2 = Tail(c)
    BY <1>8 DEF Blocks
  <2> HIDE DEF a, b, c, a2, b2, c2
  <2>2. Without("exit", c) => Without("exit", b2) /\ Without("exit", c2)
    BY <1>1, <2>1, WithoutTail, WithoutOne
  <2> QED BY <1>2, <1>3, <2>1, <2>2
<1>9. CASE Emits(s)
  <2> DEFINE e == Current(s)
  <2>1. /\ up[s] /\ a2 = Append(a, e) /\ b2 = << >>
        /\ \/ b = <<e>> /\ c2 = c
           \/ b = << >> /\ c # << >> /\ e = Head(c) /\ c2 = Tail(c)
    BY <1>9 DEF Emits
  <2>2. e.type = "exit" => Over'
    BY <1>9
  <2> HIDE DEF a, b, c, a2, b2, c2, e
  <2>3. Without("exit", c) => Without("exit", c2)
    BY <1>1, <2>1, WithoutTail
  <2>4. e.type # "exit" /\ Without("exit", a) => Without("exit", a2)
    BY <1>1, <2>1, WithoutAppend
  <2>5. Without("exit", b2)
    BY <2>1, WithoutEmpty
  <2> QED BY <1>2, <1>3, <2>1, <2>2, <2>3, <2>4, <2>5
<1>10. ASSUME NEW e, Pushes(s, e), Says(s, e) PROVE ExitOK(s)'
  <2>1. up'[s] = up[s] /\ a2 = a /\ b2 = b /\ c2 = Append(c, e)
    BY <1>10 DEF Pushes
  <2>2. e.type = "exit" => Over' \/ Exiting(s)'
    BY <1>10
  <2> HIDE DEF a, b, c, a2, b2, c2
  <2>3. e.type # "exit" /\ Without("exit", c) => Without("exit", c2)
    BY <1>1, <2>1, WithoutAppend
  <2> QED BY <1>2, <1>3, <2>1, <2>2, <2>3
<1> QED BY <1>4, <1>5, <1>6, <1>7, <1>8, <1>9, <1>10 DEF PipeMove

\* Once it is over, the loop is not entered again.
LEMMA SessionOver ==
    ASSUME LinesKeepTheirNumbers, SocketInv, SessionNext
    PROVE  /\ Over => Over' /\ UNCHANGED <<nextServer, expectedClient>>
           /\ session.pc = "exit_wait" => Over' \/ ~up'[session.transport]
           /\ session.pc # "select" => UNCHANGED <<nextServer, expectedClient>>
<1>1. session \in SessionState(ServerEnvelopes)
  BY DEF LinesKeepTheirNumbers, SessionInv
<1>2. session.pc # "select" => UNCHANGED <<nextServer, expectedClient>>
  <2>1. CASE ReadAgent \/ ReceiveEvent
    BY <2>1 DEF ReadAgent, ReceiveEvent
  <2>2. CASE PumpReplay \/ PumpFindsClosed \/ EnterSelect \/ SendExit \/ ExitConfirmed \/ ExitFails
    BY <2>2 DEF PumpReplay, PumpFindsClosed, EnterSelect, SendExit, ExitConfirmed, ExitFails,
       Detach, frameVars
  <2>3. CASE ChildWait \/ TakeAttachment \/ AttachEnqueues \/ AttachSucceeds \/ AttachFails
    BY <2>3 DEF ChildWait, TakeAttachment, AttachEnqueues, AttachSucceeds, AttachFails, frameVars
  <2>4. CASE ServerShutdown \/ KeepaliveExpires \/ SendNoise \/ Wake \/ GraceExpires
    BY <2>4 DEF ServerShutdown, KeepaliveExpires, SendNoise, Wake, GraceExpires, Detach, frameVars
  <2>5. CASE SendReply \/ ReapAgent \/ ReapFails \/ SendFarewell \/ EndSession
    BY <2>5 DEF SendReply, ReapAgent, ReapFails, Abandon, SendFarewell, EndSession, frameVars
  <2> QED BY <2>1, <2>2, <2>3, <2>4, <2>5 DEF SessionNext
<1>3. ASSUME session.pc = "exit_wait"
      PROVE  /\ Over' \/ ~up'[session.transport]
             /\ Over => Over'
  <2>1. CASE ExitConfirmed
    BY <1>1, <2>1 DEF ExitConfirmed, EndLoop, SessionState, Over
  <2>2. CASE ExitFails
    <3>1. session.sent = "waiting" /\ CloseServerEnd({session.transport})
      BY <1>3, <2>2 DEF ExitFails, Detach
    <3>2. session.transport \in Sockets
      BY <1>1, <1>3 DEF SocketInv, TransportInv, SessionState
    <3>3. ~up'[session.transport]
      BY <3>1, <3>2, ServerEndCloses DEF LinesKeepTheirNumbers
    <3> QED BY <1>3, <3>1, <3>3 DEF Over
  <2> QED
    BY <1>3, <2>1, <2>2
    DEF SessionNext, PumpReplay, PumpFindsClosed, EnterSelect, SendExit, ChildWait,
        TakeAttachment, AttachEnqueues, AttachSucceeds, AttachFails, ServerShutdown,
        KeepaliveExpires, SendNoise, Wake, ReadAgent, GraceExpires, ReceiveEvent, SendReply,
        ReapAgent, ReapFails, SendFarewell, EndSession
<1>4. ASSUME session.pc \in {"reap", "farewell", "farewell_wait", "ended"} PROVE Over'
  <2>1. CASE ReapAgent \/ SendFarewell
    BY <1>1, <1>4, <2>1 DEF ReapAgent, SendFarewell, SessionState, Over
  <2>2. CASE ReapFails \/ EndSession
    BY <1>1, <2>2 DEF ReapFails, Abandon, EndSession, Leave, SessionState, Over
  <2> QED
    BY <1>4, <2>1, <2>2
    DEF SessionNext, PumpReplay, PumpFindsClosed, EnterSelect, SendExit, ExitConfirmed, ExitFails,
        ChildWait, TakeAttachment, AttachEnqueues, AttachSucceeds, AttachFails, ServerShutdown,
        KeepaliveExpires, SendNoise, Wake, ReadAgent, GraceExpires, ReceiveEvent, SendReply
<1>5. Over => session.pc # "select"
  BY DEF Over
<1> QED BY <1>2, <1>3, <1>4, <1>5 DEF Over

\* Exit is enqueued by send_exit and after the loop.
LEMMA ExitSaid ==
    ASSUME LinesKeepTheirNumbers, OutboxInv, NEW s, NEW e, Says(s, e), e.type = "exit"
    PROVE  Over' \/ Exiting(s)'
<1>1. session \in SessionState(ServerEnvelopes)
  BY DEF LinesKeepTheirNumbers, SessionInv
<1>2. /\ \A f : Acp(f).type # "exit"
      /\ \A n : Ack("client_to_server", n).type # "exit"
      /\ \A type \in {"ready", "ping", "stderr"} : Control(type).type # "exit"
  BY DEF Acp, Ack, Control
<1>3. ~Pumps(s, e) /\ ~Replies(s, e) /\ ~Notes(s, e)
  BY <1>2 DEF Pumps, Replies, Notes, OutboxInv
<1>4. ~SetsUp(s, e)
  <2>1. session.setupAt \in Nat
    BY <1>1 DEF SessionState
  <2> QED BY <1>2, <2>1, SetupCases DEF SetsUp, SetupEnvelope
<1>5. CASE Exits(s, e)
  BY <1>1, <1>5 DEF Exits, Exiting, SessionState
<1>6. CASE Parts(s, e)
  BY <1>1, <1>6 DEF Parts, Over, SessionState
<1> QED BY <1>3, <1>4, <1>5, <1>6 DEF Says

\* What a task reports.
LEMMA TaskOver ==
    ASSUME LinesKeepTheirNumbers, SocketInv, EndInv, NEW t \in Sockets, TaskNext(t)
    PROVE  /\ Over => Over'
           /\ session'.pc = session.pc /\ session'.transport = session.transport
           /\ session'.attaching = session.attaching /\ session'.setupAt = session.setupAt
           /\ session'.outbox = session.outbox
           /\ UNCHANGED <<serverPending, nextServer, expectedClient>>
<1>1. session \in SessionState(ServerEnvelopes)
  BY DEF LinesKeepTheirNumbers, SessionInv
<1>2. UNCHANGED <<serverPending, nextServer, expectedClient>>
  BY DEF TaskNext, TaskWrites, TaskFinishes, TaskBlocks, TaskWriteFails,
         TaskReads, TaskSeesEnd, TaskHandsOver, OrphanStops, frameVars
<1>3. PICK x : session' = [session EXCEPT !.sent = x]
  BY TaskMoves DEF SocketInv
<1>4. /\ session'.pc = session.pc /\ session'.transport = session.transport
      /\ session'.attaching = session.attaching /\ session'.setupAt = session.setupAt
      /\ session'.outbox = session.outbox
  BY <1>1, <1>3 DEF SessionState
<1>5. ASSUME session.sent = "sent" PROVE session'.sent = "sent"
  <2>1. ASSUME StopTask(t) PROVE session'.sent = "sent"
    BY <1>1, <1>5, <2>1 DEF StopTask, SentDropped, SessionState
  <2>2. CASE TaskWrites(t) \/ TaskFinishes(t)
    BY <1>1, <1>5, <2>2 DEF TaskWrites, TaskFinishes, SentAfter, SessionState
  <2> QED BY <1>5, <2>1, <2>2 DEF TaskNext, TaskBlocks, TaskWriteFails,
         TaskReads, TaskSeesEnd, TaskHandsOver, OrphanStops
<1> QED BY <1>2, <1>4, <1>5 DEF Over

\* A task that writes Exit while the session waits for it reports it.
LEMMA ExitWritten ==
    ASSUME LinesKeepTheirNumbers, SocketInv, EndInv, NEW s \in Sockets, TaskNext(s),
           ExitOK(s), Emits(s), Current(s).type = "exit",
           session' = [session EXCEPT !.sent = SentAfter(s, Current(s))]
    PROVE  Over'
<1>1. session \in SessionState(ServerEnvelopes)
  BY DEF LinesKeepTheirNumbers, SessionInv
<1>2. CASE Over
  BY <1>2, TaskOver
<1>3. CASE ~Over
  <2>1. Exiting(s)
    <3>1. /\ tasks[s].writing \in Seq(Envelopes) /\ tasks[s].commands \in Seq(Envelopes)
      BY PipeTypes
    <3>2. ~Without("exit", tasks[s].writing) \/ ~Without("exit", tasks[s].commands)
      <4>1. CASE tasks[s].writing = <<Current(s)>>
        BY <4>1, WithoutOne
      <4>2. CASE tasks[s].commands # << >> /\ Current(s) = Head(tasks[s].commands)
        BY <3>1, <4>2, WithoutTail
      <4> QED BY <4>1, <4>2 DEF Emits
    <3> QED BY <1>3, <3>2 DEF ExitOK, Emits
  <2>2. session.sent # "sent" /\ session.sent # "no"
    BY <1>3, <2>1 DEF Over, Exiting, EndInv, ConfirmInv
  <2>3. session.sent # "dropped"
    <3>1. tasks[s].state = "running"
      BY TaskMoves DEF SocketInv
    <3> QED BY <2>1, <3>1 DEF Exiting, EndInv, ConfirmInv
  <2>4. session.sent = "waiting"
    BY <1>1, <2>2, <2>3 DEF SessionState
  <2> QED BY <1>1, <2>1, <2>4 DEF Exiting, SentAfter, SessionState, Over
<1> QED BY <1>2, <1>3

\* In every step Exit is on its way only when the session is done.
LEMMA ExitKeeps ==
    ASSUME LinesKeepTheirNumbers, LinesKeepTheirNumbers', SocketInv, OpenInv, EndInv,
           AnnounceInv, ExitInv, [Next]_vars
    PROVE  ExitInv' /\ (Over => Over')
<1>1. session \in SessionState(ServerEnvelopes)
  BY DEF LinesKeepTheirNumbers, SessionInv
<1>2. ASSUME UNCHANGED session, NEW s \in Sockets, ExitOK(s),
             Same(s) \/ Loses(s) \/ Refuses(s)
      PROVE  ExitOK(s)'
  <2>2. (Over <=> Over') /\ (Exiting(s) <=> Exiting(s)')
    BY <1>2 DEF Over, Exiting
  <2>3. s2c[s] \in Seq(Envelopes)
    BY PipeTypes
  <2>4. CASE Same(s)
    BY <1>2, <2>2, <2>4 DEF Same, ExitOK
  <2>5. CASE Loses(s)
    BY <1>2, <2>2, <2>3, <2>5, WithoutCut DEF Loses, ExitOK
  <2>6. CASE Refuses(s)
    <3>1. Without("exit", << >>) /\ Without("exit", <<Control("error")>>)
      BY WithoutEmpty, WithoutOne DEF Control
    <3> QED BY <2>6, <3>1 DEF Refuses, ExitOK
  <2> QED BY <1>2, <2>4, <2>5, <2>6
<1>3. ASSUME UNCHANGED session PROVE Over => Over'
  BY <1>3 DEF Over
<1>4. CASE ConnectorStep
  <2>1. UNCHANGED <<session, tasks>> /\ ConnectedInv
    BY <1>4 DEF ConnectorStep, serverVars, channelVars, SocketInv
  <2>2. ASSUME NEW s \in Sockets, s = client'.socket PROVE ExitOK(s)'
    <3>1. CASE s # client.socket
      <4>1. s2c'[s] = << >> /\ tasks[s] = NoTask
        BY <1>4, <2>2, <3>1, NewSocket DEF Fresh
      <4>2. tasks'[s].writing = << >> /\ tasks'[s].commands = << >>
        BY <2>1, <4>1 DEF NoTask
      <4> QED BY <4>1, <4>2, WithoutEmpty DEF ExitOK
    <3>2. CASE s = client.socket
      <4>1. ExitOK(s)
        BY <3>2 DEF ExitInv
      <4>2. Same(s) \/ Takes(s)
        BY <1>4, <2>1, <2>2, <3>2, ConnectorPipe
      <4>3. CASE Takes(s)
        <5>1. Without("exit", s2c[s]) => Without("exit", s2c'[s])
          BY <4>3, PipeTypes, WithoutTail DEF Takes
        <5>2. (Over <=> Over') /\ (Exiting(s) <=> Exiting(s)')
          BY <2>1 DEF Over, Exiting
        <5> QED BY <4>1, <4>3, <5>1, <5>2 DEF Takes, ExitOK
      <4> QED BY <1>2, <2>1, <4>1, <4>2, <4>3
    <3> QED BY <3>1, <3>2
  <2> QED BY <1>3, <2>1, <2>2 DEF ExitInv
<1>5. CASE NetworkStep
  <2>1. UNCHANGED <<client, session>>
    BY <1>5 DEF NetworkStep, clientVars, serverVars
  <2> QED BY <1>2, <1>3, <1>5, <2>1, NetworkPipe DEF ExitInv
<1>6. CASE ServerStep
  <2>1. UNCHANGED client
    BY <1>6 DEF ServerStep, clientVars
  <2>2. CASE SessionNext
    <3>1. Over => Over'
      BY <2>2, SessionOver
    <3>2. ASSUME NEW s \in Sockets, s = client.socket PROVE ExitOK(s)'
      <4>1. PipeMove(s) /\ ExitOK(s)
        BY <2>2, <3>2, SessionPipe DEF PipeMove, ExitInv
      <4>2. Exiting(s) => Over' \/ ~up'[s]
        BY <2>2, SessionOver DEF Exiting
      <4>3. \A e : Pushes(s, e) /\ Says(s, e) /\ e.type = "exit" => Over' \/ Exiting(s)'
        BY ExitSaid DEF AnnounceInv
      <4>4. CASE Same(s) \/ Loses(s) \/ \E e : Pushes(s, e) /\ Says(s, e)
        <5>1. CASE Emits(s)
          <6>1. ~Same(s) /\ ~Loses(s) /\ ~\E e : Pushes(s, e)
            <7>1. s2c[s] \in Seq(Envelopes)
              BY PipeTypes
            <7>2. Len(Append(s2c[s], Current(s))) = Len(s2c[s]) + 1 /\ Len(s2c[s]) \in Nat
              BY <7>1, EventAppended
            <7>3. s2c'[s] # s2c[s]
              BY <5>1, <7>2 DEF Emits
            <7> QED BY <5>1, <7>3 DEF Same, Loses, Pushes, Emits
          <6> QED BY <4>4, <6>1
        <5>2. CASE ~Emits(s)
          BY <3>1, <4>1, <4>2, <4>3, <5>2, ExitMoves
        <5> QED BY <5>1, <5>2
      <4> QED BY <2>2, <4>4, SessionPipe
    <3> QED BY <2>1, <3>1, <3>2 DEF ExitInv
  <2>3. CASE AgentWrites \/ AgentExits \/ Cancel
    <3>1. UNCHANGED <<session, tasks, s2c, up>>
      BY <2>3 DEF AgentWrites, AgentExits, Cancel, channelVars, networkVars
    <3>2. \A s \in Sockets : Same(s)
      BY <3>1 DEF Same
    <3> QED BY <1>2, <1>3, <2>1, <3>1, <3>2 DEF ExitInv
  <2>4. ASSUME NEW t \in Sockets, TaskNext(t) PROVE ExitInv' /\ (Over => Over')
    <3>1. (Over => Over') /\ session'.pc = session.pc /\ session'.transport = session.transport
      BY <2>4, TaskOver
    <3>2. ASSUME NEW s \in Sockets, s = client.socket PROVE ExitOK(s)'
      <4>1. ExitOK(s) /\ (Exiting(s) => Exiting(s)')
        BY <3>1, <3>2 DEF ExitInv, Exiting
      <4>2. CASE Same(s)
        BY <3>1, <4>1, <4>2 DEF Same, ExitOK
      <4>3. CASE ~Same(s)
        <5>1. \/ Loses(s) \/ Finishes(s) \/ Blocks(s)
              \/ s = t /\ Emits(s) /\ session' = [session EXCEPT !.sent = SentAfter(s, Current(s))]
          BY <2>4, <4>3, TaskPipe DEF SocketInv
        <5>2. Emits(s) => up'[s] /\ s2c'[s] # s2c[s]
          <6>1. s2c[s] \in Seq(Envelopes)
            BY PipeTypes
          <6>2. Len(Append(s2c[s], Current(s))) = Len(s2c[s]) + 1 /\ Len(s2c[s]) \in Nat
            BY <6>1, EventAppended
          <6> QED BY <6>2 DEF Emits
        <5>3. \A e : ~(Says(s, e) /\ Pushes(s, e) /\ e.type = "exit") \/ Over' \/ Exiting(s)'
          BY ExitSaid DEF AnnounceInv
        <5>4. Emits(s) /\ Current(s).type = "exit" => Over'
          BY <2>4, <4>1, <5>1, <5>2, ExitWritten DEF Loses, Finishes, Blocks
        <5> QED BY <3>1, <4>1, <5>1, <5>3, <5>4, ExitMoves DEF PipeMove
      <4> QED BY <4>2, <4>3
    <3> QED BY <2>1, <3>1, <3>2 DEF ExitInv
  <2>5. ASSUME NEW t \in Sockets, AcceptResume(t) PROVE ExitInv' /\ (Over => Over')
    <3>1. UNCHANGED <<session, tasks>>
      BY <2>5 DEF AcceptResume
    <3> QED BY <1>2, <1>3, <2>1, <2>5, <3>1, ResumePipe DEF ExitInv
  <2> QED BY <1>6, <2>2, <2>3, <2>4, <2>5 DEF ServerStep, ServerNext
<1>7. CASE UNCHANGED vars
  <2>1. UNCHANGED <<client, session, tasks, s2c, up>>
    BY <1>7 DEF vars, networkVars, clientVars, serverVars, channelVars
  <2>2. \A s \in Sockets : Same(s)
    BY <2>1 DEF Same
  <2> QED BY <1>2, <1>3, <2>1, <2>2 DEF ExitInv
<1> QED BY <1>4, <1>5, <1>6, <1>7 DEF Next

-----------------------------------------------------------------------------
(* Which retained frames the session has handed to its transport: the      *)
(* first ones, and all of them when it reports the agent's exit.           *)

SentInv ==
    /\ \A i \in 1 .. Len(serverPending) :
         serverPending[i].sentOn # NoSocket => tasks[serverPending[i].sentOn].state # "none"
    /\ session.transport # NoSocket =>
         \A i, j \in 1 .. Len(serverPending) :
           i <= j /\ serverPending[j].sentOn = session.transport =>
             serverPending[i].sentOn = session.transport
    /\ session.attaching # NoSocket =>
         /\ session.setupAt <= SetupLength
         /\ \A i \in 1 .. Len(serverPending) :
              serverPending[i].sentOn = session.attaching <=> i < session.setupAt - 1
    /\ session.pc = "exit" =>
         \A i \in 1 .. Len(serverPending) : serverPending[i].sentOn = session.transport

\* The transport stays or goes, the frames are freed at one end or queued at
\* the other.
Frees == /\ session.pc = "select" /\ UNCHANGED nextServer
         /\ \E k \in 0 .. Len(serverPending) : serverPending' = Popped(serverPending, k)
Queues == /\ session.pc = "select" /\ nextServer' = nextServer + 1
          /\ \E f : f.sentOn = NoSocket /\ serverPending' = Append(serverPending, f)
Rests == /\ session'.transport \in {session.transport, NoSocket}
         /\ \/ session'.attaching = NoSocket
            \/ session'.attaching = session.attaching /\ session'.setupAt = session.setupAt
         /\ session'.pc # "exit"
         /\ UNCHANGED <<serverPending, nextServer>> \/ Frees \/ Queues

\* The steps of the session that do more to its frames than queue or free one.
LEMMA FrameSteps ==
    ASSUME LinesKeepTheirNumbers, TransportInv, SessionNext
    PROVE  \/ PumpReplay \/ AttachEnqueues \/ AttachSucceeds \/ TakeAttachment \/ EnterSelect
           \/ Rests
<1>1. session \in SessionState(ServerEnvelopes)
  BY DEF LinesKeepTheirNumbers, SessionInv
<1>2. ASSUME NEW p, NEW c, session.pc = "select",
             \/ session' = [session EXCEPT !.pc = p]
             \/ session' = [session EXCEPT !.pc = p, !.endCategory = c]
             \/ session' = [session EXCEPT !.pc = p, !.outbox = c]
             \/ session' = [session EXCEPT !.pc = p, !.endCategory = c, !.registered = FALSE],
             p # "exit",
             UNCHANGED <<serverPending, nextServer>> \/ Frees \/ Queues
      PROVE  Rests
  BY <1>1, <1>2 DEF SessionState, Rests
<1>3. ASSUME NEW p, p # "exit", Detach(p) PROVE Rests
  BY <1>1, <1>3 DEF Detach, frameVars, SessionState, Rests
<1>4. ASSUME NEW c, NEW S, Leave(c, S), UNCHANGED frameVars PROVE Rests
  BY <1>1, <1>4 DEF Leave, frameVars, SessionState, Rests
<1>5. ASSUME NEW line, session.pc = "select", QueueServerFrame(line) PROVE Queues
  BY <1>5 DEF QueueServerFrame, Queues
<1>6. CASE ReadAgent
  BY <1>2, <1>5, <1>6 DEF ReadAgent, EndLoop, Proceed
<1>7. CASE ReceiveEvent
  <2>1. session.pc = "select"
    BY <1>7 DEF ReceiveEvent
  <2>2. CASE Stale(Head(events)) \/ Detach("top")
    BY <1>2, <1>3, <1>7, <2>1, <2>2 DEF ReceiveEvent, Only, Proceed, frameVars
  <2>3. ASSUME NEW e, HandleAcp(e) PROVE Rests
    <3>1. CASE \E c : Abandon(c)
      BY <1>4, <3>1 DEF Abandon
    <3>2. CASE \E c : Only(EndLoop(c))
      BY <1>2, <2>1, <3>2 DEF Only, EndLoop, frameVars
    <3>3. CASE (\E r : Reply(r)) /\ UNCHANGED <<serverPending, nextServer>>
      BY <1>2, <2>1, <3>3 DEF Reply
    <3>4. CASE (\E r : Reply(r)) /\ \E line : QueueServerFrame(line)
      BY <1>2, <1>5, <2>1, <3>4 DEF Reply
    <3> QED BY <2>3, <3>1, <3>2, <3>3, <3>4
            DEF HandleAcp, ForwardLine, RejectLine, Accept, frameVars
  <2>4. ASSUME NEW e, HandleAck(e) PROVE Rests
    <3>1. Frees
      BY <2>1, <2>4 DEF HandleAck, Frees
    <3> QED BY <1>2, <2>1, <2>4, <3>1 DEF HandleAck, Proceed
  <2>5. ASSUME NEW e, HandleControl(e) PROVE Rests
    BY <1>2, <2>1, <2>5 DEF HandleControl, Reply, Only, Proceed, frameVars
  <2>6. ASSUME NEW c, Only(EndLoop(c)) PROVE Rests
    BY <1>2, <2>1, <2>6 DEF Only, EndLoop, frameVars
  <2> QED BY <1>7, <2>2, <2>3, <2>4, <2>5, <2>6 DEF ReceiveEvent, HandleClientEnvelope
<1>8. CASE PumpFindsClosed \/ KeepaliveExpires \/ ExitFails
  BY <1>3, <1>8 DEF PumpFindsClosed, KeepaliveExpires, ExitFails
<1>9. CASE Wake \/ SendNoise \/ ServerShutdown \/ GraceExpires
  BY <1>2, <1>9 DEF Wake, SendNoise, ServerShutdown, GraceExpires, Proceed, EndLoop, frameVars
<1>10. CASE ChildWait \/ ExitConfirmed
  BY <1>1, <1>10 DEF ChildWait, ExitConfirmed, EndLoop, frameVars, SessionState, Rests
<1>11. CASE SendExit \/ SendReply
  BY <1>1, <1>11 DEF SendExit, SendReply, frameVars, SessionState, Rests
<1>12. CASE AttachFails \/ ReapAgent \/ SendFarewell
  BY <1>1, <1>12 DEF AttachFails, AfterFailedAttach, ReapAgent, SendFarewell, frameVars,
     SessionState, Rests
<1>13. CASE ReapFails \/ EndSession
  BY <1>4, <1>13 DEF ReapFails, Abandon, EndSession
<1> QED
  BY <1>6, <1>7, <1>8, <1>9, <1>10, <1>11, <1>12, <1>13 DEF SessionNext

\* The elements of the replay buffer after each of these.
LEMMA FreedElements ==
    ASSUME LinesKeepTheirNumbers, NEW k \in 0 .. Len(serverPending),
           serverPending' = Popped(serverPending, k)
    PROVE  /\ Len(serverPending') = Len(serverPending) - k /\ Len(serverPending) \in Nat
           /\ \A i \in 1 .. Len(serverPending') :
                /\ k + i \in 1 .. Len(serverPending)
                /\ serverPending'[i] = serverPending[k + i]
<1>1. serverPending \in Seq(ServerFrame) /\ Len(serverPending) \in Nat
  BY ServerBuffer
<1>2. k + 1 \in 1 .. Len(serverPending) + 1 /\ Len(serverPending) \in k .. Len(serverPending)
  BY <1>1
<1>3. /\ Len(serverPending') = IF k + 1 <= Len(serverPending)
                                THEN Len(serverPending) - (k + 1) + 1 ELSE 0
      /\ \A i \in 1 .. Len(serverPending) - (k + 1) + 1 :
           serverPending'[i] = serverPending[k + 1 + i - 1]
  BY <1>1, <1>2, SubSeqProperties DEF Popped
<1>4. Len(serverPending') = Len(serverPending) - k
  BY <1>1, <1>3
<1>5. ASSUME NEW i \in 1 .. Len(serverPending')
      PROVE  k + i \in 1 .. Len(serverPending) /\ serverPending'[i] = serverPending[k + i]
  <2>1. k + 1 + i - 1 = k + i /\ i \in 1 .. Len(serverPending) - (k + 1) + 1
    BY <1>1, <1>4
  <2> QED BY <1>1, <1>3, <1>4, <2>1
<1> QED BY <1>1, <1>4, <1>5

\* The replay buffer with one more frame (queue_server_frame).
LEMMA QueuedElements ==
    ASSUME LinesKeepTheirNumbers, NEW f, serverPending' = Append(serverPending, f)
    PROVE  /\ Len(serverPending') = Len(serverPending) + 1 /\ Len(serverPending) \in Nat
           /\ \A i \in 1 .. Len(serverPending) : serverPending'[i] = serverPending[i]
           /\ serverPending'[Len(serverPending) + 1] = f
           /\ \A i \in 1 .. Len(serverPending') :
                i \in 1 .. Len(serverPending) \/ i = Len(serverPending) + 1
<1>1. /\ Len(serverPending') = Len(serverPending) + 1 /\ Len(serverPending) \in Nat
      /\ \A i \in 1 .. Len(serverPending) : serverPending'[i] = serverPending[i]
      /\ serverPending'[Len(serverPending) + 1] = f
  BY ServerBuffer, EventAppended
<1> QED BY <1>1

\* The replay buffer in which a frame is marked as sent (last_sent_generation).
LEMMA MarkedElements ==
    ASSUME LinesKeepTheirNumbers, NEW k \in 1 .. Len(serverPending), NEW s,
           serverPending' = [serverPending EXCEPT ![k].sentOn = s]
    PROVE  /\ Len(serverPending') = Len(serverPending)
           /\ \A i \in 1 .. Len(serverPending) :
                /\ serverPending'[i].sequence = serverPending[i].sequence
                /\ serverPending'[i].payload = serverPending[i].payload
                /\ serverPending'[i].sentOn = IF i = k THEN s ELSE serverPending[i].sentOn
<1>1. \A j \in 1 .. Len(serverPending) : serverPending[j] \in ServerFrame
  BY ServerBuffer, ElementOfSeq
<1>2. Len(serverPending') = Len(serverPending)
  BY ServerBuffer
<1> QED BY <1>1, <1>2, ServerBuffer DEF ServerFrame

\* No frame was handed to a socket without a task.
LEMMA SentKeeps ==
    ASSUME LinesKeepTheirNumbers, SocketInv, SentInv, SessionNext
    PROVE  SentInv'
<1>1. session \in SessionState(ServerEnvelopes) /\ TransportInv /\ Len(serverPending) \in Nat
      /\ NoSocket \notin Sockets
  BY ServerBuffer, NetworkAssumption
  DEF LinesKeepTheirNumbers, SessionInv, SocketInv, Sockets, NoSocket
<1>2. \A i \in 1 .. Len(serverPending) : serverPending[i].sentOn \in Sockets \cup {NoSocket}
  <2>1. \A i \in 1 .. Len(serverPending) : serverPending[i] \in ServerFrame
    BY ServerBuffer, ElementOfSeq
  <2> QED BY <2>1 DEF ServerFrame
<1>3. \A s \in Sockets : tasks'[s].state = "none" => tasks[s].state = "none"
  BY SessionTakes
<1>4. CASE PumpReplay
  <2>1. PICK k \in Unsent : /\ \A j \in Unsent : k <= j
                            /\ serverPending' = [serverPending EXCEPT
                                                   ![k].sentOn = session.transport]
    BY <1>4 DEF PumpReplay
  <2>2. /\ session.pc = "top" /\ UNCHANGED session /\ session.transport # NoSocket
        /\ Open(session.transport) /\ k \in 1 .. Len(serverPending)
    BY <1>4 DEF PumpReplay, Unsent
  <2>3. /\ Len(serverPending') = Len(serverPending)
        /\ \A i \in 1 .. Len(serverPending) :
             /\ serverPending'[i].sequence = serverPending[i].sequence
             /\ serverPending'[i].payload = serverPending[i].payload
             /\ serverPending'[i].sentOn = IF i = k THEN session.transport
                                           ELSE serverPending[i].sentOn
    BY <2>1, <2>2, MarkedElements
  <2>4. session.transport \in Sockets /\ tasks[session.transport].state # "none"
    BY <1>1, <2>2 DEF SessionState, Open
  <2>5. \A i \in 1 .. Len(serverPending) : i < k => serverPending[i].sentOn = session.transport
    BY <2>1, <2>2 DEF Unsent
  <2>6. session.attaching = NoSocket
    BY <1>1, <2>2 DEF TransportInv
  <2>7. \A i, j \in 1 .. Len(serverPending) :
          i <= j /\ serverPending'[j].sentOn = session.transport =>
            serverPending'[i].sentOn = session.transport
    <3> SUFFICES ASSUME NEW i \in 1 .. Len(serverPending), NEW j \in 1 .. Len(serverPending),
                        i <= j, serverPending'[j].sentOn = session.transport
                 PROVE  serverPending'[i].sentOn = session.transport
      OBVIOUS
    <3>1. i = k \/ i < k \/ (k < i /\ j # k)
      BY <2>2
    <3> QED BY <2>2, <2>3, <2>5, <3>1 DEF SentInv
  <2>8. \A i \in 1 .. Len(serverPending') :
          serverPending'[i].sentOn # NoSocket => tasks'[serverPending'[i].sentOn].state # "none"
    BY <1>2, <1>3, <2>3, <2>4 DEF SentInv
  <2> QED BY <2>2, <2>3, <2>6, <2>7, <2>8 DEF SentInv
<1>5. CASE AttachEnqueues
  <2>1. /\ session.pc = "attach" /\ session.setupAt < SetupLength /\ Open(session.attaching)
        /\ serverPending' = IF session.setupAt <= 1 THEN serverPending
                            ELSE [serverPending EXCEPT
                                    ![session.setupAt - 1].sentOn = session.attaching]
        /\ session' = [session EXCEPT !.setupAt = @ + 1]
    BY <1>5 DEF AttachEnqueues
  <2>2. /\ session'.setupAt = session.setupAt + 1 /\ session.setupAt \in Nat
        /\ session'.pc = "attach" /\ session'.attaching = session.attaching
        /\ session'.transport = session.transport /\ session.transport = NoSocket
        /\ session.attaching # NoSocket /\ session.attaching \in Sockets
    BY <1>1, <2>1 DEF SessionState, TransportInv
  <2>3. \A i \in 1 .. Len(serverPending) :
          serverPending[i].sentOn = session.attaching <=> i < session.setupAt - 1
    BY <2>2 DEF SentInv
  <2>4. /\ Len(serverPending') = Len(serverPending)
        /\ \A i \in 1 .. Len(serverPending) :
             serverPending'[i].sentOn = IF i = session.setupAt - 1 THEN session.attaching
                                        ELSE serverPending[i].sentOn
    <3>1. CASE session.setupAt <= 1
      <4>1. \A i \in 1 .. Len(serverPending) : i # session.setupAt - 1
        BY <2>2, <3>1
      <4> QED BY <2>1, <3>1, <4>1
    <3>2. CASE ~(session.setupAt <= 1)
      <4>1. session.setupAt - 1 \in 1 .. Len(serverPending)
        BY <1>1, <2>1, <2>2, <3>2 DEF SetupLength
      <4> QED BY <2>1, <3>2, <4>1, MarkedElements
    <3> QED BY <3>1, <3>2
  <2>5. \A i \in 1 .. Len(serverPending') :
          serverPending'[i].sentOn = session.attaching <=> i < session'.setupAt - 1
    <3> SUFFICES ASSUME NEW i \in 1 .. Len(serverPending)
                 PROVE  serverPending'[i].sentOn = session.attaching <=> i < session'.setupAt - 1
      BY <2>4
    <3>1. i < session'.setupAt - 1 <=> i = session.setupAt - 1 \/ i < session.setupAt - 1
      BY <2>2
    <3> QED BY <2>3, <2>4, <3>1
  <2>6. \A i \in 1 .. Len(serverPending') :
          serverPending'[i].sentOn # NoSocket => tasks'[serverPending'[i].sentOn].state # "none"
    BY <1>2, <1>3, <2>1, <2>2, <2>4 DEF SentInv, Open
  <2>7. session'.setupAt <= SetupLength'
    BY <1>1, <2>1, <2>2, <2>4 DEF SetupLength
  <2> QED BY <2>2, <2>5, <2>6, <2>7 DEF SentInv
<1>6. CASE AttachSucceeds
  <2>1. /\ session.pc = "attach" /\ session.setupAt = SetupLength
        /\ session'.pc = "top" /\ session'.attaching = NoSocket
        /\ session'.transport = session.attaching /\ session.attaching # NoSocket
        /\ UNCHANGED <<serverPending, tasks>>
    BY <1>1, <1>6 DEF AttachSucceeds, SessionState, TransportInv, frameVars, channelVars
  <2>2. \A i \in 1 .. Len(serverPending) : i < session.setupAt - 1
    BY <1>1, <2>1 DEF SetupLength
  <2>3. \A i \in 1 .. Len(serverPending) : serverPending[i].sentOn = session.attaching
    BY <2>1, <2>2 DEF SentInv
  <2> QED BY <2>1, <2>3 DEF SentInv
<1>7. CASE TakeAttachment
  <2>1. /\ session'.pc = "attach" /\ session'.attaching = Head(attachments)
        /\ session'.transport = NoSocket /\ session'.setupAt = 0 /\ UNCHANGED serverPending
        /\ attachments # << >> /\ attachments' = Tail(attachments)
    BY <1>1, <1>7 DEF TakeAttachment, SessionState, frameVars
  <2>2. tasks[Head(attachments)].state = "none" /\ Head(attachments) \in Sockets
    BY <2>1, QueuedTail DEF Queued, SocketInv, AttachmentInv
  <2>3. \A i \in 1 .. Len(serverPending) : serverPending[i].sentOn # Head(attachments)
    BY <1>1, <2>2 DEF SentInv
  <2>4. \A i \in 1 .. Len(serverPending) : ~(i < 0 - 1)
    OBVIOUS
  <2>5. 0 <= SetupLength'
    BY <1>1, <2>1 DEF SetupLength
  <2>6. \A i \in 1 .. Len(serverPending) :
          serverPending[i].sentOn # NoSocket => tasks'[serverPending[i].sentOn].state # "none"
    BY <1>2, <1>3 DEF SentInv
  <2> QED BY <2>1, <2>3, <2>4, <2>5, <2>6 DEF SentInv
<1>8. CASE EnterSelect
  <2>1. /\ session' = [session EXCEPT !.pc = IF /\ session.childStatus
                                                /\ session.transport # NoSocket
                                                /\ Unsent = {}
                                               THEN "exit" ELSE "select"]
        /\ UNCHANGED <<serverPending, tasks>> /\ session.pc = "top"
    BY <1>8 DEF EnterSelect, Proceed, frameVars, channelVars
  <2>2. /\ session'.transport = session.transport /\ session'.attaching = session.attaching
        /\ session.attaching = NoSocket
    BY <1>1, <2>1 DEF SessionState, TransportInv
  <2>3. session'.pc = "exit" => Unsent = {}
    BY <1>1, <2>1 DEF SessionState
  <2>4. session'.pc = "exit" =>
          \A i \in 1 .. Len(serverPending) : serverPending[i].sentOn = session.transport
    BY <2>3 DEF Unsent
  <2> QED BY <2>1, <2>2, <2>4 DEF SentInv
<1>9. CASE Rests
  <2>1. CASE UNCHANGED <<serverPending, nextServer>>
    <3>1. \A i \in 1 .. Len(serverPending) :
            serverPending[i].sentOn # NoSocket => tasks'[serverPending[i].sentOn].state # "none"
      BY <1>2, <1>3 DEF SentInv
    <3>2. SetupLength' = SetupLength
      BY <2>1 DEF SetupLength
    <3> QED BY <1>9, <2>1, <3>1, <3>2 DEF Rests, SentInv
  <2>2. CASE Frees
    <3>1. PICK k \in 0 .. Len(serverPending) : serverPending' = Popped(serverPending, k)
      BY <2>2 DEF Frees
    <3>2. /\ Len(serverPending') = Len(serverPending) - k /\ Len(serverPending) \in Nat
          /\ \A i \in 1 .. Len(serverPending') :
               /\ k + i \in 1 .. Len(serverPending)
               /\ serverPending'[i] = serverPending[k + i]
      BY <3>1, FreedElements
    <3>3. \A i \in 1 .. Len(serverPending') :
            serverPending'[i].sentOn # NoSocket => tasks'[serverPending'[i].sentOn].state # "none"
      BY <1>2, <1>3, <3>2 DEF SentInv
    <3>4. session.transport # NoSocket =>
            \A i, j \in 1 .. Len(serverPending') :
              i <= j /\ serverPending'[j].sentOn = session.transport =>
                serverPending'[i].sentOn = session.transport
      <4>1. \A i, j \in 1 .. Len(serverPending') : i <= j => k + i <= k + j
        BY <3>2
      <4> QED BY <3>2, <4>1 DEF SentInv
    <3>5. session'.attaching = NoSocket
      BY <1>1, <1>9, <2>2 DEF Rests, Frees, TransportInv
    <3> QED BY <1>9, <3>3, <3>4, <3>5 DEF Rests, SentInv
  <2>3. CASE Queues
    <3>1. PICK f : f.sentOn = NoSocket /\ serverPending' = Append(serverPending, f)
      BY <2>3 DEF Queues
    <3>2. /\ Len(serverPending') = Len(serverPending) + 1 /\ Len(serverPending) \in Nat
          /\ \A i \in 1 .. Len(serverPending) : serverPending'[i] = serverPending[i]
          /\ serverPending'[Len(serverPending) + 1] = f
          /\ \A i \in 1 .. Len(serverPending') :
               i \in 1 .. Len(serverPending) \/ i = Len(serverPending) + 1
      BY <3>1, QueuedElements
    <3>3. \A i \in 1 .. Len(serverPending') :
            serverPending'[i].sentOn # NoSocket => tasks'[serverPending'[i].sentOn].state # "none"
      BY <1>2, <1>3, <3>1, <3>2 DEF SentInv
    <3>4. session.transport # NoSocket =>
            \A i, j \in 1 .. Len(serverPending') :
              i <= j /\ serverPending'[j].sentOn = session.transport =>
                serverPending'[i].sentOn = session.transport
      <4> SUFFICES ASSUME session.transport # NoSocket, NEW i \in 1 .. Len(serverPending'),
                          NEW j \in 1 .. Len(serverPending'), i <= j,
                          serverPending'[j].sentOn = session.transport
                   PROVE  serverPending'[i].sentOn = session.transport
        OBVIOUS
      <4>1. j \in 1 .. Len(serverPending)
        BY <3>1, <3>2
      <4>2. i \in 1 .. Len(serverPending)
        BY <3>2, <4>1
      <4> QED BY <3>2, <4>1, <4>2 DEF SentInv
    <3>5. session'.attaching = NoSocket
      BY <1>1, <1>9, <2>3 DEF Rests, Queues, TransportInv
    <3> QED BY <1>9, <3>3, <3>4, <3>5 DEF Rests, SentInv
  <2> QED BY <1>9, <2>1, <2>2, <2>3 DEF Rests
<1> QED BY <1>1, <1>4, <1>5, <1>6, <1>7, <1>8, <1>9, FrameSteps

\* Nothing else touches the replay buffer.
LEMMA SentStays ==
    ASSUME LinesKeepTheirNumbers, SocketInv, EndInv, SentInv, [Next]_vars
    PROVE  SentInv'
<1>1. ASSUME UNCHANGED <<serverPending, session, tasks>> PROVE SentInv'
  BY <1>1 DEF SentInv, SetupLength
<1>2. CASE ConnectorStep \/ NetworkStep \/ UNCHANGED vars
  BY <1>1, <1>2 DEF ConnectorStep, NetworkStep, vars, serverVars, channelVars, frameVars
<1>3. CASE ServerStep
  <2>1. CASE SessionNext
    BY <2>1, SentKeeps
  <2>2. CASE AgentWrites \/ AgentExits \/ Cancel
    BY <1>1, <2>2 DEF AgentWrites, AgentExits, Cancel, channelVars, frameVars
  <2>3. ASSUME NEW t \in Sockets, TaskNext(t) PROVE SentInv'
    <3>1. /\ session'.pc = session.pc /\ session'.transport = session.transport
          /\ session'.attaching = session.attaching /\ session'.setupAt = session.setupAt
          /\ UNCHANGED serverPending
      BY <2>3, TaskOver
    <3>2. \A u \in Sockets : tasks'[u].state = "none" => tasks[u].state = "none"
      BY <2>3, TaskMoves DEF SocketInv
    <3>3. \A i \in 1 .. Len(serverPending) : serverPending[i].sentOn \in Sockets \cup {NoSocket}
      <4>1. \A i \in 1 .. Len(serverPending) : serverPending[i] \in ServerFrame
        BY ServerBuffer, ElementOfSeq
      <4> QED BY <4>1 DEF ServerFrame
    <3>4. SetupLength' = SetupLength
      BY <3>1 DEF SetupLength
    <3> QED BY <3>1, <3>2, <3>3, <3>4 DEF SentInv
  <2>4. ASSUME NEW t \in Sockets, AcceptResume(t) PROVE SentInv'
    BY <1>1, <2>4 DEF AcceptResume, frameVars
  <2> QED BY <1>3, <2>1, <2>2, <2>3, <2>4 DEF ServerStep, ServerNext
<1> QED BY <1>2, <1>3 DEF Next

\* At first no frame is marked and no Exit is on its way.
LEMMA SentInit == Init => ExitInv /\ SentInv
<1> SUFFICES ASSUME Init PROVE ExitInv /\ SentInv
  OBVIOUS
<1>1. session.pc = "top" /\ session.attaching = NoSocket /\ serverPending = << >>
      /\ s2c = [s \in Sockets |-> << >>] /\ client.socket = 1
      /\ tasks = [s \in Sockets |-> IF s = 1 THEN StartedTask ELSE NoTask]
  BY DEF Init, SessionInit, NetworkInit, ConnectorInit
<1>2. Len(<< >>) = 0
  OBVIOUS
<1>3. SentInv
  BY <1>1, <1>2 DEF SentInv
<1>4. ASSUME NEW s \in Sockets, s = client.socket PROVE ExitOK(s)
  <2>1. s2c[s] = << >> /\ tasks[s] = StartedTask
    BY <1>1, <1>4
  <2>2. tasks[s].writing = << >> /\ tasks[s].commands = << >>
    BY <2>1 DEF StartedTask, NoTask
  <2> QED BY <2>1, <2>2, WithoutEmpty DEF ExitOK
<1> QED BY <1>3, <1>4 DEF ExitInv

-----------------------------------------------------------------------------
(* What is on its way to the connector has no gap.                         *)

\* The numbers on their way to the connector on socket s.
Coming(s) == Pending3(s2c[s], tasks[s].writing, tasks[s].commands)

\* A reader that expects x and is told of top lines finds no gap; a socket
\* that is lost carries only what is in its stream.
Flows(s, x, top) ==
    /\ Gapless(s2c[s], {}, x, top)
    /\ up[s] => InOrder(s2c[s], tasks[s].writing, tasks[s].commands, x, top)

\* Every move of the queues to the connector but a push and its own.
Drains(s) == Same(s) \/ Loses(s) \/ Finishes(s) \/ Refuses(s) \/ Blocks(s) \/ Emits(s)

\* No such move opens a gap.
LEMMA FlowDrains ==
    ASSUME LinesKeepTheirNumbers, NEW s \in Sockets, NEW x \in Nat, NEW top \in Nat,
           Flows(s, x, top), Drains(s)
    PROVE  /\ Gapless(s2c'[s], {}, x, top)
           /\ up'[s] => /\ up[s]
                        /\ InOrder(s2c'[s], tasks'[s].writing, tasks'[s].commands, x, top)
                        /\ Coming(s) \subseteq
                             Pending3(s2c'[s], tasks'[s].writing, tasks'[s].commands)
<1> DEFINE a == s2c[s]
           b == tasks[s].writing
           c == tasks[s].commands
           a2 == s2c'[s]
           b2 == tasks'[s].writing
           c2 == tasks'[s].commands
<1>1. a \in Seq(Envelopes) /\ b \in Seq(Envelopes) /\ c \in Seq(Envelopes) /\ up[s] \in BOOLEAN
  BY PipeTypes
<1>2. /\ Gapless(a, {}, x, top)
      /\ up[s] => InOrder(a, b, c, x, top)
      /\ Coming(s) = Pending3(a, b, c)
  BY DEF Flows, Coming
<1> DEFINE Goal == /\ Gapless(a2, {}, x, top)
                   /\ up'[s] => /\ up[s] /\ InOrder(a2, b2, c2, x, top)
                                /\ Pending3(a, b, c) \subseteq Pending3(a2, b2, c2)
<1>4. CASE Same(s)
  BY <1>2, <1>4 DEF Same
<1>5. CASE Loses(s)
  <2>1. Cut(a2, a) /\ ~up'[s]
    BY <1>5 DEF Loses
  <2>2. Goal
    <3> HIDE DEF a, b, c, a2, b2, c2
    <3> QED BY <1>1, <1>2, <2>1, GaplessCut
  <2> QED BY <1>2, <2>2
<1>6. CASE Finishes(s)
  <2>1. PICK e \in Envelopes : e.type = "shutdown_complete" /\ Cut(a2, Append(a, e))
    BY <1>6 DEF Finishes
  <2>2. ~up'[s]
    BY <1>6 DEF Finishes
  <2>3. Append(a, e) \in Seq(Envelopes)
    BY <1>1, AppendIn
  <2>4. Preceded(e, {} \cup Numbers(a), x, top)
    BY <2>1 DEF Preceded, Follows
  <2>5. Goal
    <3> HIDE DEF a, b, c, a2, b2, c2
    <3>1. Gapless(Append(a, e), {}, x, top)
      BY <1>1, <1>2, <2>4, GaplessAppend
    <3> QED BY <2>1, <2>2, <2>3, <3>1, GaplessCut
  <2> QED BY <1>2, <2>5
<1>7. CASE Refuses(s)
  <2>1. Control("error").type = "error" /\ ~up'[s]
    BY <1>7 DEF Refuses, Control
  <2>2. Preceded(Control("error"), {}, x, top)
    BY <2>1 DEF Preceded, Follows
  <2>3. Gapless(<< >>, {}, x, top) /\ Gapless(<<Control("error")>>, {}, x, top)
    BY <2>2, GaplessEmpty, GaplessOne
  <2> QED BY <1>2, <1>7, <2>1, <2>3 DEF Refuses
<1>8. CASE Blocks(s)
  <2>1. /\ up'[s] = up[s] /\ a2 = a /\ b = << >> /\ c # << >>
        /\ b2 = <<Head(c)>> /\ c2 = Tail(c)
    BY <1>8 DEF Blocks
  <2>2. Goal
    <3> HIDE DEF a, b, c, a2, b2, c2
    <3> QED BY <1>1, <1>2, <2>1, BlockInOrder
  <2> QED BY <1>2, <2>2
<1>9. CASE Emits(s)
  <2> DEFINE e == Current(s)
  <2>1. /\ up[s] /\ a2 = Append(a, e) /\ b2 = << >>
        /\ \/ b = <<e>> /\ c2 = c
           \/ b = << >> /\ c # << >> /\ e = Head(c) /\ c2 = Tail(c)
    BY <1>9 DEF Emits
  <2>2. Goal
    <3> HIDE DEF a, b, c, a2, b2, c2, e
    <3>1. CASE b = <<e>> /\ c2 = c
      <4>1. e \in Envelopes
        <5>1. Head(<<e>>) = e /\ <<e>> # << >>
          OBVIOUS
        <5> QED BY <1>1, <3>1, <5>1, HeadIn
      <4>2. /\ InOrder(Append(a, e), << >>, c, x, top)
            /\ Pending3(Append(a, e), << >>, c) = Pending3(a, b, c)
        BY <1>1, <1>2, <2>1, <3>1, <4>1, WriteInOrder
      <4>3. InOrder(a2, b2, c2, x, top) /\ Pending3(a2, b2, c2) = Pending3(a, b, c)
        BY <2>1, <3>1, <4>2
      <4> QED BY <2>1, <4>3 DEF InOrder
    <3>2. CASE b = << >> /\ c # << >> /\ e = Head(c) /\ c2 = Tail(c)
      <4>2. /\ InOrder(Append(a, e), << >>, c2, x, top)
            /\ Pending3(Append(a, e), << >>, c2) = Pending3(a, << >>, c)
        BY <1>1, <1>2, <2>1, <3>2, PassInOrder
      <4>3. InOrder(a2, b2, c2, x, top) /\ Pending3(a2, b2, c2) = Pending3(a, b, c)
        BY <2>1, <3>2, <4>2
      <4> QED BY <2>1, <4>3 DEF InOrder
    <3> QED BY <2>1, <3>1, <3>2
  <2> QED BY <1>2, <2>2
<1> QED BY <1>4, <1>5, <1>6, <1>7, <1>8, <1>9 DEF Drains

\* Nor does an envelope that comes after what it follows.
LEMMA FlowPushes ==
    ASSUME LinesKeepTheirNumbers, NEW s \in Sockets, NEW x \in Nat, NEW top \in Nat,
           Flows(s, x, top), NEW e \in Envelopes, Pushes(s, e),
           up[s] => Preceded(e, Coming(s), x, top)
    PROVE  /\ Gapless(s2c'[s], {}, x, top)
           /\ up'[s] => /\ up[s]
                        /\ InOrder(s2c'[s], tasks'[s].writing, tasks'[s].commands, x, top)
                        /\ Coming(s) \subseteq
                             Pending3(s2c'[s], tasks'[s].writing, tasks'[s].commands)
<1> DEFINE a == s2c[s]
           b == tasks[s].writing
           c == tasks[s].commands
           a2 == s2c'[s]
           b2 == tasks'[s].writing
           c2 == tasks'[s].commands
<1>1. a \in Seq(Envelopes) /\ b \in Seq(Envelopes) /\ c \in Seq(Envelopes) /\ up[s] \in BOOLEAN
  BY PipeTypes
<1>2. /\ Gapless(a, {}, x, top)
      /\ up[s] => InOrder(a, b, c, x, top)
      /\ Coming(s) = Pending3(a, b, c)
  BY DEF Flows, Coming
<1> DEFINE Goal == /\ Gapless(a2, {}, x, top)
                   /\ up'[s] => /\ up[s] /\ InOrder(a2, b2, c2, x, top)
                                /\ Pending3(a, b, c) \subseteq Pending3(a2, b2, c2)
<1>3. up'[s] = up[s] /\ a2 = a /\ b2 = b /\ c2 = Append(c, e)
  BY DEF Pushes
<1>4. up[s] => Preceded(e, Pending3(a, b, c), x, top)
  BY <1>2
<1>5. Goal
  <2> HIDE DEF a, b, c, a2, b2, c2
  <2>1. CASE up[s]
    <3>1. /\ InOrder(a, b, Append(c, e), x, top)
          /\ Pending3(a, b, Append(c, e)) = Pending3(a, b, c) \cup Covers(e)
      BY <1>1, <1>2, <1>4, <2>1, PushInOrder
    <3>2. InOrder(a2, b2, c2, x, top) /\ Pending3(a, b, c) \subseteq Pending3(a2, b2, c2)
      BY <1>3, <3>1
    <3> QED BY <1>2, <1>3, <2>1, <3>2
  <2>2. CASE ~up[s]
    BY <1>2, <1>3, <2>2
  <2> QED BY <1>1, <2>1, <2>2
<1> QED BY <1>2, <1>5

\* What was pushed is on its way.
LEMMA PushCovers ==
    ASSUME LinesKeepTheirNumbers, NEW s \in Sockets, NEW e \in Envelopes, Pushes(s, e)
    PROVE  Covers(e) \subseteq Coming(s)'
<1> DEFINE c == tasks[s].commands
           c2 == tasks'[s].commands
<1>1. c \in Seq(Envelopes) /\ c2 = Append(c, e)
  BY PipeTypes DEF Pushes
<1>2. Numbers(c2) \subseteq Coming(s)'
  BY DEF Coming, Pending3
<1> HIDE DEF c, c2
<1>3. Numbers(c2) = Numbers(c) \cup Covers(e)
  BY <1>1, NumbersAppend
<1> QED BY <1>2, <1>3

\* A frame that was handed to socket s is on its way, or was read.
Handed(s) ==
    \A i \in 1 .. Len(serverPending) :
      serverPending[i].sentOn = s =>
        \/ serverPending[i].sequence < expectedServer
        \/ serverPending[i].sequence \in Coming(s)

\* The connector finds no gap on socket s, nor in what is said next.
OutputOK(s) ==
    /\ Flows(s, expectedServer, nextServer)
    /\ up[s] /\ s = session.transport =>
         Gapless(session.outbox, Coming(s), expectedServer, nextServer)
    /\ up[s] /\ s \in {session.transport, session.attaching} => Handed(s)
OutputInv == ~client.closing => \A s \in Sockets : s = client.socket => OutputOK(s)

\* A retained frame comes after those before it, which were handed over.
LEMMA FramePreceded ==
    ASSUME LinesKeepTheirNumbers, RetainInv, NEW s \in Sockets, Handed(s),
           NEW i \in 1 .. Len(serverPending),
           i > 1 => serverPending[i - 1].sentOn = s
    PROVE  Preceded(Acp(serverPending[i]), Coming(s), expectedServer, nextServer)
<1>1. /\ nextServer \in Nat /\ expectedServer \in Nat /\ Len(serverPending) \in Nat
      /\ \A j \in 1 .. Len(serverPending) :
           serverPending[j].sequence = nextServer - Len(serverPending) + j - 1
      /\ nextServer - Len(serverPending) <= expectedServer
  BY Expected, ServerBuffer DEF RetainInv, Reaches, Run
<1>2. Follows(Acp(serverPending[i]), nextServer) = serverPending[i].sequence
  BY DEF Follows, Acp
<1>3. CASE i = 1
  BY <1>1, <1>2, <1>3 DEF Preceded
<1>4. CASE i > 1
  <2>1. i - 1 \in 1 .. Len(serverPending)
    BY <1>1, <1>4
  <2>2. serverPending[i - 1].sequence = serverPending[i].sequence - 1
    <3>1. serverPending[i].sequence = nextServer - Len(serverPending) + i - 1
      BY <1>1
    <3>2. serverPending[i - 1].sequence = nextServer - Len(serverPending) + (i - 1) - 1
      BY <1>1, <2>1
    <3> QED BY <1>1, <3>1, <3>2
  <2>3. serverPending[i].sequence \in Int
    BY <1>1
  <2>4. \/ serverPending[i].sequence - 1 < expectedServer
        \/ serverPending[i].sequence - 1 \in Coming(s)
    BY <1>4, <2>1, <2>2 DEF Handed
  <2> QED BY <1>1, <1>2, <2>3, <2>4 DEF Preceded
<1> QED BY <1>1, <1>3, <1>4

\* What the session says leaves no gap.
LEMMA SaidPreceded ==
    ASSUME LinesKeepTheirNumbers, SocketInv, RetainInv, OutboxInv, SentInv,
           NEW s \in Sockets, OutputOK(s), up[s], NEW e, Says(s, e)
    PROVE  Preceded(e, Coming(s), expectedServer, nextServer)
<1>1. /\ session \in SessionState(ServerEnvelopes) /\ s # NoSocket
      /\ expectedServer \in Nat /\ nextServer \in Nat /\ expectedServer > 0
      /\ Len(serverPending) \in Nat
  BY Expected, ServerBuffer, NetworkAssumption
  DEF LinesKeepTheirNumbers, SessionInv, Sockets, NoSocket
<1>2. ASSUME e.type \notin {"acp", "shutdown", "exit"}
      PROVE  Preceded(e, Coming(s), expectedServer, nextServer)
  BY <1>1, <1>2 DEF Preceded, Follows
<1>3. CASE Pumps(s, e)
  <2>1. PICK i \in Unsent : (\A j \in Unsent : i <= j) /\ e = Acp(serverPending[i])
    BY <1>3 DEF Pumps
  <2>2. i \in 1 .. Len(serverPending) /\ s = session.transport
    BY <1>3, <2>1 DEF Unsent, Pumps
  <2>3. i > 1 => serverPending[i - 1].sentOn = s
    <3> SUFFICES ASSUME i > 1 PROVE serverPending[i - 1].sentOn = s
      OBVIOUS
    <3>1. i - 1 \in 1 .. Len(serverPending) /\ ~(i <= i - 1)
      BY <1>1, <2>2
    <3>2. i - 1 \notin Unsent
      BY <2>1, <3>1
    <3> QED BY <2>2, <3>1, <3>2 DEF Unsent
  <2>4. Handed(s)
    BY <2>2 DEF OutputOK
  <2> QED BY <2>1, <2>2, <2>3, <2>4, FramePreceded
<1>4. CASE SetsUp(s, e)
  <2>1. /\ session.attaching = s /\ e = SetupEnvelope(session.setupAt)
        /\ session.setupAt \in Nat /\ session.setupAt < SetupLength
    BY <1>1, <1>4 DEF SetsUp, SessionState
  <2>2. CASE session.setupAt \in {0, 1}
    BY <1>2, <2>1, <2>2, SetupCases DEF SetupEnvelope, Control, Ack
  <2>3. CASE session.setupAt \notin {0, 1}
    <3> DEFINE i == session.setupAt - 1
    <3>1. i \in 1 .. Len(serverPending) /\ i < session.setupAt
      BY <1>1, <2>1, <2>3 DEF SetupLength
    <3>2. e = Acp(serverPending[i])
      BY <2>1, <2>3, SetupCases DEF SetupEnvelope
    <3>3. i > 1 => serverPending[i - 1].sentOn = s
      <4> SUFFICES ASSUME i > 1 PROVE serverPending[i - 1].sentOn = s
        OBVIOUS
      <4>1. i - 1 \in 1 .. Len(serverPending) /\ i - 1 < session.setupAt - 1
        BY <1>1, <2>1, <3>1
      <4> QED BY <1>1, <2>1, <4>1 DEF SentInv
    <3>4. Handed(s)
      BY <2>1 DEF OutputOK
    <3> HIDE DEF i
    <3> QED BY <3>1, <3>2, <3>3, <3>4, FramePreceded
  <2> QED BY <2>2, <2>3
<1>5. CASE Exits(s, e)
  <2>1. /\ e.type = "exit" /\ s = session.transport /\ session.pc = "exit"
    BY <1>5 DEF Exits, Control
  <2>2. Follows(e, nextServer) = nextServer
    BY <2>1 DEF Follows
  <2>3. /\ \A j \in 1 .. Len(serverPending) :
             serverPending[j].sequence = nextServer - Len(serverPending) + j - 1
        /\ nextServer - Len(serverPending) <= expectedServer
    BY DEF RetainInv, Reaches, Run
  <2>4. CASE Len(serverPending) = 0
    BY <1>1, <2>2, <2>3, <2>4 DEF Preceded
  <2>5. CASE Len(serverPending) # 0
    <3> DEFINE i == Len(serverPending)
    <3>1. i \in 1 .. Len(serverPending)
      BY <1>1, <2>5
    <3>2. serverPending[i].sequence = nextServer - 1
      BY <1>1, <2>3, <3>1
    <3>3. serverPending[i].sentOn = s
      BY <2>1, <3>1 DEF SentInv
    <3>4. nextServer - 1 < expectedServer \/ nextServer - 1 \in Coming(s)
      BY <2>1, <3>1, <3>2, <3>3 DEF OutputOK, Handed
    <3> QED BY <1>1, <2>2, <3>4 DEF Preceded
  <2> QED BY <2>4, <2>5
<1>6. CASE Replies(s, e)
  BY <1>2, <1>6 DEF Replies, OutboxInv
<1>7. CASE Notes(s, e)
  BY <1>2, <1>7 DEF Notes, Control
<1>8. CASE Parts(s, e)
  <2>1. /\ session.outbox # << >> /\ e = Head(session.outbox) /\ s = session.transport
    BY <1>8 DEF Parts
  <2>2. Gapless(session.outbox, Coming(s), expectedServer, nextServer)
    BY <2>1 DEF OutputOK
  <2> QED BY <1>1, <2>1, <2>2, GaplessTail, PipeTypes
<1> QED BY <1>3, <1>4, <1>5, <1>6, <1>7, <1>8 DEF Says

\* The last envelopes are chosen when the agent is reaped.
LEMMA ToFarewell ==
    ASSUME LinesKeepTheirNumbers, SessionNext, session'.pc = "farewell"
    PROVE  ReapAgent \/ SendFarewell
<1>1. session \in SessionState(ServerEnvelopes)
  BY DEF LinesKeepTheirNumbers, SessionInv
<1>2. ASSUME NEW p \in {"top", "select"}, Detach(p) PROVE FALSE
  BY <1>1, <1>2 DEF Detach, SessionState
<1>3. ASSUME NEW c, NEW S, Leave(c, S) PROVE FALSE
  BY <1>1, <1>3 DEF Leave, SessionState
<1>4. ~PumpFindsClosed /\ ~KeepaliveExpires /\ ~ExitFails
  BY <1>2 DEF PumpFindsClosed, KeepaliveExpires, ExitFails
<1>5. ~ReapFails /\ ~EndSession
  BY <1>3 DEF ReapFails, Abandon, EndSession
<1>6. ~EnterSelect /\ ~Wake /\ ~PumpReplay /\ ~SendNoise
  BY <1>1 DEF EnterSelect, Wake, PumpReplay, SendNoise, Proceed, SessionState
<1>7. ~ExitConfirmed /\ ~ServerShutdown /\ ~GraceExpires /\ ~ChildWait
  BY <1>1 DEF ExitConfirmed, ServerShutdown, GraceExpires, EndLoop, ChildWait, SessionState
<1>8. ~ReadAgent /\ ~SendExit /\ ~SendReply
  BY <1>1 DEF ReadAgent, EndLoop, Proceed, SendExit, SendReply, SessionState
<1>9. ~TakeAttachment /\ ~AttachEnqueues
  BY <1>1 DEF TakeAttachment, AttachEnqueues, SessionState
<1>10. ~AttachSucceeds /\ ~AttachFails
  BY <1>1 DEF AttachSucceeds, AttachFails, AfterFailedAttach, SessionState
<1>11. ~ReceiveEvent
  <2> SUFFICES ASSUME ReceiveEvent PROVE FALSE
    OBVIOUS
  <2>1. ASSUME NEW p \in {"top", "reap", "reply"}, NEW c,
               \/ session' = [session EXCEPT !.pc = p]
               \/ session' = [session EXCEPT !.pc = p, !.endCategory = c]
               \/ session' = [session EXCEPT !.pc = p, !.outbox = c]
               \/ session' = [session EXCEPT !.pc = p, !.endCategory = c, !.registered = FALSE]
        PROVE  FALSE
    BY <1>1, <2>1 DEF SessionState
  <2>2. ~(Stale(Head(events)) /\ Only(Proceed("top"))) /\ ~Detach("top")
    BY <1>2, <2>1 DEF Only, Proceed
  <2>3. ~HandleAcp(Head(events).envelope)
    BY <1>3, <2>1 DEF HandleAcp, ForwardLine, RejectLine, Accept, Abandon, Reply, Only, EndLoop
  <2>4. ~HandleAck(Head(events).envelope)
    BY <2>1 DEF HandleAck, Proceed
  <2>5. ~HandleControl(Head(events).envelope)
    BY <2>1 DEF HandleControl, Reply, Only, Proceed
  <2>6. \A c : ~Only(EndLoop(c))
    BY <2>1 DEF Only, EndLoop
  <2> QED BY <2>2, <2>3, <2>4, <2>5, <2>6 DEF ReceiveEvent, HandleClientEnvelope
<1> QED BY <1>4, <1>5, <1>6, <1>7, <1>8, <1>9, <1>10, <1>11 DEF SessionNext

\* `exit` is only left to say once `error` was said.
LEMMA ErrorSaid ==
    ASSUME LinesKeepTheirNumbers, TransportInv, OutboxInv, SessionNext,
           session'.pc = "farewell", session'.outbox = <<Control("exit")>>,
           NEW s \in Sockets, s = session'.transport
    PROVE  Pushes(s, Control("error"))
<1>1. session \in SessionState(ServerEnvelopes)
  BY DEF LinesKeepTheirNumbers, SessionInv
<1>2. Head(<<Control("exit")>>) = Control("exit") /\ Control("exit").type = "exit"
      /\ Control("shutdown_complete").type = "shutdown_complete"
      /\ Control("error").type = "error"
      /\ Head(<<Control("shutdown_complete")>>) = Control("shutdown_complete")
      /\ Head(<<Control("error"), Control("exit")>>) = Control("error")
  BY DEF Control
<1>3. ~ReapAgent
  <2> SUFFICES ASSUME ReapAgent PROVE FALSE
    OBVIOUS
  <2>1. session'.outbox = Farewell
    BY <1>1 DEF ReapAgent, SessionState
  <2>2. CASE \/ session.transport = NoSocket
             \/ session.endCategory \in {"child_exit", "reconnect_timeout"}
    BY <2>1, <2>2 DEF Farewell
  <2>3. CASE session.transport # NoSocket /\ session.endCategory = "client_shutdown"
    BY <1>2, <2>1, <2>3 DEF Farewell
  <2>4. CASE /\ session.transport # NoSocket
             /\ session.endCategory \notin {"child_exit", "reconnect_timeout", "client_shutdown"}
    BY <1>2, <2>1, <2>4 DEF Farewell
  <2> QED BY <2>2, <2>3, <2>4
<1>4. SendFarewell
  BY <1>3, ToFarewell
<1>5. /\ session.pc = "farewell" /\ session.outbox # << >>
      /\ Enqueue(session.transport, Head(session.outbox)) /\ UNCHANGED networkVars
  BY <1>4 DEF SendFarewell
<1>6. Len(session.outbox) # 1
  BY <1>1, <1>4 DEF SendFarewell, SessionState
<1>7. session'.transport = session.transport
  BY <1>1, <1>4, <1>6 DEF SendFarewell, SessionState
<1>8. session.outbox = <<Control("error"), Control("exit")>>
  <2>1. \A e : Len(<<e>>) = 1
    OBVIOUS
  <2> QED BY <1>5, <1>6, <2>1 DEF OutboxInv
<1>9. Head(session.outbox) = Control("error")
  BY <1>2, <1>8
<1> QED BY <1>5, <1>7, <1>9, EnqueuePipe

\* When a line is queued no exit is on its way, so no queue has to wait for it.
LEMMA TopMoves ==
    ASSUME LinesKeepTheirNumbers, LinesKeepTheirNumbers', SocketInv, SendsInv, SessionNext,
           NEW s \in Sockets, ExitOK(s), Flows(s, expectedServer, nextServer)
    PROVE  Flows(s, expectedServer, nextServer')
<1>1. CASE UNCHANGED nextServer
  BY <1>1
<1>2. CASE nextServer' # nextServer
  <2>1. session.pc = "select"
    BY <1>2, SessionOver
  <2>2. /\ Without("exit", s2c[s])
        /\ up[s] => Without("exit", tasks[s].writing) /\ Without("exit", tasks[s].commands)
    BY <2>1 DEF ExitOK, Over, Exiting
  <2>3. /\ s2c[s] \in Seq(SessionSends) /\ tasks[s] \in Task(SessionSends, ReadEvents)
    BY DEF SendsInv, Carries
  <2>4. tasks[s].writing \in Seq(SessionSends) /\ tasks[s].commands \in Seq(SessionSends)
    BY <2>3 DEF Task
  <2>5. ASSUME NEW q \in Seq(SessionSends), Without("exit", q) PROVE NoEnd(q)
    <3>1. \A i \in 1 .. Len(q) : q[i] \in SessionSends
      BY ElementOfSeq
    <3> QED BY <2>5, <3>1 DEF SessionSends, Without, NoEnd
  <2>6. /\ NoEnd(s2c[s]) /\ (up[s] => NoEnd(tasks[s].writing) /\ NoEnd(tasks[s].commands))
    BY <2>2, <2>3, <2>4, <2>5
  <2>7. Gapless(s2c[s], {}, expectedServer, nextServer')
    BY <2>6, GaplessTop DEF Flows, NoEnd
  <2>8. up[s] => InOrder(s2c[s], tasks[s].writing, tasks[s].commands, expectedServer, nextServer')
    BY <2>6, TopInOrder DEF Flows
  <2> QED BY <2>7, <2>8 DEF Flows
<1> QED BY <1>1, <1>2

\* The frames that are handed over by a step of the session are on their way.
LEMMA SessionHands ==
    ASSUME LinesKeepTheirNumbers, LinesKeepTheirNumbers', SocketInv, SentInv, SessionNext,
           UNCHANGED expectedServer, NEW s \in Sockets,
           up[s] /\ s \in {session.transport, session.attaching} => Handed(s),
           up'[s], up[s], Coming(s) \subseteq Coming(s)',
           \A e : Pushes(s, e) /\ e \in Envelopes => Covers(e) \subseteq Coming(s)',
           s \in {session'.transport, session'.attaching}
    PROVE  Handed(s)'
<1>1. session \in SessionState(ServerEnvelopes) /\ TransportInv /\ s # NoSocket
      /\ Len(serverPending) \in Nat /\ NoSocket \notin Sockets
  BY ServerBuffer, NetworkAssumption
  DEF LinesKeepTheirNumbers, SessionInv, SocketInv, Sockets, NoSocket
<1>2. Handed(s)' <=>
        \A i \in 1 .. Len(serverPending') :
          serverPending'[i].sentOn = s =>
            \/ serverPending'[i].sequence < expectedServer
            \/ serverPending'[i].sequence \in Coming(s)'
  BY DEF Handed
<1>3. ASSUME s \in {session.transport, session.attaching}, NEW i \in 1 .. Len(serverPending),
             serverPending[i].sentOn = s
      PROVE  \/ serverPending[i].sequence < expectedServer
             \/ serverPending[i].sequence \in Coming(s)'
  BY <1>3 DEF Handed
<1>4. ASSUME s \in {session.transport, session.attaching}, NEW k \in 1 .. Len(serverPending),
             serverPending' = [serverPending EXCEPT ![k].sentOn = s],
             Pushes(s, Acp(serverPending[k]))
      PROVE  Handed(s)'
  <2>1. /\ Len(serverPending') = Len(serverPending)
        /\ \A i \in 1 .. Len(serverPending) :
             /\ serverPending'[i].sequence = serverPending[i].sequence
             /\ serverPending'[i].sentOn = IF i = k THEN s ELSE serverPending[i].sentOn
    BY <1>4, MarkedElements
  <2>2. serverPending[k].sequence \in Coming(s)'
    <3>1. Acp(serverPending[k]) \in Envelopes
      BY <1>4, PushedEnvelope
    <3>2. Covers(Acp(serverPending[k])) = {serverPending[k].sequence}
      BY DEF Covers, Acp
    <3> QED BY <1>4, <3>1, <3>2
  <2> SUFFICES ASSUME NEW i \in 1 .. Len(serverPending'), serverPending'[i].sentOn = s
               PROVE  \/ serverPending'[i].sequence < expectedServer
                      \/ serverPending'[i].sequence \in Coming(s)'
    BY <1>2
  <2>3. CASE i = k
    BY <2>1, <2>2, <2>3
  <2>4. CASE i # k
    BY <1>3, <1>4, <2>1, <2>4
  <2> QED BY <2>3, <2>4
<1>5. ASSUME s \in {session.transport, session.attaching}, UNCHANGED serverPending
      PROVE  Handed(s)'
  BY <1>2, <1>3, <1>5
<1>6. CASE PumpReplay
  <2>1. PICK k \in Unsent : /\ Enqueue(session.transport, Acp(serverPending[k]))
                            /\ serverPending' = [serverPending EXCEPT
                                                   ![k].sentOn = session.transport]
    BY <1>6 DEF PumpReplay
  <2>2. UNCHANGED <<session, networkVars>> /\ session.pc = "top" /\ k \in 1 .. Len(serverPending)
    BY <1>6, <2>1 DEF PumpReplay, Unsent
  <2>3. s = session.transport
    BY <1>1, <2>2 DEF TransportInv
  <2>4. Pushes(s, Acp(serverPending[k]))
    BY <2>1, <2>2, <2>3, EnqueuePipe
  <2> QED BY <1>4, <2>1, <2>2, <2>3, <2>4
<1>7. CASE AttachEnqueues
  <2>1. /\ session.pc = "attach" /\ session.setupAt \in Nat /\ session.setupAt < SetupLength
        /\ Enqueue(session.attaching, SetupEnvelope(session.setupAt)) /\ UNCHANGED networkVars
        /\ session'.transport = session.transport /\ session'.attaching = session.attaching
    BY <1>1, <1>7 DEF AttachEnqueues, SessionState
  <2>2. s = session.attaching
    BY <1>1, <2>1 DEF TransportInv
  <2>3. CASE session.setupAt <= 1
    <3>1. UNCHANGED serverPending
      BY <1>7, <2>3 DEF AttachEnqueues
    <3> QED BY <1>5, <2>2, <3>1
  <2>4. CASE ~(session.setupAt <= 1)
    <3>1. session.setupAt - 1 \in 1 .. Len(serverPending) /\ session.setupAt \notin {0, 1}
      BY <1>1, <2>1, <2>4 DEF SetupLength
    <3>2. SetupEnvelope(session.setupAt) = Acp(serverPending[session.setupAt - 1])
      BY <2>1, <3>1, SetupCases DEF SetupEnvelope
    <3>3. serverPending' = [serverPending EXCEPT ![session.setupAt - 1].sentOn = s]
      BY <1>7, <2>2, <2>4 DEF AttachEnqueues
    <3>4. Pushes(s, Acp(serverPending[session.setupAt - 1]))
      BY <2>1, <2>2, <3>2, EnqueuePipe
    <3> QED BY <1>4, <2>2, <3>1, <3>3, <3>4
  <2> QED BY <2>3, <2>4
<1>8. CASE AttachSucceeds \/ EnterSelect
  <2>1. UNCHANGED serverPending
    BY <1>8 DEF AttachSucceeds, EnterSelect, frameVars
  <2>2. s \in {session.transport, session.attaching}
    BY <1>1, <1>8 DEF AttachSucceeds, EnterSelect, Proceed, SessionState
  <2> QED BY <1>5, <2>1, <2>2
<1>9. CASE TakeAttachment
  <2>1. UNCHANGED serverPending
    BY <1>9 DEF TakeAttachment, frameVars
  <2>2. s = Head(attachments)
    BY <1>1, <1>9 DEF TakeAttachment, SessionState
  <2>3. tasks[s].state = "none"
    <3>1. attachments # << >> /\ attachments \in Seq(Sockets)
      BY <1>9 DEF TakeAttachment, LinesKeepTheirNumbers, SessionInv
    <3>2. Head(attachments) = attachments[1] /\ Len(attachments) \in Nat /\ Len(attachments) > 0
      BY <3>1, TailElements
    <3>3. 1 \in 1 .. Len(attachments)
      BY <3>2
    <3> QED BY <2>2, <3>2, <3>3 DEF SocketInv, AttachmentInv
  <2>4. \A i \in 1 .. Len(serverPending) : serverPending[i].sentOn # s
    BY <1>1, <2>3 DEF SentInv
  <2> QED BY <1>2, <2>1, <2>4
<1>10. CASE Rests
  <2>1. s \in {session.transport, session.attaching}
    BY <1>1, <1>10 DEF Rests
  <2>2. CASE UNCHANGED serverPending
    BY <1>5, <2>1, <2>2
  <2>3. CASE Frees
    <3>1. PICK k \in 0 .. Len(serverPending) : serverPending' = Popped(serverPending, k)
      BY <2>3 DEF Frees
    <3>2. \A i \in 1 .. Len(serverPending') :
            /\ k + i \in 1 .. Len(serverPending)
            /\ serverPending'[i] = serverPending[k + i]
      BY <3>1, FreedElements
    <3> QED BY <1>2, <1>3, <2>1, <3>2
  <2>4. CASE Queues
    <3>1. PICK f : f.sentOn = NoSocket /\ serverPending' = Append(serverPending, f)
      BY <2>4 DEF Queues
    <3>2. /\ \A i \in 1 .. Len(serverPending) : serverPending'[i] = serverPending[i]
          /\ serverPending'[Len(serverPending) + 1] = f
          /\ \A i \in 1 .. Len(serverPending') :
               i \in 1 .. Len(serverPending) \/ i = Len(serverPending) + 1
      BY <3>1, QueuedElements
    <3> QED BY <1>1, <1>2, <1>3, <2>1, <3>1, <3>2
  <2> QED BY <1>10, <2>2, <2>3, <2>4 DEF Rests
<1> QED BY <1>1, <1>6, <1>7, <1>8, <1>9, <1>10, FrameSteps

\* What is left to say leaves no gap either.
LEMMA OutboxLeaves ==
    ASSUME LinesKeepTheirNumbers, TransportInv, OutboxInv, OutboxInv', SessionNext,
           NEW s \in Sockets, s = session'.transport,
           NEW D, NEW x \in Nat, NEW top \in Nat, top > 0,
           \A e : Pushes(s, e) /\ e \in Envelopes => Covers(e) \subseteq D
    PROVE  Gapless(session'.outbox, D, x, top)
<1>1. /\ Control("exit").type = "exit" /\ Control("error").type = "error"
      /\ Control("shutdown_complete").type = "shutdown_complete"
  BY DEF Control
<1>2. ASSUME NEW e, e.type \notin {"acp", "shutdown", "exit"} PROVE Gapless(<<e>>, D, x, top)
  BY <1>2, GaplessOne DEF Preceded, Follows
<1>3. top - 1 \in Nat
  OBVIOUS
<1>4. Covers(Control("error")) = Nat /\ Control("error") \in Envelopes
      /\ Control("exit") \in Envelopes
  BY <1>1 DEF Covers, Envelopes, ControlTypes, Control
<1>5. CASE session'.pc \notin {"reply", "farewell"}
  BY <1>5, GaplessEmpty DEF OutboxInv
<1>6. CASE session'.pc = "reply"
  <2>1. Head(session'.outbox).type \in {"ack", "pong"} /\ Len(session'.outbox) = 1
    BY <1>6 DEF OutboxInv
  <2> QED BY <1>1, <1>2, <2>1 DEF Gapless, Follows
<1>7. CASE session'.pc = "farewell"
  <2>1. CASE session'.outbox = << >>
    BY <2>1, GaplessEmpty
  <2>2. CASE session'.outbox = <<Control("shutdown_complete")>>
    BY <1>1, <1>2, <2>2
  <2>3. CASE session'.outbox = <<Control("exit")>>
    <3>1. Pushes(s, Control("error"))
      BY <1>7, <2>3, ErrorSaid
    <3>2. Preceded(Control("exit"), D, x, top)
      BY <1>1, <1>3, <1>4, <3>1 DEF Preceded, Follows
    <3> QED BY <2>3, <3>2, GaplessOne
  <2>4. CASE session'.outbox = <<Control("error"), Control("exit")>>
    <3> DEFINE q == <<Control("error"), Control("exit")>>
    <3>1. Len(q) = 2 /\ q[1] = Control("error") /\ q[2] = Control("exit")
      OBVIOUS
    <3> HIDE DEF q
    <3>2. Follows(q[1], top) <= x
      BY <1>1, <3>1 DEF Follows
    <3>3. Follows(q[2], top) - 1 \in Covers(q[1])
      BY <1>1, <1>3, <1>4, <3>1 DEF Follows
    <3>4. \A i \in 1 .. 2 : i = 1 \/ i = 2
      OBVIOUS
    <3>5. 1 \in 1 .. 2 - 1
      OBVIOUS
    <3>6. Gapless(q, D, x, top)
      BY <3>1, <3>2, <3>3, <3>4, <3>5 DEF Gapless
    <3> QED BY <2>4, <3>6 DEF q
  <2> QED BY <1>7, <2>1, <2>2, <2>3, <2>4 DEF OutboxInv
<1> QED BY <1>5, <1>6, <1>7

\* A step of run_agent_session opens no gap.
LEMMA SessionOutput ==
    ASSUME LinesKeepTheirNumbers, LinesKeepTheirNumbers', SocketInv, SendsInv, RetainInv,
           OutboxInv, OutboxInv', SentInv, SessionNext, UNCHANGED expectedServer,
           NEW s \in Sockets, ExitOK(s), OutputOK(s)
    PROVE  OutputOK(s)'
<1>1. /\ expectedServer \in Nat /\ nextServer \in Nat
      /\ nextServer' \in Nat /\ nextServer' > 0
  <2>1. (nextServer \in Nat /\ nextServer > 0)'
    BY Expected, PTL
  <2> QED BY <2>1, Expected
<1>2. PICK x \in Nat : x = expectedServer
  BY <1>1
<1>3. PICK top \in Nat : top = nextServer'
  BY <1>1
<1>4. Flows(s, x, top)
  BY <1>2, <1>3, TopMoves DEF OutputOK
<1>5. Same(s) \/ Loses(s) \/ \E e : Pushes(s, e) /\ Says(s, e)
  BY SessionPipe
<1>6. ASSUME NEW e, Pushes(s, e), Says(s, e)
      PROVE  e \in Envelopes /\ (up[s] => Preceded(e, Coming(s), x, top))
  <2>1. nextServer' = nextServer
    BY <1>6 DEF Says, Pumps, SetsUp, Exits, Replies, Notes, Parts
  <2> QED BY <1>2, <1>3, <1>6, <2>1, PushedEnvelope, SaidPreceded
<1>7. /\ Gapless(s2c'[s], {}, x, top)
      /\ up'[s] => /\ up[s]
                   /\ InOrder(s2c'[s], tasks'[s].writing, tasks'[s].commands, x, top)
                   /\ Coming(s) \subseteq Coming(s)'
  BY <1>4, <1>5, <1>6, FlowDrains, FlowPushes DEF Coming, Drains
<1>11. \A e : Pushes(s, e) /\ e \in Envelopes => Covers(e) \subseteq Coming(s)'
  BY PushCovers
<1>8. Flows(s, expectedServer, nextServer)'
  BY <1>2, <1>3, <1>7 DEF Flows
<1>9. ASSUME up'[s], s = session'.transport
      PROVE  Gapless(session'.outbox, Coming(s)', expectedServer', nextServer')
  BY <1>1, <1>9, <1>11, OutboxLeaves DEF SocketInv
<1>10. ASSUME up'[s], s \in {session'.transport, session'.attaching} PROVE Handed(s)'
  BY <1>7, <1>10, <1>11, SessionHands DEF OutputOK
<1> QED BY <1>8, <1>9, <1>10 DEF OutputOK

\* Nor does anything but the session and the connector.
LEMMA OtherOutput ==
    ASSUME LinesKeepTheirNumbers, NEW s \in Sockets, OutputOK(s), Drains(s),
           session'.transport = session.transport, session'.attaching = session.attaching,
           session'.outbox = session.outbox,
           UNCHANGED <<serverPending, nextServer, expectedServer>>
    PROVE  OutputOK(s)'
<1>1. expectedServer \in Nat /\ nextServer \in Nat
  BY Expected
<1>2. PICK x \in Nat : x = expectedServer
  BY <1>1
<1>3. PICK top \in Nat : top = nextServer
  BY <1>1
<1>4. Flows(s, x, top)
  BY <1>2, <1>3 DEF OutputOK
<1>5. /\ Gapless(s2c'[s], {}, x, top)
      /\ up'[s] => /\ up[s]
                   /\ InOrder(s2c'[s], tasks'[s].writing, tasks'[s].commands, x, top)
                   /\ Coming(s) \subseteq Coming(s)'
  BY <1>4, FlowDrains DEF Coming
<1>6. Flows(s, expectedServer, nextServer)'
  BY <1>2, <1>3, <1>5 DEF Flows
<1>7. ASSUME up'[s], s = session'.transport
      PROVE  Gapless(session'.outbox, Coming(s)', expectedServer', nextServer')
  <2>1. Gapless(session.outbox, Coming(s), expectedServer, nextServer)
    BY <1>5, <1>7 DEF OutputOK
  <2>2. session.outbox \in Seq(Envelopes)
    BY PipeTypes
  <2> QED BY <1>1, <1>5, <1>7, <2>1, <2>2, GaplessMore
<1>8. ASSUME up'[s], s \in {session'.transport, session'.attaching} PROVE Handed(s)'
  <2>1. Handed(s)
    BY <1>5, <1>8 DEF OutputOK
  <2> QED BY <1>5, <1>8, <2>1 DEF Handed
<1> QED BY <1>6, <1>7, <1>8 DEF OutputOK

\* A line the connector reads is one it expects, or had already.
LEMMA ConnectorOutput ==
    ASSUME LinesKeepTheirNumbers, LinesKeepTheirNumbers', SocketInv, EndInv, OutputInv,
           ConnectorStep, Advances, NEW s \in Sockets, s = client'.socket, ~client'.closing
    PROVE  OutputOK(s)'
<1>1. UNCHANGED <<session, tasks, serverPending, nextServer>> /\ s # NoSocket
      /\ expectedServer \in Nat /\ expectedServer' \in Nat /\ nextServer \in Nat
      /\ expectedServer <= expectedServer' /\ ~client.closing
  <2>1. (expectedServer \in Nat)'
    BY Expected, PTL
  <2> QED BY <2>1, Expected, NetworkAssumption
          DEF ConnectorStep, serverVars, channelVars, frameVars, Advances, Sockets, NoSocket
<1>2. /\ s2c[s] \in Seq(Envelopes) /\ tasks[s].writing \in Seq(Envelopes)
      /\ tasks[s].commands \in Seq(Envelopes) /\ session.outbox \in Seq(Envelopes)
  BY PipeTypes
<1>3. CASE s # client.socket
  <2>1. Fresh(s) /\ s \notin {session.transport, session.attaching} /\ s2c'[s] = << >>
    BY <1>3, NewSocket
  <2>2. tasks'[s].writing = << >> /\ tasks'[s].commands = << >>
    BY <1>1, <2>1 DEF Fresh, NoTask
  <2> QED BY <1>1, <2>1, <2>2, GaplessEmpty DEF OutputOK, Flows, InOrder
<1>4. CASE s = client.socket
  <2>1. OutputOK(s)
    BY <1>1, <1>4 DEF OutputInv
  <2>2. CASE Same(s) /\ UNCHANGED expectedServer
    <3>1. Coming(s)' = Coming(s)
      BY <2>2 DEF Same, Coming
    <3> QED BY <1>1, <2>1, <2>2, <3>1 DEF Same, OutputOK, Flows, Handed
  <2>3. CASE Takes(s) /\ Head(s2c[s]).type # "error" /\
             (Head(s2c[s]).type = "acp" => Head(s2c[s]).sequence < expectedServer')
    <3> DEFINE e == Head(s2c[s])
               D2 == Coming(s)'
    <3>1. /\ s2c[s] # << >> /\ s2c'[s] = Tail(s2c[s]) /\ up'[s] = up[s]
          /\ tasks'[s].writing = tasks[s].writing /\ tasks'[s].commands = tasks[s].commands
          /\ e \in Envelopes /\ e.type # "error"
          /\ e.type = "acp" => e.sequence < expectedServer'
      BY <1>2, <2>3, HeadIn DEF Takes
    <3>2. Gapless(s2c'[s], {}, expectedServer', nextServer)
      <4>1. Gapless(s2c[s], {}, expectedServer, nextServer)
        BY <2>1 DEF OutputOK, Flows
      <4>2. Gapless(Tail(s2c[s]), {} \cup Covers(e), expectedServer, nextServer)
        BY <1>1, <1>2, <3>1, <4>1, GaplessTail
      <4>3. Tail(s2c[s]) \in Seq(Envelopes)
        BY <1>2, <3>1, HeadIn
      <4>4. ASSUME NEW f \in Envelopes, f = e PROVE Gapless(Tail(s2c[s]), {}, expectedServer', nextServer)
        <5>1. /\ Gapless(Tail(s2c[s]), {} \cup Covers(f), expectedServer, nextServer)
              /\ f.type # "error" /\ (f.type = "acp" => f.sequence < expectedServer')
          BY <3>1, <4>2, <4>4
        <5> QED BY <1>1, <4>3, <5>1, ReadBehind
      <4> QED BY <3>1, <4>4
    <3>3. up[s] => /\ InOrder(Tail(s2c[s]), tasks[s].writing, tasks[s].commands,
                              expectedServer', nextServer)
                   /\ Coming(s) = D2 \cup Covers(e)
      <4>1. ASSUME up[s]
            PROVE  /\ InOrder(Tail(s2c[s]), tasks[s].writing, tasks[s].commands,
                              expectedServer', nextServer)
                   /\ Pending3(s2c[s], tasks[s].writing, tasks[s].commands)
                      = Pending3(Tail(s2c[s]), tasks[s].writing, tasks[s].commands) \cup Covers(e)
        <5> DEFINE a == s2c[s]
                   b == tasks[s].writing
                   c == tasks[s].commands
        <5>1. /\ a \in Seq(Envelopes) /\ b \in Seq(Envelopes) /\ c \in Seq(Envelopes)
              /\ InOrder(a, b, c, expectedServer, nextServer)
          BY <1>2, <2>1, <4>1 DEF OutputOK, Flows
        <5>2. /\ a # << >> /\ Head(a).type # "error"
              /\ Head(a).type = "acp" => Head(a).sequence < expectedServer'
          BY <3>1
        <5>3. /\ expectedServer \in Nat /\ expectedServer' \in Nat /\ nextServer \in Nat
              /\ expectedServer <= expectedServer'
          BY <1>1
        <5>4. SUFFICES /\ InOrder(Tail(a), b, c, expectedServer', nextServer)
                       /\ Pending3(a, b, c) = Pending3(Tail(a), b, c) \cup Covers(Head(a))
          OBVIOUS
        <5> HIDE DEF a, b, c
        <5> QED BY <5>1, <5>2, <5>3, ReadInOrder
      <4> QED BY <3>1, <4>1 DEF Coming
    <3>4. Flows(s, expectedServer, nextServer)'
      BY <1>1, <3>1, <3>2, <3>3 DEF Flows
    <3>5. ASSUME up'[s], s = session'.transport
          PROVE  Gapless(session'.outbox, Coming(s)', expectedServer', nextServer')
      <4>1. Gapless(session.outbox, Coming(s), expectedServer, nextServer)
        BY <1>1, <2>1, <3>1, <3>5 DEF OutputOK
      <4>2. Coming(s) = D2 \cup Covers(e)
        BY <3>1, <3>3, <3>5
      <4> HIDE DEF e, D2
      <4>3. Gapless(session.outbox, D2, expectedServer', nextServer)
        BY <1>1, <1>2, <3>1, <4>1, <4>2, ReadBehind
      <4> QED BY <1>1, <4>3 DEF D2
    <3>6. ASSUME up'[s], s \in {session'.transport, session'.attaching} PROVE Handed(s)'
      <4>1. Handed(s) /\ Coming(s) = D2 \cup Covers(e)
        BY <1>1, <2>1, <3>1, <3>3, <3>6 DEF OutputOK
      <4>2. \A n \in Covers(e) : n < expectedServer'
        BY <3>1 DEF Covers
      <4>3. \A i \in 1 .. Len(serverPending) : serverPending[i].sequence \in Nat
        <5>1. \A i \in 1 .. Len(serverPending) : serverPending[i] \in ServerFrame
          BY ServerBuffer, ElementOfSeq
        <5> QED BY <5>1 DEF ServerFrame
      <4> HIDE DEF e
      <4> QED BY <1>1, <4>1, <4>2, <4>3 DEF Handed
    <3> QED BY <3>4, <3>5, <3>6 DEF OutputOK
  <2>4. \/ Same(s) /\ UNCHANGED expectedServer
        \/ /\ Takes(s) /\ Head(s2c[s]).type # "error"
           /\ Head(s2c[s]).type = "acp" => Head(s2c[s]).sequence < expectedServer'
    <3>1. client.pc # "wait_complete"
      BY <1>1 DEF EndInv, ClosingInv
    <3>2. Control("ready").type = "ready"
      BY DEF Control
    <3> QED BY <1>4, <3>1, <3>2, ConnectorPipe DEF SocketInv
  <2> QED BY <2>2, <2>3, <2>4
<1> QED BY <1>3, <1>4

\* In every step.
LEMMA OutputKeeps ==
    ASSUME LinesKeepTheirNumbers, LinesKeepTheirNumbers', SocketInv, OpenInv, SendsInv, EndInv,
           RetainInv, AnnounceInv, AnnounceInv', ExitInv, SentInv, OutputInv, Advances,
           [Next]_vars
    PROVE  OutputInv'
<1>1. session \in SessionState(ServerEnvelopes)
  BY DEF LinesKeepTheirNumbers, SessionInv
<1>2. ASSUME UNCHANGED <<client, expectedServer>>,
             \A s \in Sockets : s = client.socket /\ OutputOK(s) => OutputOK(s)'
      PROVE  OutputInv'
  BY <1>2 DEF OutputInv
<1>3. ASSUME UNCHANGED <<client, expectedServer, session, serverPending, nextServer>>,
             \A s \in Sockets : Drains(s)
      PROVE  OutputInv'
  BY <1>2, <1>3, OtherOutput
<1>4. CASE ConnectorStep
  BY <1>4, ConnectorOutput DEF OutputInv
<1>5. CASE NetworkStep
  <2>1. UNCHANGED <<client, expectedServer, session, serverPending, nextServer>>
    BY <1>5 DEF NetworkStep, clientVars, serverVars, streamVars, frameVars
  <2> QED BY <1>3, <1>5, <2>1, NetworkPipe DEF Drains
<1>6. CASE ServerStep
  <2>1. UNCHANGED <<client, expectedServer>>
    BY <1>6 DEF ServerStep, clientVars, streamVars
  <2>2. CASE SessionNext
    BY <1>2, <2>1, <2>2, SessionOutput DEF AnnounceInv, ExitInv
  <2>3. CASE AgentWrites \/ AgentExits \/ Cancel
    <3>1. UNCHANGED <<session, serverPending, nextServer, tasks, s2c, up>>
      BY <2>3 DEF AgentWrites, AgentExits, Cancel, channelVars, networkVars, frameVars
    <3>2. \A s \in Sockets : Drains(s)
      BY <3>1 DEF Drains, Same
    <3> QED BY <1>3, <2>1, <3>1, <3>2
  <2>4. ASSUME NEW t \in Sockets, TaskNext(t) PROVE OutputInv'
    <3>1. ASSUME NEW s \in Sockets PROVE Drains(s)
      BY <2>4, TaskPipe DEF Drains, SocketInv
    <3>2. /\ session'.transport = session.transport /\ session'.attaching = session.attaching
          /\ session'.outbox = session.outbox /\ UNCHANGED <<serverPending, nextServer>>
      BY <2>4, TaskOver
    <3> QED BY <1>2, <2>1, <3>1, <3>2, OtherOutput
  <2>5. ASSUME NEW t \in Sockets, AcceptResume(t) PROVE OutputInv'
    <3>1. UNCHANGED <<session, serverPending, nextServer>>
      BY <2>5 DEF AcceptResume, frameVars
    <3>2. \A s \in Sockets : Drains(s)
      BY <2>5, ResumePipe DEF Drains
    <3> QED BY <1>3, <2>1, <3>1, <3>2
  <2> QED BY <1>6, <2>2, <2>3, <2>4, <2>5 DEF ServerStep, ServerNext
<1>7. CASE UNCHANGED vars
  <2>1. UNCHANGED <<client, expectedServer, session, serverPending, nextServer, tasks, s2c, up>>
    BY <1>7 DEF vars, networkVars, clientVars, serverVars, channelVars, streamVars, frameVars
  <2>2. \A s \in Sockets : Drains(s)
    BY <2>1 DEF Drains, Same
  <2> QED BY <1>3, <2>1, <2>2
<1> QED BY <1>4, <1>5, <1>6, <1>7 DEF Next

\* At first nothing is on its way to the connector.
LEMMA OutputInit == Init => OutputInv
<1> SUFFICES ASSUME Init PROVE OutputInv
  OBVIOUS
<1>1. /\ session.outbox = << >> /\ serverPending = << >> /\ client.socket = 1
      /\ s2c = [s \in Sockets |-> << >>]
      /\ tasks = [s \in Sockets |-> IF s = 1 THEN StartedTask ELSE NoTask]
  BY DEF Init, SessionInit, NetworkInit, ConnectorInit
<1>2. Len(<< >>) = 0
  OBVIOUS
<1>3. ASSUME NEW s \in Sockets, s = client.socket PROVE OutputOK(s)
  <2>1. s2c[s] = << >> /\ tasks[s] = StartedTask
    BY <1>1, <1>3
  <2>2. tasks[s].writing = << >> /\ tasks[s].commands = << >>
    BY <2>1 DEF StartedTask, NoTask
  <2> QED BY <1>1, <1>2, <2>1, <2>2, GaplessEmpty DEF OutputOK, Flows, InOrder, Handed
<1> QED BY <1>3 DEF OutputInv

-----------------------------------------------------------------------------
(* A connector that returns because of the agent's exit.                   *)

\* It read Exit, so the session's loop is over and every line has come out.
ReadExit == client.result = "exit" =>
              client.pc = "done" /\ Over /\ expectedServer = nextServer

\* The connector's step that returns with this result.
LEMMA ExitRead ==
    ASSUME LinesKeepTheirNumbers, SocketInv, ConnectorStep,
           client'.result = "exit", client.result = "exit" => client.pc = "done"
    PROVE  /\ client.pc = "select" /\ HasIncoming /\ Incoming.type = "exit"
           /\ client'.pc = "done" /\ UNCHANGED <<expectedServer, serverVars>>
<1>1. client \in ClientState(ClientEnvelopes) /\ UNCHANGED serverVars
      /\ (client.pc = "done" => client.socket = NoSocket)
  BY DEF LinesKeepTheirNumbers, ConnectorInv, ConnectorStep, SocketInv, ConnectedInv
<1>2. ASSUME NEW r, Return(r), r # "exit" PROVE FALSE
  BY <1>1, <1>2 DEF Return, ClientState
<1>3. ASSUME UNCHANGED client.result, client.pc # "done" PROVE FALSE
  BY <1>3
<1>4. ASSUME Redial, client.pc # "done" PROVE FALSE
  BY <1>1, <1>3, <1>4 DEF Redial, ClientState
<1>5. ASSUME NEW e, Send(e), client.pc # "done" PROVE FALSE
  BY <1>1, <1>3, <1>5 DEF Send, ClientState
<1>6. ASSUME NEW pc, Continue(pc), client.pc # "done" PROVE FALSE
  BY <1>1, <1>3, <1>6 DEF Continue, ClientState
<1>7. ~ReadStdin
  BY <1>2, <1>5 DEF ReadStdin
<1>8. ~StartShutdown /\ ~WriteOutgoing /\ ~FinishReplay /\ ~Signal
  BY <1>1, <1>3 DEF StartShutdown, WriteOutgoing, FinishReplay, Signal, ClientState
<1>9. ~LoseSocket /\ ~KeepaliveTimeout /\ ~AbandonAttempt /\ ~GiveUp
  BY <1>2, <1>4 DEF LoseSocket, KeepaliveTimeout, AbandonAttempt, GiveUp
<1>10. ~Dial /\ ~ShutdownWhileDetached /\ ~ReplayFrame
  BY <1>1, <1>3 DEF Dial, ShutdownWhileDetached, ReplayFrame, ClientState
<1>11. ~ReceiveReady
  BY <1>1, <1>3, <1>4 DEF ReceiveReady, ClientState
<1>12. ~SendShutdown
  BY <1>6 DEF SendShutdown
<1>13. ~AwaitComplete
  BY <1>2, <1>3, <1>6 DEF AwaitComplete
<1>14. ~ConnectorDies
  BY <1>1 DEF ConnectorDies, ClientState
<1>15. Receive
  BY <1>7, <1>8, <1>9, <1>10, <1>11, <1>12, <1>13, <1>14 DEF ConnectorStep, ConnectorNext
<1>16. ReceiveControl(Incoming)
  BY <1>2, <1>5, <1>6, <1>15 DEF Receive, ReceiveAcp, ReceiveAck
<1>17. Incoming.type = "exit" /\ Return("exit")
  BY <1>2, <1>5, <1>6, <1>15, <1>16 DEF Receive, ReceiveControl
<1>18. client'.pc = "done"
  BY <1>1, <1>17 DEF Return, ClientState
<1> QED BY <1>1, <1>15, <1>16, <1>17, <1>18 DEF Receive, ReceiveControl, streamVars

\* In every step.
LEMMA ReadExitKeeps ==
    ASSUME LinesKeepTheirNumbers, SocketInv, EndInv, ExitInv, OutputInv, ReadExit,
           Over => Over', [Next]_vars
    PROVE  ReadExit'
<1>1. CASE ConnectorStep
  <2> SUFFICES ASSUME client'.result = "exit"
               PROVE  client'.pc = "done" /\ Over' /\ expectedServer' = nextServer'
    BY DEF ReadExit
  <2>1. /\ client.pc = "select" /\ HasIncoming /\ Incoming.type = "exit"
        /\ client'.pc = "done" /\ UNCHANGED <<expectedServer, nextServer>>
    BY <1>1, ExitRead DEF ReadExit, serverVars, frameVars
  <2> DEFINE s == client.socket
  <2>2. s \in Sockets /\ s2c[s] # << >> /\ Incoming = Head(s2c[s]) /\ ~client.closing
    BY <2>1 DEF HasIncoming, Arrives, Incoming, LinesKeepTheirNumbers, ConnectorInv, ClientState,
                EndInv, ClosingInv
  <2> HIDE DEF s
  <2>3. s2c[s] \in Seq(Envelopes)
    BY <2>2, PipeTypes
  <2>4. Over
    <3>1. ~Without("exit", s2c[s])
      BY <2>1, <2>2, <2>3, WithoutTail
    <3> QED BY <2>2, <3>1 DEF s, ExitInv, ExitOK
  <2>5. expectedServer \in Nat /\ nextServer \in Nat /\ expectedServer <= nextServer
    BY Expected
  <2>6. Gapless(s2c[s], {}, expectedServer, nextServer)
    BY <2>2 DEF s, OutputInv, OutputOK, Flows
  <2>7. Preceded(Incoming, {}, expectedServer, nextServer)
    BY <2>2, <2>3, <2>5, <2>6, GaplessTail
  <2>8. nextServer <= expectedServer
    BY <2>1, <2>7 DEF Preceded, Follows
  <2> QED BY <2>1, <2>4, <2>5, <2>8
<1>2. CASE ~ConnectorStep
  <2> SUFFICES ASSUME client'.result = "exit"
               PROVE  client'.pc = "done" /\ Over' /\ expectedServer' = nextServer'
    BY DEF ReadExit
  <2>1. UNCHANGED <<client, expectedServer>>
    BY <1>2 DEF Next, ServerStep, NetworkStep, vars, clientVars, streamVars
  <2>2. client.pc = "done" /\ Over /\ expectedServer = nextServer
    BY <2>1 DEF ReadExit
  <2>3. nextServer' = nextServer
    <3>1. CASE SessionNext
      BY <2>2, <3>1, SessionOver
    <3>2. CASE \E t \in Sockets : TaskNext(t)
      BY <3>2, TaskOver
    <3>3. CASE AgentWrites \/ AgentExits \/ Cancel \/ \E t \in Sockets : AcceptResume(t)
      BY <3>3 DEF AgentWrites, AgentExits, Cancel, AcceptResume, frameVars
    <3> QED
      BY <1>2, <3>1, <3>2, <3>3
      DEF Next, ServerStep, NetworkStep, ServerNext, vars, serverVars, frameVars
  <2> QED BY <2>1, <2>2, <2>3
<1> QED BY <1>1, <1>2

\* The invariant of the session's side.
ToldInv == HoldInv /\ AnnounceInv /\ ExitInv /\ SentInv /\ OutputInv /\ ReadExit

\* The initial states satisfy it.
LEMMA ToldInit == Init => ToldInv
<1>1. Init => ReadExit
  BY DEF Init, ConnectorInit, ReadExit
<1>2. Init => HoldInv
  BY InitInv, SocketsInit, SendsInit, BuffersInit DEF HoldInv, SaidInv
<1> QED BY <1>1, <1>2, AnnounceInit, SentInit, OutputInit DEF ToldInv

\* In every reachable state what run_agent_session has on its way to the
\* connector is without a gap: a line comes behind all lines below it, `ready`
\* comes first, and Exit comes behind every line and only once the loop is over
\* or send_exit waits for it.
THEOREM ToldInOrder == Spec => []ToldInv
<1>1. Init => ToldInv
  BY ToldInit
<1>2. ToldInv /\ [Next]_vars => ToldInv'
  <2> SUFFICES ASSUME ToldInv, [Next]_vars PROVE ToldInv'
    OBVIOUS
  <2>1. /\ LinesKeepTheirNumbers /\ SocketInv /\ OpenInv /\ SendsInv /\ EndInv
        /\ RetainInv /\ ReplayBounded
    BY DEF ToldInv, HoldInv, SaidInv
  <2>2. LinesKeepTheirNumbers'
    BY <2>1, NextInv
  <2>3. SocketInv' /\ OpenInv'
    BY <2>1, SocketsKeep
  <2>4. SendsInv' /\ EndInv' /\ Advances
    BY <2>1, <2>2, SendsKeep
  <2>5. RetainInv' /\ ReplayBounded'
    BY <2>1, <2>2, <2>4, BuffersKeep
  <2>6. AnnounceInv'
    BY <2>1, <2>2, AnnounceKeeps DEF ToldInv
  <2>7. ExitInv' /\ (Over => Over')
    BY <2>1, <2>2, ExitKeeps DEF ToldInv
  <2>8. SentInv'
    BY <2>1, SentStays DEF ToldInv
  <2>9. OutputInv'
    BY <2>1, <2>2, <2>4, <2>6, OutputKeeps DEF ToldInv
  <2>10. ReadExit'
    BY <2>1, <2>7, ReadExitKeeps DEF ToldInv
  <2> QED BY <2>2, <2>3, <2>4, <2>5, <2>6, <2>7, <2>8, <2>9, <2>10 DEF ToldInv, HoldInv, SaidInv
<1> QED BY <1>1, <1>2, PTL DEF Spec

\* A connector that returns with the agent's exit has written every line that
\* the session queued to its stdout, and a session that reaps after a child_exit
\* had its Exit written or lost the transport task that was to write it.
THEOREM ExitLast == Spec => []ExitComesLast
<1>1. ToldInv => ExitComesLast
  <2> SUFFICES ASSUME ToldInv PROVE ExitComesLast
    OBVIOUS
  <2>1. LinesKeepTheirNumbers /\ EndInv /\ ReadExit
    BY DEF ToldInv, HoldInv, SaidInv
  <2>2. ASSUME client.result = "exit" PROVE stdout = outputs
    <3>1. /\ stdout = [n \in 1 .. nextServer - 1 |-> outputs[n]]
          /\ outputs \in Seq(Payloads) /\ nextServer = Len(outputs) + 1
      BY <2>1, <2>2 DEF ReadExit, LinesKeepTheirNumbers, StdoutInv, QueueInv
    <3>2. Len(outputs) \in Nat
      BY <3>1, LenProperties
    <3>3. nextServer - 1 = Len(outputs)
      BY <3>1, <3>2
    <3> QED BY <3>1, <3>3
  <2>3. ASSUME session.pc = "reap", session.endCategory = "child_exit"
        PROVE  session.sent = "sent" \/ tasks[session.transport].state # "running"
    <3>1. session \in SessionState(ServerEnvelopes)
      BY <2>1 DEF LinesKeepTheirNumbers, SessionInv
    <3>2. session.sent \in {"sent", "dropped"}
      BY <2>1, <2>3, <3>1 DEF EndInv, ConfirmInv, SessionState
    <3> QED BY <2>1, <3>2 DEF EndInv, ConfirmInv
  <2> QED BY <2>2, <2>3 DEF ExitComesLast
<1> QED BY <1>1, ToldInOrder, PTL
=============================================================================
