--------------------------- MODULE HttpFeed_proof ---------------------------
(***************************************************************************)
(* What holds of the parser on every stream, of any length and however it  *)
(* is cut up.  First the segments: each keeps the parser where one call    *)
(* with everything arrived would be.  Then the grammar, which need only be *)
(* compared with that one call: at each place of its loop, what the        *)
(* request holds is what the grammar says of the text taken so far         *)
(* (Stage), and FindCRLF finds the end of the grammar's line.              *)
(***************************************************************************)
EXTENDS HttpFeed, HttpRequest_proof

-----------------------------------------------------------------------------
(* A segment more.                                                         *)
LEMMA ArrivedGrows ==
    ASSUME NEW s \in Seq(Tokens), NEW a \in 0 .. Len(s), NEW n \in 1 .. Len(s) - a
    PROVE  /\ SubSeq(s, a + 1, a + n) \in Seq(Tokens) /\ SubSeq(s, 1, a) \in Seq(Tokens)
           /\ SubSeq(s, 1, a + n) = SubSeq(s, 1, a) \o SubSeq(s, a + 1, a + n)
<1> DEFINE front == SubSeq(s, 1, a)
           piece == SubSeq(s, a + 1, a + n)
           both == SubSeq(s, 1, a + n)
<1>1. Len(s) \in Nat /\ a \in Nat /\ n \in Nat /\ a + n \in 0 .. Len(s)
      /\ \A i \in 1 .. Len(s) : s[i] \in Tokens
  OBVIOUS
<1>2. /\ front \in Seq(Tokens) /\ Len(front) = a /\ \A i \in 1 .. a : front[i] = s[i]
      /\ both \in Seq(Tokens) /\ Len(both) = a + n /\ \A i \in 1 .. a + n : both[i] = s[i]
  BY <1>1, RetrieveIs
<1>3. piece \in Seq(Tokens) /\ Len(piece) = n /\ \A i \in 1 .. n : piece[i] = s[a + i]
  <2>1. /\ a + 1 \in Int /\ a + n \in Int /\ \A i \in a + 1 .. a + n : s[i] \in Tokens
    BY <1>1
  <2>2. /\ piece \in Seq(Tokens)
        /\ Len(piece) = IF a + 1 <= a + n THEN (a + n) - (a + 1) + 1 ELSE 0
        /\ \A i \in 1 .. (a + n) - (a + 1) + 1 : piece[i] = s[(a + 1) + i - 1]
    BY <2>1, SubSeqProperties
  <2>3. /\ (IF a + 1 <= a + n THEN (a + n) - (a + 1) + 1 ELSE 0) = n
        /\ (a + n) - (a + 1) + 1 = n /\ \A i \in 1 .. n : (a + 1) + i - 1 = a + i
    BY <1>1
  <2>4. QED BY <2>2, <2>3
<1> HIDE DEF front, piece, both
<1>4. /\ front \o piece \in Seq(Tokens) /\ Len(front \o piece) = a + n
      /\ \A i \in 1 .. a : (front \o piece)[i] = s[i]
      /\ \A i \in 1 .. n : (front \o piece)[a + i] = s[a + i]
  <2>1. /\ front \o piece \in Seq(Tokens) /\ Len(front \o piece) = Len(front) + Len(piece)
        /\ \A i \in 1 .. Len(front) : (front \o piece)[i] = front[i]
        /\ \A i \in 1 .. Len(piece) : (front \o piece)[Len(front) + i] = piece[i]
    <3>1. front \in Seq(Tokens) /\ piece \in Seq(Tokens)
      BY <1>2, <1>3
    <3>2. QED BY <3>1, ConcatFront
  <2>2. QED BY <1>2, <1>3, <2>1
<1>5. \A i \in 1 .. a + n : (front \o piece)[i] = s[i]
  <2>1. ASSUME NEW i \in 1 .. a + n, ~(i <= a) PROVE (front \o piece)[i] = s[i]
    <3>1. i - a \in 1 .. n /\ a + (i - a) = i
      BY <1>1, <2>1
    <3>2. (front \o piece)[a + (i - a)] = s[a + (i - a)]
      BY <1>4, <3>1
    <3>3. QED BY <3>1, <3>2
  <2>2. QED BY <1>1, <1>4, <2>1
<1>6. both = front \o piece
  BY <1>2, <1>4, <1>5, SeqEqual
<1>7. QED BY <1>2, <1>3, <1>6 DEF front, piece, both

-----------------------------------------------------------------------------
(* The inductive invariant.                                                *)
FeedInv ==
    /\ TypeOK
    /\ FragmentationIrrelevant
    /\ fed = 0 => req = Fresh /\ buf = <<>> /\ ret = "false"

LEMMA FreshIs == Fresh \in Requests /\ Fresh.state = "REQUEST_LINE"
<1>1. QED BY DEF Fresh, Requests, Texts

LEMMA InitFeedInv == Init => FeedInv
<1> SUFFICES ASSUME Init PROVE FeedInv
  OBVIOUS
<1>1. /\ stream \in Seq(Tokens) /\ fed = 0 /\ req = Fresh /\ buf = <<>> /\ ret = "false"
  BY StreamsAssumption DEF Init
<1>2. TypeOK
  BY <1>1, FreshIs DEF TypeOK
<1>3. QED BY <1>1, <1>2 DEF FeedInv, FragmentationIrrelevant

LEMMA StepFeedInv == FeedInv /\ [Next]_vars => FeedInv'
<1> SUFFICES ASSUME FeedInv, [Next]_vars PROVE FeedInv'
  OBVIOUS
<1>1. CASE UNCHANGED vars
  BY <1>1 DEF vars, FeedInv, TypeOK, FragmentationIrrelevant, Arrived
<1>2. ASSUME NEW n \in 1 .. Len(stream) - fed, Feed(n) PROVE FeedInv'
  <2> DEFINE w == SubSeq(stream, fed + 1, fed + n)
             p == Parse(req, buf \o w)
  <2>1. /\ ret = "false" /\ req' = p.req /\ buf' = p.buf /\ ret' = p.ret
        /\ fed' = fed + n /\ stream' = stream
    BY <1>2 DEF Feed
  <2>2. /\ stream \in Seq(Tokens) /\ fed \in 0 .. Len(stream)
        /\ req \in Requests /\ buf \in Seq(Tokens) /\ req.state # "FINISH"
    BY <2>1 DEF FeedInv, TypeOK
  <2>3. /\ w \in Seq(Tokens) /\ Arrived \in Seq(Tokens) /\ Arrived' = Arrived \o w
    BY <2>1, <2>2, ArrivedGrows DEF Arrived
  <2>4. /\ fed + n \in 0 .. Len(stream) /\ fed + n > 0
    BY <2>2
  <2> HIDE DEF w
  <2>5. buf \o w \in Seq(Tokens)
    BY <2>2, <2>3
  <2>6. p \in ParserStates /\ p.ret \in Returns /\ Finishes(p)
    BY <2>2, <2>5, ParseReturns, ParseFinishes
  <2>7. TypeOK'
    BY <2>1, <2>2, <2>4, <2>6 DEF TypeOK, ParserStates, Returns, Finishes
  <2>8. p = Parse(Fresh, Arrived \o w)
    <3>1. CASE fed = 0
      <4>1. req = Fresh /\ buf = <<>> /\ Arrived = <<>>
        BY <2>2, <3>1 DEF FeedInv, Arrived
      <4>2. QED BY <4>1
    <3>2. CASE fed # 0
      <4> DEFINE once == Parse(Fresh, Arrived)
      <4>1. ret = once.ret /\ req = once.req /\ buf = once.buf
        BY <2>2, <3>2 DEF FeedInv, FragmentationIrrelevant
      <4>2. once.ret = "false"
        BY <2>1, <4>1
      <4> HIDE DEF once
      <4>3. Parse(once.req, once.buf \o w) = Parse(Fresh, Arrived \o w)
        BY <2>3, <4>2, FreshIs, ParseInPieces DEF once
      <4>4. QED BY <4>1, <4>3
    <3>3. QED BY <3>1, <3>2
  <2> HIDE DEF p
  <2>9. FragmentationIrrelevant'
    <3>1. Parse(Fresh, Arrived') = p
      BY <2>3, <2>8
    <3>2. QED BY <2>1, <3>1 DEF FragmentationIrrelevant
  <2>10. QED BY <2>1, <2>4, <2>7, <2>9 DEF FeedInv
<1>3. QED BY <1>1, <1>2 DEF Next

LEMMA AlwaysFeedInv == Spec => []FeedInv
<1>1. QED BY InitFeedInv, StepFeedInv, PTL DEF Spec

(* The parser never holds anything but a request of the class HttpRequest  *)
(* and the bytes it has not used, and Parse says "complete" exactly when   *)
(* the request is in state FINISH.                                         *)
THEOREM ParserTypeCorrect == Spec => []TypeOK
<1>1. FeedInv => TypeOK
  BY DEF FeedInv
<1>2. QED BY <1>1, AlwaysFeedInv, PTL

(* How TCP cuts a stream into segments does not matter to Parse, whatever  *)
(* the stream: after each segment it stands where one call with everything *)
(* that has arrived would have left it.                                    *)
THEOREM FragmentsDoNotMatter == Spec => []FragmentationIrrelevant
<1>1. FeedInv => FragmentationIrrelevant
  BY DEF FeedInv
<1>2. QED BY <1>1, AlwaysFeedInv, PTL

-----------------------------------------------------------------------------
(* A slice of a slice.                                                     *)
LEMMA SliceIs ==
    ASSUME NEW T, NEW w \in Seq(T), NEW a \in Nat, NEW b \in Nat, a >= 1, a <= b + 1, b <= Len(w)
    PROVE  /\ SubSeq(w, a, b) \in Seq(T) /\ Len(SubSeq(w, a, b)) = b + 1 - a
           /\ \A i \in 1 .. b + 1 - a : SubSeq(w, a, b)[i] = w[a + i - 1]
<1>1. Len(w) \in Nat /\ \A i \in a .. b : w[i] \in T
  OBVIOUS
<1>2. /\ SubSeq(w, a, b) \in Seq(T) /\ Len(SubSeq(w, a, b)) = IF a <= b THEN b - a + 1 ELSE 0
      /\ \A i \in 1 .. b - a + 1 : SubSeq(w, a, b)[i] = w[a + i - 1]
  BY <1>1, SubSeqProperties
<1>3. (IF a <= b THEN b - a + 1 ELSE 0) = b + 1 - a /\ b - a + 1 = b + 1 - a
  BY <1>1
<1>4. QED BY <1>2, <1>3

LEMMA SliceSlice ==
    ASSUME NEW T, NEW w \in Seq(T), NEW c \in Nat, NEW d \in Nat, c <= d, d <= Len(w),
           NEW a \in Nat, NEW b \in Nat, a >= 1, a <= b + 1, c + b <= d
    PROVE  SubSeq(SubSeq(w, c + 1, d), a, b) = SubSeq(w, c + a, c + b)
<1> DEFINE v == SubSeq(w, c + 1, d)
           x == SubSeq(v, a, b)
           y == SubSeq(w, c + a, c + b)
<1>1. /\ v \in Seq(T) /\ Len(v) = d - c /\ \A i \in 1 .. d - c : v[i] = w[c + i]
  <2>1. /\ v \in Seq(T) /\ Len(v) = d + 1 - (c + 1)
        /\ \A i \in 1 .. d + 1 - (c + 1) : v[i] = w[(c + 1) + i - 1]
    <3>1. c + 1 \in Nat /\ c + 1 >= 1 /\ c + 1 <= d + 1
      OBVIOUS
    <3>2. QED BY <3>1, SliceIs
  <2>2. d + 1 - (c + 1) = d - c /\ \A i \in 1 .. d - c : (c + 1) + i - 1 = c + i
    OBVIOUS
  <2>3. QED BY <2>1, <2>2
<1> HIDE DEF v
<1>2. /\ x \in Seq(T) /\ Len(x) = b + 1 - a /\ \A i \in 1 .. b + 1 - a : x[i] = v[a + i - 1]
  <2>1. b <= Len(v)
    BY <1>1
  <2>2. QED BY <1>1, <2>1, SliceIs
<1>3. /\ y \in Seq(T) /\ Len(y) = b + 1 - a
      /\ \A i \in 1 .. b + 1 - a : y[i] = w[c + (a + i - 1)]
  <2>1. /\ c + a \in Nat /\ c + b \in Nat /\ c + a >= 1 /\ c + a <= (c + b) + 1 /\ c + b <= Len(w)
    BY <1>1
  <2>2. /\ y \in Seq(T) /\ Len(y) = (c + b) + 1 - (c + a)
        /\ \A i \in 1 .. (c + b) + 1 - (c + a) : y[i] = w[(c + a) + i - 1]
    BY <2>1, SliceIs
  <2>3. /\ (c + b) + 1 - (c + a) = b + 1 - a
        /\ \A i \in 1 .. b + 1 - a : (c + a) + i - 1 = c + (a + i - 1)
    OBVIOUS
  <2>4. QED BY <2>2, <2>3
<1> HIDE DEF x, y
<1>4. ASSUME NEW i \in 1 .. b + 1 - a PROVE x[i] = y[i]
  <2>1. a + i - 1 \in 1 .. d - c
    OBVIOUS
  <2>2. QED BY <1>1, <1>2, <1>3, <2>1
<1>5. x = y
  BY <1>2, <1>3, <1>4, SeqEqual
<1>6. QED BY <1>5 DEF v, x, y

-----------------------------------------------------------------------------
(* Lines, as the grammar has them.                                         *)
LEMMA EndsAre ==
    ASSUME NEW w \in Seq(Tokens)
    PROVE  /\ \A e \in Ends(w) : /\ e \in 1 .. Len(w) - 1 /\ w[e] = CR /\ w[e + 1] = LF
                                 /\ e + 1 \notin Ends(w) /\ e \in Nat
           /\ \A e \in 1 .. Len(w) - 1 : w[e] = CR /\ w[e + 1] = LF => e \in Ends(w)
           /\ 0 \notin Ends(w)
<1>1. CR # LF
  BY DEF CR, LF
<1>2. QED BY <1>1 DEF Ends

\* A line starts at the first unit or behind a line end.
LEMMA LineStartsAre ==
    ASSUME NEW w \in Seq(Tokens)
    PROVE  /\ 1 \in LineStarts(w)
           /\ \A j \in LineStarts(w) : j \in Nat /\ j >= 1 /\ j <= Len(w) + 1
           /\ \A j \in LineStarts(w) : j = 1 \/ j - 2 \in Ends(w)
           /\ \A e \in Ends(w) : e + 2 \in LineStarts(w)
<1>1. Len(w) \in Nat
  OBVIOUS
<1>2. \A e \in Ends(w) : e \in Nat /\ e >= 1 /\ e <= Len(w) - 1
  BY EndsAre
<1>3. \A e \in Ends(w) : e + 2 \in LineStarts(w) /\ (e + 2) - 2 = e
  BY <1>2 DEF LineStarts
<1>4. \A j \in LineStarts(w) : j = 1 \/ \E e \in Ends(w) : j = e + 2
  BY DEF LineStarts
<1>5. \A j \in LineStarts(w) : j = 1 \/ j - 2 \in Ends(w)
  BY <1>2, <1>3, <1>4
<1>6. \A j \in LineStarts(w) : j \in Nat /\ j >= 1 /\ j <= Len(w) + 1
  BY <1>1, <1>2, <1>4
<1>7. QED BY <1>3, <1>5, <1>6 DEF LineStarts

(* FindCRLF, in what is left from a line start on, finds the end of that   *)
(* line.                                                                   *)
LineFoundAt(w, c, i) ==
    LET rest == Retrieve(w, c)
    IN  /\ i \in Nat /\ c + i + 1 \in 0 .. Len(w)
        /\ c + 1 \in CompleteStarts(w) /\ LineAt(w, c + 1) = LineOf(rest)
        /\ Retrieve(rest, i + 1) = Retrieve(w, c + i + 1)
        /\ Len(Retrieve(w, c + i + 1)) = Len(w) - (c + i + 1)
        /\ LineOf(rest) \in Seq(Tokens) /\ Len(LineOf(rest)) = i - 1
        /\ i > 1 => LineOf(rest)[1] = w[c + 1]
        /\ c + i + 2 \in LineStarts(w)
        /\ \A j \in LineStarts(w) : j < c + i + 2 => j <= c + 1

LEMMA LineFound ==
    ASSUME NEW w \in Seq(Tokens), NEW c \in Nat, c <= Len(w), c + 1 \in LineStarts(w),
           NEW i, i = FindCRLF(Retrieve(w, c))
    PROVE  /\ i \in Nat
           /\ i = 0 => \A e \in Ends(w) : e <= c
           /\ i > 0 => LineFoundAt(w, c, i)
<1> DEFINE N == Len(w)
           rest == Retrieve(w, c)
<1>1. N \in Nat /\ c \in 0 .. N
  OBVIOUS
<1>2. rest \in Seq(Tokens) /\ Len(rest) = N - c /\ \A k \in 1 .. N - c : rest[k] = w[c + k]
  BY <1>1, RetrieveIs
<1>r. rest = SubSeq(w, c + 1, N)
  BY DEF Retrieve
<1> HIDE DEF rest
<1>3. /\ i \in Nat
      /\ i = 0 => \A k \in Nat : ~PairAt(rest, k)
      /\ i > 0 => PairAt(rest, i) /\ \A k \in Nat : PairAt(rest, k) => i <= k
  <2>1. i = FindCRLF(rest)
    BY DEF rest
  <2>2. QED BY <1>2, <2>1, FindCRLFIs
<1>4. \A k \in Nat : PairAt(rest, k) => k >= 1 /\ c + k \in Ends(w)
  <2>1. SUFFICES ASSUME NEW k \in Nat, PairAt(rest, k) PROVE k >= 1 /\ c + k \in Ends(w)
    OBVIOUS
  <2>2. k >= 1 /\ k <= N - c - 1 /\ rest[k] = CR /\ rest[k + 1] = LF
    BY <1>1, <1>2, <2>1 DEF PairAt
  <2>3. k \in 1 .. N - c /\ k + 1 \in 1 .. N - c /\ c + k \in 1 .. N - 1 /\ c + (k + 1) = (c + k) + 1
    BY <1>1, <2>2
  <2>4. w[c + k] = CR /\ w[(c + k) + 1] = LF
    <3>1. rest[k] = w[c + k] /\ rest[k + 1] = w[c + (k + 1)]
      BY <1>2, <2>3
    <3>2. QED BY <2>2, <2>3, <3>1
  <2>5. QED BY <2>2, <2>3, <2>4, EndsAre
<1>5. \A e \in Ends(w) : ~(e <= c) => e - c \in Nat /\ e - c >= 1 /\ PairAt(rest, e - c)
  <2>1. SUFFICES ASSUME NEW e \in Ends(w), ~(e <= c)
                 PROVE  e - c \in Nat /\ e - c >= 1 /\ PairAt(rest, e - c)
    OBVIOUS
  <2>2. e \in 1 .. N - 1 /\ w[e] = CR /\ w[e + 1] = LF
    BY EndsAre
  <2>3. /\ e - c \in 1 .. N - c - 1 /\ e - c \in 1 .. N - c /\ (e - c) + 1 \in 1 .. N - c
        /\ c + (e - c) = e /\ c + ((e - c) + 1) = e + 1
    BY <1>1, <2>1, <2>2
  <2>4. rest[e - c] = CR /\ rest[(e - c) + 1] = LF
    BY <1>2, <2>2, <2>3
  <2>5. QED BY <1>2, <2>3, <2>4 DEF PairAt
<1>6. i = 0 => \A e \in Ends(w) : e <= c
  BY <1>3, <1>5
<1>7. ASSUME i > 0 PROVE LineFoundAt(w, c, i)
  <2>1. /\ c + i \in Ends(w) /\ c + i <= N - 1 /\ i >= 1
        /\ \A e \in Ends(w) : e <= c \/ c + i <= e
    <3>1. PairAt(rest, i) /\ \A k \in Nat : PairAt(rest, k) => i <= k
      BY <1>3, <1>7
    <3>2. c + i \in Ends(w) /\ i >= 1
      BY <1>3, <1>4, <3>1
    <3>3. ASSUME NEW e \in Ends(w), ~(e <= c) PROVE c + i <= e
      <4>1. i <= e - c /\ e \in Nat
        BY <1>5, <3>1, <3>3, EndsAre
      <4>2. QED BY <1>1, <1>3, <4>1
    <3>4. QED BY <1>1, <1>3, <3>2, <3>3, EndsAre
  <2>2. c + i + 1 \in 0 .. N /\ c + i \in Nat /\ c + i >= c + 1
    BY <1>1, <1>3, <2>1
  <2>3. c + 1 \in CompleteStarts(w)
    BY <2>1, <2>2 DEF CompleteStarts
  <2> DEFINE S == {e \in Ends(w) : e >= c + 1}
  <2>4. Min(S) = c + i
    <3>0. c + i \in S /\ S \subseteq Nat
      BY <2>1, <2>2, EndsAre
    <3>1. c + i \in S /\ S \subseteq Nat /\ \A e \in S : c + i <= e
      <4>1. ASSUME NEW e \in S PROVE c + i <= e
        <5>1. e \in Nat /\ e \in Ends(w) /\ e >= c + 1
          BY <3>0
        <5>2. ~(e <= c)
          BY <5>1
        <5>3. QED BY <2>1, <5>1, <5>2
      <4>2. QED BY <3>0, <4>1
    <3> HIDE DEF S
    <3>2. Min(S) \in S /\ Min(S) <= c + i
      BY <3>1, MinIs
    <3>3. Min(S) = c + i
      <4>1. Min(S) \in Nat /\ c + i <= Min(S)
        BY <3>1, <3>2
      <4>2. QED BY <2>2, <3>2, <4>1
    <3>4. QED BY <3>3
  <2>5. /\ LineOf(rest) = SubSeq(rest, 1, i - 1)
        /\ SubSeq(rest, 1, i - 1) = SubSeq(w, c + 1, c + (i - 1))
        /\ LineOf(rest) \in Seq(Tokens) /\ Len(LineOf(rest)) = i - 1
        /\ \A k \in 1 .. i - 1 : LineOf(rest)[k] = rest[k]
    <3>1. LineOf(rest) = SubSeq(rest, 1, i - 1)
      BY DEF LineOf, rest
    <3>2. i - 1 \in Nat /\ i - 1 \in 0 .. Len(rest) /\ c + (i - 1) <= N /\ 1 <= (i - 1) + 1
      BY <1>1, <1>2, <1>3, <2>1
    <3>3. SubSeq(rest, 1, i - 1) = SubSeq(w, c + 1, c + (i - 1))
      BY <1>1, <1>r, <3>2, SliceSlice
    <3>4. /\ SubSeq(rest, 1, i - 1) \in Seq(Tokens) /\ Len(SubSeq(rest, 1, i - 1)) = i - 1
          /\ \A k \in 1 .. i - 1 : SubSeq(rest, 1, i - 1)[k] = rest[k]
      <4> HIDE DEF rest
      <4>1. \A n \in 0 .. Len(rest) :
              /\ SubSeq(rest, 1, n) \in Seq(Tokens) /\ Len(SubSeq(rest, 1, n)) = n
              /\ \A k \in 1 .. n : SubSeq(rest, 1, n)[k] = rest[k]
        BY <1>2, RetrieveIs, Zenon
      <4>2. QED BY <3>2, <4>1, Zenon
    <3>5. QED BY <3>1, <3>3, <3>4
  <2>6. LineAt(w, c + 1) = LineOf(rest)
    <3>1. LineAt(w, c + 1) = SubSeq(w, c + 1, Min(S) - 1)
      BY DEF LineAt
    <3> HIDE DEF S
    <3>2. Min(S) - 1 = c + (i - 1)
      BY <1>1, <1>3, <2>4
    <3>3. LineAt(w, c + 1) = SubSeq(w, c + 1, c + (i - 1))
      BY <3>1, <3>2, Zenon
    <3>4. QED BY <2>5, <3>3
  <2>7. /\ Retrieve(rest, i + 1) = Retrieve(w, c + i + 1)
        /\ Len(Retrieve(w, c + i + 1)) = N - (c + i + 1)
    <3>0. c \in Nat /\ c <= N /\ c + i + 1 <= N
      BY <2>2
    <3>1. /\ i + 2 \in Nat /\ N - c \in Nat /\ i + 2 >= 1 /\ i + 2 <= (N - c) + 1
          /\ c + (N - c) = N /\ c + (i + 2) = (c + i + 1) + 1 /\ (i + 1) + 1 = i + 2
      <4> HIDE DEF N
      <4>1. QED BY <1>1, <1>3, <3>0
    <3>2. SubSeq(SubSeq(w, c + 1, N), i + 2, N - c) = SubSeq(w, c + (i + 2), c + (N - c))
      <4>1. N <= Len(w) /\ c + (N - c) <= N
        BY <1>1, <3>1
      <4> DEFINE a == i + 2
                 b == N - c
      <4>2. a \in Nat /\ b \in Nat /\ a >= 1 /\ a <= b + 1 /\ c + b <= N
        BY <3>1, <4>1
      <4> HIDE DEF N, a, b
      <4>3. SubSeq(SubSeq(w, c + 1, N), a, b) = SubSeq(w, c + a, c + b)
        BY <1>1, <3>0, <4>1, <4>2, SliceSlice
      <4>4. QED BY <4>3 DEF a, b
    <3>3. Retrieve(rest, i + 1) = SubSeq(SubSeq(w, c + 1, N), i + 2, N - c)
      BY <1>2, <1>r, <3>1 DEF Retrieve
    <3>4. Retrieve(w, c + i + 1) = SubSeq(w, c + (i + 2), c + (N - c))
      BY <3>1 DEF Retrieve
    <3>5. Len(Retrieve(w, c + i + 1)) = N - (c + i + 1)
      BY <1>1, <2>2, RetrieveIs
    <3>6. QED BY <3>2, <3>3, <3>4, <3>5
  <2>8. i > 1 => LineOf(rest)[1] = w[c + 1]
    <3>1. ASSUME i > 1 PROVE 1 \in 1 .. i - 1 /\ 1 \in 1 .. N - c
      BY <1>1, <1>3, <2>1, <3>1
    <3>2. QED BY <1>2, <2>5, <3>1
  <2>9. c + i + 2 \in LineStarts(w)
    <3>1. c + i + 2 = (c + i) + 2
      BY <1>1, <1>3
    <3>2. QED BY <2>1, <3>1, LineStartsAre
  <2>10. ASSUME NEW j \in LineStarts(w), j < c + i + 2 PROVE j <= c + 1
    <3>1. j \in Nat /\ (j = 1 \/ j - 2 \in Ends(w)) /\ (c + 1 = 1 \/ (c + 1) - 2 \in Ends(w))
      BY LineStartsAre
    <3>2. CASE j = 1
      BY <1>1, <3>2
    <3>3. CASE j - 2 \in Ends(w)
      <4>1. j - 2 <= c
        <5>1. ~(c + i <= j - 2)
          BY <1>1, <1>3, <2>10, <3>1
        <5>2. QED BY <2>1, <3>3, <5>1
      <4>2. j - 2 # c
        <5>1. ASSUME c \in Ends(w) PROVE FALSE
          <6>1. c # 0 /\ c + 1 # 1 /\ c - 1 \in Ends(w)
            <7>1. c # 0
              BY <5>1, EndsAre
            <7>2. c + 1 # 1 /\ (c + 1) - 2 = c - 1
              BY <1>1, <7>1
            <7>3. QED BY <3>1, <7>1, <7>2
          <6>2. (c - 1) + 1 = c
            BY <1>1
          <6>3. QED BY <5>1, <6>1, <6>2, EndsAre
        <5>2. QED BY <3>3, <5>1
      <4>3. QED BY <1>1, <3>1, <4>1, <4>2
    <3>4. QED BY <3>1, <3>2, <3>3
  <2>11. QED BY <1>3, <2>2, <2>3, <2>5, <2>6, <2>7, <2>8, <2>9, <2>10 DEF LineFoundAt, rest
<1>8. QED BY <1>3, <1>6, <1>7

-----------------------------------------------------------------------------
(* Heads, as the grammar has them.                                         *)
NoHead(w) == \A b : ~HeadEnds(w, b)

\* The head of a request goes on at c + 1, after a request line and headers.
HeadSoFar(w, c) ==
    /\ c > 0 /\ c + 1 \in LineStarts(w) /\ IsRequestLine(LineAt(w, 1))
    /\ \A j \in LineStarts(w) : (1 < j /\ j < c + 1) => IsHeader(LineAt(w, j))

\* The line of c + 1 ends before d + 1, where the next one starts.
NextLine(w, c, d) ==
    /\ d + 1 \in LineStarts(w) /\ c + 1 < d + 1
    /\ \A j \in LineStarts(w) : j < d + 1 => j <= c + 1

LEMMA HeadIs ==
    ASSUME NEW w \in Seq(Tokens), NEW b, HeadEnds(w, b)
    PROVE  /\ b \in Nat /\ b > 1 /\ b <= Len(w) /\ b \in LineStarts(w) /\ b \in CompleteStarts(w)
           /\ LineAt(w, b) = <<>> /\ ~IsHeader(LineAt(w, b))
           /\ \E e \in Ends(w) : e >= b
<1>1. /\ b \in LineStarts(w) /\ b > 1 /\ LineAt(w, b) = <<>> /\ b \in CompleteStarts(w)
      /\ \E e \in Ends(w) : e >= b
  BY DEF HeadEnds, CompleteStarts
<1>2. b \in Nat
  BY <1>1, LineStartsAre
<1>3. b <= Len(w)
  <2>1. PICK e \in Ends(w) : e >= b
    BY <1>1
  <2>2. e \in 1 .. Len(w) - 1 /\ Len(w) \in Nat
    BY EndsAre
  <2>3. QED BY <1>2, <2>1, <2>2
<1>4. ~IsHeader(<<>>)
  BY DEF IsHeader
<1>5. QED BY <1>1, <1>2, <1>3, <1>4

\* A stream starts with one head at most: the blank line is no header.
LEMMA HeadIsOne ==
    ASSUME NEW w \in Seq(Tokens), NEW a, NEW b, HeadEnds(w, a), HeadEnds(w, b)
    PROVE  a = b
<1>1. a \in Nat /\ b \in Nat
  BY HeadIs
<1>2. ASSUME NEW x, NEW y, HeadEnds(w, x), HeadEnds(w, y) PROVE ~(x < y)
  <2>1. x > 1 /\ x \in LineStarts(w) /\ ~IsHeader(LineAt(w, x))
    BY <1>2, HeadIs
  <2>2. 1 < x /\ x < y => IsHeader(LineAt(w, x))
    BY <1>2, <2>1 DEF HeadEnds
  <2>3. x \in Nat
    BY <1>2, HeadIs
  <2>4. QED BY <2>1, <2>2, <2>3
<1>3. ~(a < b) /\ ~(b < a)
  BY <1>2
<1>4. QED BY <1>1, <1>3

LEMMA NoHeadAtFirst ==
    ASSUME NEW w \in Seq(Tokens),
           (\A e \in Ends(w) : e <= 0) \/ ~IsRequestLine(LineAt(w, 1))
    PROVE  NoHead(w)
<1>1. SUFFICES ASSUME NEW b, HeadEnds(w, b) PROVE FALSE
  BY DEF NoHead
<1>2. IsRequestLine(LineAt(w, 1))
  BY <1>1 DEF HeadEnds
<1>3. PICK e \in Ends(w) : e >= b
  BY <1>1, HeadIs
<1>4. e \in Nat /\ e >= 1
  BY EndsAre
<1>5. QED BY <1>2, <1>4

LEMMA NoHeadThere ==
    ASSUME NEW w \in Seq(Tokens), NEW c \in Nat, HeadSoFar(w, c),
           \/ \A e \in Ends(w) : e <= c
           \/ LineAt(w, c + 1) # <<>> /\ ~IsHeader(LineAt(w, c + 1))
    PROVE  NoHead(w)
<1>1. SUFFICES ASSUME NEW b, HeadEnds(w, b) PROVE FALSE
  BY DEF NoHead
<1>2. /\ b \in Nat /\ b > 1 /\ b \in LineStarts(w)
      /\ LineAt(w, b) = <<>> /\ ~IsHeader(LineAt(w, b))
  BY <1>1, HeadIs
<1>3. PICK e \in Ends(w) : e >= b
  BY <1>1, HeadIs
<1>4. ~(b < c + 1)
  BY <1>2 DEF HeadSoFar
<1>5. e \in Nat /\ ~(e <= c)
  BY <1>2, <1>3, <1>4, EndsAre
<1>6. LineAt(w, c + 1) # <<>> /\ ~IsHeader(LineAt(w, c + 1))
  BY <1>5
<1>7. b # c + 1
  BY <1>2, <1>6
<1>8. 1 < c + 1 /\ c + 1 < b /\ c + 1 \in LineStarts(w)
  BY <1>2, <1>4, <1>7 DEF HeadSoFar
<1>9. IsHeader(LineAt(w, c + 1))
  BY <1>1, <1>8 DEF HeadEnds
<1>10. QED BY <1>6, <1>9

LEMMA HeadGrows ==
    ASSUME NEW w \in Seq(Tokens), NEW c \in Nat, NEW d \in Nat, HeadSoFar(w, c),
           NextLine(w, c, d), IsHeader(LineAt(w, c + 1))
    PROVE  HeadSoFar(w, d)
<1>1. ASSUME NEW j \in LineStarts(w), 1 < j, j < d + 1 PROVE IsHeader(LineAt(w, j))
  <2>1. j \in Nat /\ j <= c + 1
    BY <1>1, LineStartsAre DEF NextLine
  <2>2. CASE j = c + 1
    BY <2>2
  <2>3. CASE j # c + 1
    <3>1. j < c + 1
      BY <2>1, <2>3
    <3>2. QED BY <1>1, <3>1 DEF HeadSoFar
  <2>4. QED BY <2>2, <2>3
<1>2. d > 0
  BY DEF NextLine
<1>3. QED BY <1>1, <1>2 DEF HeadSoFar, NextLine

LEMMA HeadStarts ==
    ASSUME NEW w \in Seq(Tokens), NEW d \in Nat, NextLine(w, 0, d), IsRequestLine(LineAt(w, 1))
    PROVE  HeadSoFar(w, d) /\ Declared(w, d + 1) = Absent
<1>1. \A j \in LineStarts(w) : j \in Nat /\ (j < d + 1 => ~(1 < j))
  BY LineStartsAre DEF NextLine
<1>2. HeadSoFar(w, d)
  BY <1>1 DEF HeadSoFar, NextLine
<1>3. {j \in LineStarts(w) : 1 < j /\ j < d + 1 /\ w[j].t = "length"} = {}
  BY <1>1
<1>4. QED BY <1>2, <1>3 DEF Declared

LEMMA DeclaredGrows ==
    ASSUME NEW w \in Seq(Tokens), NEW c \in Nat, NEW d \in Nat, c > 0, c + 1 \in LineStarts(w),
           NextLine(w, c, d)
    PROVE  Declared(w, d + 1) = IF w[c + 1].t = "length" THEN w[c + 1].value
                                                         ELSE Declared(w, c + 1)
<1> DEFINE S == {j \in LineStarts(w) : 1 < j /\ j < c + 1 /\ w[j].t = "length"}
           U == {j \in LineStarts(w) : 1 < j /\ j < d + 1 /\ w[j].t = "length"}
<1>1. /\ Declared(w, c + 1) = IF S = {} THEN Absent ELSE w[Max(S)].value
      /\ Declared(w, d + 1) = IF U = {} THEN Absent ELSE w[Max(U)].value
  BY DEF Declared
<1>2. \A j \in LineStarts(w) : j \in Nat /\ (j < d + 1 <=> j <= c + 1)
  BY LineStartsAre DEF NextLine
<1>3. CASE w[c + 1].t # "length"
  <2>1. U = S
    BY <1>2, <1>3
  <2> HIDE DEF S, U
  <2>2. QED BY <1>1, <1>3, <2>1
<1>4. CASE w[c + 1].t = "length"
  <2>1. c + 1 \in U /\ \A j \in U : j \in Nat /\ j <= c + 1
    BY <1>2, <1>4
  <2> HIDE DEF S, U
  <2>2. \E m \in U : \A j \in U : m >= j
    BY <2>1
  <2>3. Max(U) \in U /\ \A j \in U : Max(U) >= j
    BY <2>2 DEF Max
  <2>4. Max(U) = c + 1
    BY <2>1, <2>3
  <2>5. QED BY <1>1, <1>4, <2>1, <2>4
<1>5. QED BY <1>3, <1>4

-----------------------------------------------------------------------------
(* The parser in the grammar: when the first d units of w have been taken, *)
(* r and out are what the grammar says of them.                            *)
FirstLine(w, r) == r.method = w[1].method /\ r.path = PathOf(w[1])

AtFirst(w, d, r, out) ==
    /\ r.state = "REQUEST_LINE"
    /\ \/ out = "loop" /\ d = 0 /\ r = Fresh
       \/ out = "false" /\ NoHead(w)

InHead(w, d, r, out) ==
    /\ r.state = "HEADERS"
    /\ \/ /\ out = "loop" /\ HeadSoFar(w, d) /\ FirstLine(w, r)
          /\ r.length = Declared(w, d + 1) /\ r.body = <<>>
       \/ out = "false" /\ NoHead(w)
       \/ out = "throw" /\ \E b : HeadEnds(w, b) /\ Declared(w, b) = NotANumber

InBody(w, d, r, out) ==
    /\ r.state = "BODY" /\ FirstLine(w, r)
    /\ out = "loop" \/ (out = "false" /\ Len(w) < d + r.contentLength)
    /\ \E b : HeadEnds(w, b) /\ d = b + 1 /\ r.contentLength = Declared(w, b)

AtEnd(w, d, r, out) ==
    /\ r.state = "FINISH" /\ out = "true" /\ FirstLine(w, r)
    /\ \E b : /\ HeadEnds(w, b) /\ Declared(w, b) # NotANumber /\ BodyLen(w, b) \in Nat
              /\ d = b + 1 + BodyLen(w, b) /\ r.body = SubSeq(w, b + 2, d)

Stage(w, d, r, out) == \/ AtFirst(w, d, r, out) \/ InHead(w, d, r, out)
                       \/ InBody(w, d, r, out) \/ AtEnd(w, d, r, out)

Progress(w, s) ==
    \E d \in 0 .. Len(w) : s.buf = Retrieve(w, d) /\ Stage(w, d, s.req, s.ret)

LEMMA FreshHas ==
    /\ Fresh \in Requests /\ Fresh.state = "REQUEST_LINE"
    /\ Fresh.length = Absent /\ Fresh.body = <<>>
<1>1. QED BY DEF Fresh, Requests, Texts

\* What _parseRequestLine leaves, field by field.
AfterLine(r, line) == [ParseRequestLine(r, line) EXCEPT !.state = "HEADERS"]

LEMMA RequestLineHas ==
    ASSUME NEW line \in Seq(Tokens), NEW r \in Requests, IsRequestLine(line),
           NEW q, q = AfterLine(r, line)
    PROVE  /\ q.state = "HEADERS" /\ q.method = line[1].method /\ q.path = PathOf(line[1])
           /\ q.length = r.length /\ q.body = r.body /\ Len(line) >= 1
<1>1. HasMethod(line) /\ line # <<>> /\ Len(line) >= 1
  BY DEF IsRequestLine, HasMethod
<1> DEFINE m == IF HasMethod(line) THEN line[1].method ELSE "INVALID"
           p == CASE ~IsRequestLine(line) -> r.path
                  [] IsRequestLine(line) /\ line[1].t = "req" -> line[1].path
                  [] OTHER -> "glued"
<1>2. m = line[1].method
  BY <1>1
<1>3. p = PathOf(line[1])
  <2>1. CASE line[1].t = "req"
    BY <2>1 DEF PathOf
  <2>2. CASE line[1].t # "req"
    BY <2>2 DEF PathOf
  <2>3. QED BY <2>1, <2>2
<1>4. ParseRequestLine(r, line) = [r EXCEPT !.method = m, !.path = p]
  BY DEF ParseRequestLine
<1> HIDE DEF m, p
<1>5. q = [[r EXCEPT !.method = m, !.path = p] EXCEPT !.state = "HEADERS"]
  BY <1>4 DEF AfterLine
<1>6. QED BY <1>1, <1>2, <1>3, <1>5 DEF Requests

LEMMA HeaderHas ==
    ASSUME NEW line \in Seq(Tokens), NEW r \in Requests, line # <<>>
    PROVE  LET q == ParseHeader(r, line)
           IN  /\ q.state = r.state /\ q.method = r.method /\ q.path = r.path
               /\ q.body = r.body
               /\ q.length = IF line[1].t = "length" THEN line[1].value ELSE r.length
<1> DEFINE q == ParseHeader(r, line)
<1>1. CASE line[1].t = "connection"
  <2> DEFINE v == IF Len(line) = 1 THEN line[1].value ELSE "other"
  <2>1. q = [r EXCEPT !.connection = v]
    BY <1>1 DEF ParseHeader
  <2> HIDE DEF v, q
  <2>2. QED BY <1>1, <2>1 DEF Requests, q
<1>2. CASE line[1].t = "length"
  <2>1. q = [r EXCEPT !.length = line[1].value]
    BY <1>2 DEF ParseHeader
  <2> HIDE DEF q
  <2>2. QED BY <1>2, <2>1 DEF Requests, q
<1>3. CASE line[1].t \notin {"connection", "length"}
  BY <1>3 DEF ParseHeader
<1>4. QED BY <1>1, <1>2, <1>3

LEMMA FirstProgress ==
    ASSUME NEW w \in Seq(Tokens), NEW t, t = ParseStep(At(Fresh, Retrieve(w, 0)))
    PROVE  Progress(w, t)
<1> DEFINE rest == Retrieve(w, 0)
           i == FindCRLF(rest)
<1>1. Len(w) \in Nat /\ 0 <= Len(w) /\ 0 \in 0 .. Len(w) /\ 0 + 1 = 1 /\ 1 \in LineStarts(w)
  BY LineStartsAre
<1>2. rest \in Seq(Tokens)
  BY <1>1, RetrieveIs
<1>3. /\ i \in Nat
      /\ i = 0 => \A e \in Ends(w) : e <= 0
      /\ i > 0 => LineFoundAt(w, 0, i)
  BY <1>1, LineFound
<1> HIDE DEF rest, i
<1>f. i = FindCRLF(rest) /\ rest = Retrieve(w, 0)
  BY DEF i, rest
<1>4. CASE i = 0
  <2>1. t = Left(Fresh, rest, "false")
    BY <1>2, <1>4, <1>f, FreshHas, OnRequestLineIs
  <2>2. NoHead(w)
    BY <1>3, <1>4, NoHeadAtFirst
  <2>3. t.req = Fresh /\ t.buf = rest /\ t.ret = "false"
    BY <2>1 DEF Left
  <2>4. QED BY <1>1, <1>f, <2>2, <2>3, FreshHas DEF Progress, Stage, AtFirst
<1>5. CASE i > 0 /\ ~IsRequestLine(LineOf(rest))
  <2>1. t = Left(ParseRequestLine(Fresh, LineOf(rest)), rest, "false")
    BY <1>2, <1>5, <1>f, FreshHas, OnRequestLineIs
  <2>2. LineAt(w, 1) = LineOf(rest) /\ LineOf(rest) \in Seq(Tokens)
    BY <1>1, <1>3, <1>5, <1>f DEF LineFoundAt
  <2>3. NoHead(w)
    BY <1>5, <2>2, NoHeadAtFirst
  <2>4. ParseRequestLine(Fresh, LineOf(rest)).state = "REQUEST_LINE"
    BY <2>2, FreshHas, LineIs
  <2>5. /\ t.req = ParseRequestLine(Fresh, LineOf(rest)) /\ t.buf = rest /\ t.ret = "false"
    BY <2>1 DEF Left
  <2>6. QED BY <1>1, <1>f, <2>3, <2>4, <2>5 DEF Progress, Stage, AtFirst
<1>6. CASE i > 0 /\ IsRequestLine(LineOf(rest))
  <2> DEFINE line == LineOf(rest)
             q == AfterLine(Fresh, line)
             d == i + 1
  <2>1. t = Left(q, Retrieve(rest, i + 1), "loop")
    BY <1>2, <1>6, <1>f, FreshHas, OnRequestLineIs DEF AfterLine
  <2>2. LineFoundAt(w, 0, i)
    BY <1>3, <1>6
  <2>3. 0 + i + 1 = i + 1 /\ 0 + i + 2 = (i + 1) + 1 /\ (i + 1) \in Nat
    BY <1>3
  <2>4. /\ d \in 0 .. Len(w) /\ LineAt(w, 1) = line /\ line \in Seq(Tokens) /\ Len(line) = i - 1
        /\ Retrieve(rest, i + 1) = Retrieve(w, d) /\ (i > 1 => line[1] = w[1])
    BY <1>1, <1>f, <2>2, <2>3 DEF LineFoundAt
  <2>5. NextLine(w, 0, d)
    BY <1>1, <1>3, <1>6, <2>2, <2>3 DEF LineFoundAt, NextLine
  <2> HIDE DEF line, d
  <2>6. /\ q.state = "HEADERS" /\ q.method = line[1].method /\ q.path = PathOf(line[1])
        /\ q.length = Absent /\ q.body = <<>> /\ Len(line) >= 1
    <3>1. IsRequestLine(line)
      BY <1>6 DEF line
    <3> HIDE DEF q
    <3>2. q = AfterLine(Fresh, line)
      BY DEF q
    <3>3. QED BY <2>4, <3>1, <3>2, FreshHas, RequestLineHas
  <2>7. line[1] = w[1]
    BY <1>3, <2>4, <2>6
  <2>8. HeadSoFar(w, d) /\ Declared(w, d + 1) = Absent
    <3>1. d \in Nat /\ IsRequestLine(LineAt(w, 1))
      BY <1>6, <2>4 DEF line
    <3>2. QED BY <2>5, <3>1, HeadStarts
  <2>9. t.req = q /\ t.buf = Retrieve(w, d) /\ t.ret = "loop"
    BY <2>1, <2>4 DEF Left
  <2> HIDE DEF q
  <2>10. InHead(w, d, t.req, t.ret)
    BY <2>6, <2>7, <2>8, <2>9 DEF InHead, FirstLine
  <2>11. QED BY <2>4, <2>9, <2>10 DEF Progress, Stage
<1>7. QED BY <1>3, <1>4, <1>5, <1>6

LEMMA HeadersProgress ==
    ASSUME NEW w \in Seq(Tokens), NEW c \in 0 .. Len(w), NEW r \in Requests,
           InHead(w, c, r, "loop"), NEW t, t = ParseStep(At(r, Retrieve(w, c)))
    PROVE  Progress(w, t)
<1> DEFINE rest == Retrieve(w, c)
           i == FindCRLF(rest)
           line == LineOf(rest)
<1>1. /\ Len(w) \in Nat /\ c \in Nat /\ c <= Len(w) /\ r.state = "HEADERS"
      /\ HeadSoFar(w, c) /\ FirstLine(w, r) /\ r.length = Declared(w, c + 1) /\ r.body = <<>>
  BY DEF InHead
<1>2. rest \in Seq(Tokens)
  BY <1>1, RetrieveIs
<1>3. /\ i \in Nat
      /\ i = 0 => \A e \in Ends(w) : e <= c
      /\ i > 0 => LineFoundAt(w, c, i)
  BY <1>1, LineFound DEF HeadSoFar
<1> HIDE DEF rest, i, line
<1>f. i = FindCRLF(rest) /\ rest = Retrieve(w, c) /\ line = LineOf(rest)
  BY DEF i, rest, line
<1>4. CASE i > 0
  <2> DEFINE d == c + i + 1
  <2>1. LineFoundAt(w, c, i)
    BY <1>3, <1>4
  <2>2. d \in Nat /\ d + 1 = c + i + 2 /\ c + 1 < d + 1
    BY <1>1, <1>3, <1>4
  <2>3. /\ d \in 0 .. Len(w) /\ c + 1 \in CompleteStarts(w) /\ LineAt(w, c + 1) = line
        /\ Retrieve(rest, i + 1) = Retrieve(w, d) /\ line \in Seq(Tokens) /\ Len(line) = i - 1
        /\ i > 1 => line[1] = w[c + 1]
    BY <1>f, <2>1 DEF LineFoundAt
  <2>4. NextLine(w, c, d)
    BY <1>1, <1>3, <2>1, <2>2 DEF LineFoundAt, NextLine
  <2> HIDE DEF d
  <2>5. CASE i > 1 /\ ~IsHeader(line)
    <3>1. t = Left(r, rest, "false")
      BY <1>1, <1>2, <1>f, <2>5, OnHeadersIs
    <3>2. LineAt(w, c + 1) # <<>> /\ ~IsHeader(LineAt(w, c + 1))
      BY <1>3, <2>3, <2>5
    <3>3. NoHead(w)
      BY <1>1, <3>2, NoHeadThere
    <3>4. t.req = r /\ t.buf = rest /\ t.ret = "false"
      BY <3>1 DEF Left
    <3>5. QED BY <1>1, <1>f, <3>3, <3>4 DEF Progress, Stage, InHead
  <2>6. CASE i > 1 /\ IsHeader(line)
    <3> DEFINE q == ParseHeader(r, line)
    <3>1. t = Left(q, Retrieve(rest, i + 1), "loop")
      BY <1>1, <1>2, <1>f, <2>6, OnHeadersIs
    <3>2. line # <<>> /\ line[1] = w[c + 1]
      BY <1>3, <2>3, <2>6
    <3>3. /\ q.state = "HEADERS" /\ q.method = r.method /\ q.path = r.path /\ q.body = <<>>
          /\ q.length = IF w[c + 1].t = "length" THEN w[c + 1].value ELSE r.length
      BY <1>1, <2>3, <3>2, HeaderHas
    <3> HIDE DEF q
    <3>4. HeadSoFar(w, d)
      BY <1>1, <2>2, <2>3, <2>4, <2>6, HeadGrows
    <3>5. Declared(w, d + 1) = IF w[c + 1].t = "length" THEN w[c + 1].value ELSE r.length
      <4>1. c > 0 /\ c + 1 \in LineStarts(w)
        BY <1>1 DEF HeadSoFar
      <4>2. QED BY <1>1, <2>2, <2>4, <4>1, DeclaredGrows
    <3>6. t.req = q /\ t.buf = Retrieve(w, d) /\ t.ret = "loop"
      BY <2>3, <3>1 DEF Left
    <3>7. InHead(w, d, t.req, t.ret)
      BY <1>1, <3>3, <3>4, <3>5, <3>6 DEF InHead, FirstLine
    <3>8. QED BY <2>3, <3>6, <3>7 DEF Progress, Stage
  <2>7. CASE i = 1
    <3>1. line = <<>>
      BY <2>3, <2>7
    <3>2. HeadEnds(w, c + 1)
      <4>1. c + 1 > 1
        BY <1>1 DEF HeadSoFar
      <4>2. QED BY <1>1, <2>3, <3>1, <4>1 DEF HeadEnds, HeadSoFar
    <3>3. Retrieve(rest, 2) = Retrieve(w, d) /\ d = (c + 1) + 1 /\ d = (c + 1) + 1 + 0
      BY <1>1, <2>3, <2>7 DEF d
    <3>4. CASE r.length = Absent
      <4> DEFINE q == [r EXCEPT !.state = "FINISH"]
      <4>1. t = Left(q, Retrieve(rest, 2), "true")
        BY <1>1, <1>2, <1>f, <2>7, <3>4, OnHeadersIs
      <4>2. /\ q.state = "FINISH" /\ q.method = r.method /\ q.path = r.path /\ q.body = <<>>
        BY <1>1 DEF Requests
      <4> HIDE DEF q
      <4>3. t.req = q /\ t.buf = Retrieve(w, d) /\ t.ret = "true"
        BY <3>3, <4>1 DEF Left
      <4>4. Declared(w, c + 1) # NotANumber /\ BodyLen(w, c + 1) = 0
        BY <1>1, <3>4 DEF BodyLen, Absent, NotANumber
      <4>5. SubSeq(w, (c + 1) + 2, d) = <<>>
        <5>1. (c + 1) + 2 \in Int /\ d \in Int /\ d < (c + 1) + 2
          BY <1>1, <2>2, <3>3
        <5>2. QED BY <5>1, SubSeqEmpty
      <4>6. AtEnd(w, d, t.req, t.ret)
        <5>1. \E b : /\ HeadEnds(w, b) /\ Declared(w, b) # NotANumber /\ BodyLen(w, b) \in Nat
                     /\ d = b + 1 + BodyLen(w, b) /\ q.body = SubSeq(w, b + 2, d)
          BY <3>2, <3>3, <4>2, <4>4, <4>5
        <5>2. QED BY <1>1, <4>2, <4>3, <5>1 DEF AtEnd, FirstLine
      <4>7. QED BY <2>3, <4>3, <4>6 DEF Progress, Stage
    <3>5. CASE r.length = NotANumber
      <4>1. t = Left(r, Retrieve(rest, 2), "throw")
        BY <1>1, <1>2, <1>f, <2>7, <3>5, OnHeadersIs
      <4>2. t.req = r /\ t.buf = Retrieve(w, d) /\ t.ret = "throw"
        BY <3>3, <4>1 DEF Left
      <4>3. InHead(w, d, t.req, t.ret)
        BY <1>1, <3>2, <3>5, <4>2 DEF InHead
      <4>4. QED BY <2>3, <4>2, <4>3 DEF Progress, Stage
    <3>6. CASE r.length \notin {Absent, NotANumber}
      <4> DEFINE q == [r EXCEPT !.contentLength = r.length, !.state = "BODY"]
      <4>1. t = Left(q, Retrieve(rest, 2), "loop")
        BY <1>1, <1>2, <1>f, <2>7, <3>6, OnHeadersIs
      <4>2. /\ q.state = "BODY" /\ q.method = r.method /\ q.path = r.path
            /\ q.contentLength = Declared(w, c + 1)
        BY <1>1 DEF Requests
      <4> HIDE DEF q
      <4>3. t.req = q /\ t.buf = Retrieve(w, d) /\ t.ret = "loop"
        BY <3>3, <4>1 DEF Left
      <4>4. InBody(w, d, t.req, t.ret)
        BY <1>1, <3>2, <3>3, <4>2, <4>3 DEF InBody, FirstLine
      <4>5. QED BY <2>3, <4>3, <4>4 DEF Progress, Stage
    <3>7. QED BY <3>4, <3>5, <3>6
  <2>8. QED BY <1>3, <1>4, <2>5, <2>6, <2>7
<1>5. CASE i = 0
  <2>1. t = Left(r, rest, "false")
    BY <1>1, <1>2, <1>f, <1>5, OnHeadersIs
  <2>2. NoHead(w)
    BY <1>1, <1>3, <1>5, NoHeadThere
  <2>3. t.req = r /\ t.buf = rest /\ t.ret = "false"
    BY <2>1 DEF Left
  <2>4. QED BY <1>1, <1>f, <2>2, <2>3 DEF Progress, Stage, InHead
<1>6. QED BY <1>3, <1>4, <1>5

LEMMA BodyProgress ==
    ASSUME NEW w \in Seq(Tokens), NEW c \in 0 .. Len(w), NEW r \in Requests,
           InBody(w, c, r, "loop"), NEW t, t = ParseStep(At(r, Retrieve(w, c)))
    PROVE  Progress(w, t)
<1> DEFINE rest == Retrieve(w, c)
           n == r.contentLength
<1>1. /\ Len(w) \in Nat /\ c \in Nat /\ c <= Len(w) /\ r.state = "BODY" /\ FirstLine(w, r)
      /\ n \in Nat /\ rest = SubSeq(w, c + 1, Len(w))
  BY DEF InBody, Requests, Retrieve
<1>2. PICK b : HeadEnds(w, b) /\ c = b + 1 /\ n = Declared(w, b)
  BY DEF InBody
<1>3. b \in Nat
  BY <1>2, HeadIs
<1>4. rest \in Seq(Tokens) /\ Len(rest) = Len(w) - c
  BY <1>1, RetrieveIs
<1> HIDE DEF rest, n
<1>f. n = r.contentLength /\ rest = Retrieve(w, c)
  BY DEF n, rest
<1>5. CASE ~(Len(rest) >= n)
  <2>1. t = Left(r, rest, "false")
    BY <1>1, <1>5, <1>f, OnBodyIs
  <2>2. t.req = r /\ t.buf = rest /\ t.ret = "false"
    BY <2>1 DEF Left
  <2>3. Len(w) < c + n
    BY <1>1, <1>4, <1>5
  <2>4. InBody(w, c, t.req, t.ret)
    BY <1>1, <1>2, <1>f, <2>2, <2>3 DEF InBody
  <2>5. QED BY <1>1, <1>f, <2>2, <2>4 DEF Progress, Stage
<1>6. CASE Len(rest) >= n
  <2> DEFINE body == SubSeq(rest, 1, n)
             q == [r EXCEPT !.body = body, !.state = "FINISH"]
             d == c + n
  <2>1. t = Left(q, Retrieve(rest, n), "true")
    <3>1. ParseStep(At(r, rest)) = Left(q, Retrieve(rest, n), "true")
      BY <1>1, <1>6, <1>f, OnBodyIs, Zenon
    <3>2. QED BY <1>f, <3>1
  <2>2. d \in 0 .. Len(w) /\ d \in Nat /\ d <= Len(w)
    BY <1>1, <1>4, <1>6
  <2>3. body = SubSeq(w, b + 2, d)
    <3>1. SubSeq(SubSeq(w, c + 1, Len(w)), 1, n) = SubSeq(w, c + 1, c + n)
      <4>1. 1 \in Nat /\ 1 >= 1 /\ 1 <= n + 1 /\ Len(w) <= Len(w) /\ c + n <= Len(w)
        BY <1>1, <2>2
      <4>2. QED BY <1>1, <4>1, SliceSlice
    <3>2. c + 1 = b + 2
      BY <1>2, <1>3
    <3>3. QED BY <1>1, <3>1, <3>2
  <2>4. Retrieve(rest, n) = Retrieve(w, d)
    <3> DEFINE a == n + 1
               z == Len(w) - c
    <3>1. /\ a \in Nat /\ a >= 1 /\ z \in Nat /\ a <= z + 1 /\ c + z = Len(w) /\ c + a = d + 1
          /\ z = Len(rest) /\ c + z <= Len(w)
      BY <1>1, <1>4, <1>6
    <3> HIDE DEF a, z, d
    <3>2. SubSeq(SubSeq(w, c + 1, Len(w)), a, z) = SubSeq(w, c + a, c + z)
      BY <1>1, <3>1, SliceSlice
    <3>3. Retrieve(rest, n) = SubSeq(SubSeq(w, c + 1, Len(w)), a, z)
      BY <1>1, <3>1 DEF Retrieve, a
    <3>4. Retrieve(w, d) = SubSeq(w, c + a, c + z)
      BY <3>1 DEF Retrieve
    <3>5. QED BY <3>2, <3>3, <3>4
  <2> HIDE DEF body
  <2>5. q.state = "FINISH" /\ q.method = r.method /\ q.path = r.path /\ q.body = body
    BY DEF Requests
  <2> HIDE DEF q
  <2>6. t.req = q /\ t.buf = Retrieve(w, d) /\ t.ret = "true"
    BY <2>1, <2>4 DEF Left
  <2>7. Declared(w, b) # NotANumber /\ BodyLen(w, b) = n
    BY <1>1, <1>2 DEF BodyLen, Absent, NotANumber
  <2>8. d = b + 1 + BodyLen(w, b)
    BY <1>1, <1>2, <1>3, <2>7
  <2> HIDE DEF d
  <2>9. AtEnd(w, d, t.req, t.ret)
    <3>1. \E x : /\ HeadEnds(w, x) /\ Declared(w, x) # NotANumber /\ BodyLen(w, x) \in Nat
                 /\ d = x + 1 + BodyLen(w, x) /\ q.body = SubSeq(w, x + 2, d)
      BY <1>1, <1>2, <2>3, <2>5, <2>7, <2>8
    <3>2. QED BY <1>1, <2>5, <2>6, <3>1 DEF AtEnd, FirstLine
  <2>10. QED BY <2>2, <2>6, <2>9 DEF Progress, Stage
<1>7. QED BY <1>5, <1>6

LEMMA StepProgress ==
    ASSUME NEW w \in Seq(Tokens), NEW s \in ParserStates, Progress(w, s)
    PROVE  Progress(w, ParseStep(s))
<1>1. CASE s.ret # "loop"
  <2>1. ParseStep(s) = s
    BY <1>1, StepType
  <2>2. QED BY <2>1
<1>2. CASE s.ret = "loop"
  <2>1. PICK c \in 0 .. Len(w) : s.buf = Retrieve(w, c) /\ Stage(w, c, s.req, s.ret)
    BY DEF Progress
  <2>2. s = At(s.req, Retrieve(w, c)) /\ s.req \in Requests
    <3>1. s = [req |-> s.req, buf |-> s.buf, ret |-> s.ret] /\ s.req \in Requests
      BY DEF ParserStates
    <3>2. QED BY <1>2, <2>1, <3>1 DEF At
  <2>3. \/ c = 0 /\ s.req = Fresh
        \/ InHead(w, c, s.req, "loop")
        \/ InBody(w, c, s.req, "loop")
    BY <1>2, <2>1 DEF Stage, AtFirst, AtEnd
  <2>4. QED BY <2>2, <2>3, FirstProgress, HeadersProgress, BodyProgress
<1>3. QED BY <1>1, <1>2

LEMMA ParseProgress ==
    ASSUME NEW w \in Seq(Tokens)
    PROVE  /\ Parse(Fresh, w) \in ParserStates /\ Parse(Fresh, w).ret \in Returns
           /\ Progress(w, Parse(Fresh, w))
<1> DEFINE I == {s \in ParserStates : Progress(w, s)}
<1>1. At(Fresh, w) \in I
  <2>1. At(Fresh, w) \in ParserStates
    BY FreshHas DEF At, ParserStates
  <2>2. 0 \in 0 .. Len(w) /\ Retrieve(w, 0) = w
    <3>1. Len(w) \in Nat /\ Retrieve(w, 0) = SubSeq(w, 1, Len(w))
      BY DEF Retrieve
    <3>2. QED BY <3>1
  <2>3. AtFirst(w, 0, Fresh, "loop")
    BY FreshHas DEF AtFirst
  <2>4. At(Fresh, w).req = Fresh /\ At(Fresh, w).buf = w /\ At(Fresh, w).ret = "loop"
    BY DEF At
  <2>5. QED BY <2>1, <2>2, <2>3, <2>4 DEF Progress, Stage
<1>2. ASSUME NEW s \in I PROVE ParseStep(s) \in I
  BY <1>2, StepType, StepProgress
<1> HIDE DEF I
<1>3. \A n \in Nat : Loop(Fresh, w)[n] \in I
  BY <1>1, <1>2, LoopInduct
<1>4. Len(w) + 1 \in Nat /\ Parse(Fresh, w) = Loop(Fresh, w)[Len(w) + 1]
  BY LoopIs
<1>5. Parse(Fresh, w) \in I
  BY <1>3, <1>4
<1>6. QED BY <1>5, FreshHas, ParseReturns DEF I

(* Parse, given the whole of a text, says whether it starts with a request *)
(* and which.                                                              *)
LEMMA ParseIsTheGrammar ==
    ASSUME NEW w \in Seq(Tokens), NEW p, p = Parse(Fresh, w)
    PROVE  /\ p.ret = "true" => \E b, k \in 1 .. Len(w) : IsRequest(w, b, k)
           /\ \A b, k \in 1 .. Len(w) : IsRequest(w, b, k) =>
                /\ p.ret = "true" /\ FirstLine(w, p.req) /\ b + 1 <= k
                /\ p.req.body = SubSeq(w, b + 2, k) /\ p.buf = SubSeq(w, k + 1, Len(w))
<1>1. p \in ParserStates /\ p.ret \in Returns /\ Progress(w, p)
  BY ParseProgress
<1>2. PICK d \in 0 .. Len(w) : p.buf = Retrieve(w, d) /\ Stage(w, d, p.req, p.ret)
  BY <1>1 DEF Progress
<1>3. Len(w) \in Nat
  OBVIOUS
<1>4. ASSUME p.ret = "true" PROVE \E b, k \in 1 .. Len(w) : IsRequest(w, b, k)
  <2>1. AtEnd(w, d, p.req, p.ret)
    BY <1>2, <1>4 DEF Stage, AtFirst, InHead, InBody
  <2>2. PICK b : /\ HeadEnds(w, b) /\ Declared(w, b) # NotANumber /\ BodyLen(w, b) \in Nat
                 /\ d = b + 1 + BodyLen(w, b)
    BY <2>1 DEF AtEnd
  <2>3. b \in 1 .. Len(w)
    BY <1>3, <2>2, HeadIs
  <2>4. IsRequest(w, b, d)
    BY <2>2 DEF IsRequest
  <2>5. d \in 1 .. Len(w)
    BY <1>3, <2>2, <2>3
  <2>6. QED BY <2>3, <2>4, <2>5
<1>5. ASSUME NEW b \in 1 .. Len(w), NEW k \in 1 .. Len(w), IsRequest(w, b, k)
      PROVE  /\ p.ret = "true" /\ FirstLine(w, p.req) /\ b + 1 <= k
             /\ p.req.body = SubSeq(w, b + 2, k) /\ p.buf = SubSeq(w, k + 1, Len(w))
  <2>1. HeadEnds(w, b) /\ Declared(w, b) # NotANumber /\ k = b + 1 + BodyLen(w, b)
    BY <1>5 DEF IsRequest
  <2>2. \A x : HeadEnds(w, x) => x = b
    BY <2>1, HeadIsOne
  <2>3. ~NoHead(w)
    BY <2>1 DEF NoHead
  <2>4. ~AtFirst(w, d, p.req, p.ret) /\ ~InHead(w, d, p.req, p.ret)
    BY <1>1, <2>1, <2>2, <2>3 DEF AtFirst, InHead, Returns
  <2>5. ~InBody(w, d, p.req, p.ret)
    <3>1. SUFFICES ASSUME InBody(w, d, p.req, p.ret) PROVE FALSE
      OBVIOUS
    <3>2. Len(w) < d + p.req.contentLength /\ d = b + 1 /\ p.req.contentLength = Declared(w, b)
      BY <1>1, <2>2, <3>1 DEF InBody, Returns
    <3>3. p.req.contentLength \in Nat
      BY <1>1 DEF ParserStates, Requests
    <3>4. BodyLen(w, b) = p.req.contentLength
      BY <3>2, <3>3 DEF BodyLen, Absent
    <3>5. k <= Len(w) /\ k = d + p.req.contentLength
      BY <1>5, <2>1, <3>2, <3>4
    <3>6. \A x, y \in Nat : x <= y => ~(y < x)
      OBVIOUS
    <3>7. k \in Nat
      BY <1>5
    <3>8. QED BY <1>3, <3>2, <3>5, <3>6, <3>7
  <2>6. AtEnd(w, d, p.req, p.ret)
    BY <1>2, <2>4, <2>5 DEF Stage
  <2>7. b + 1 <= k
    <3>1. BodyLen(w, b) \in Nat
      BY <2>2, <2>6 DEF AtEnd
    <3>2. QED BY <1>5, <2>1, <3>1
  <2>8. d = k /\ p.req.body = SubSeq(w, b + 2, k) /\ p.ret = "true" /\ FirstLine(w, p.req)
    BY <2>1, <2>2, <2>6 DEF AtEnd
  <2>9. QED BY <1>2, <2>8, <2>7 DEF Retrieve
<1>6. QED BY <1>4, <1>5

(* Whatever the stream and its segments, what Parse reports as a request   *)
(* is one, with the method, path and body that it reads there; a request   *)
(* that has arrived in full is never missed; and Parse leaves the bytes    *)
(* behind it, no less and no more, for the next one.                       *)
THEOREM RequestsAreRecognized == Spec => []ParsesTheGrammar
<1>1. ASSUME FeedInv PROVE ParsesTheGrammar
  <2> DEFINE p == Parse(Fresh, Arrived)
  <2>1. stream \in Seq(Tokens) /\ fed \in 0 .. Len(stream) /\ Len(stream) \in Nat
    BY <1>1 DEF FeedInv, TypeOK
  <2>2. CASE fed = 0
    <3>1. ret = "false" /\ 1 .. fed = {}
      BY <1>1, <2>2 DEF FeedInv
    <3>2. QED BY <3>1 DEF ParsesTheGrammar
  <2>3. CASE fed # 0
    <3>1. /\ Arrived \in Seq(Tokens) /\ Len(Arrived) = fed /\ Arrived[1] = stream[1]
      <4>1. 1 \in 1 .. fed
        BY <2>1, <2>3
      <4>2. QED BY <2>1, <4>1, RetrieveIs DEF Arrived
    <3>2. \A a, b \in Nat : a >= 1 /\ a <= b + 1 /\ b <= fed =>
             SubSeq(Arrived, a, b) = SubSeq(stream, a, b)
      <4>1. SUFFICES ASSUME NEW a \in Nat, NEW b \in Nat, a >= 1, a <= b + 1, b <= fed
                     PROVE  SubSeq(Arrived, a, b) = SubSeq(stream, a, b)
        OBVIOUS
      <4>2. /\ 0 \in Nat /\ fed \in Nat /\ 0 <= fed /\ fed <= Len(stream) /\ 0 + b <= fed
            /\ 0 + a = a /\ 0 + b = b /\ 0 + 1 = 1
        BY <2>1, <4>1
      <4>3. SubSeq(SubSeq(stream, 0 + 1, fed), a, b) = SubSeq(stream, 0 + a, 0 + b)
        BY <2>1, <4>1, <4>2, SliceSlice
      <4>4. QED BY <4>2, <4>3 DEF Arrived
    <3>3. ret = p.ret /\ req = p.req /\ buf = p.buf
      BY <1>1, <2>1, <2>3 DEF FeedInv, FragmentationIrrelevant
    <3> HIDE DEF p
    <3>4. /\ p.ret = "true" => \E b, k \in 1 .. fed : IsRequest(Arrived, b, k)
          /\ \A b, k \in 1 .. fed : IsRequest(Arrived, b, k) =>
               /\ p.ret = "true" /\ FirstLine(Arrived, p.req) /\ b + 1 <= k
               /\ p.req.body = SubSeq(Arrived, b + 2, k) /\ p.buf = SubSeq(Arrived, k + 1, fed)
      BY <3>1, ParseIsTheGrammar DEF p
    <3>5. ASSUME NEW b \in 1 .. fed, NEW k \in 1 .. fed, IsRequest(Arrived, b, k)
          PROVE  /\ ret = "true" /\ req.method = stream[1].method /\ req.path = PathOf(stream[1])
                 /\ req.body = SubSeq(stream, b + 2, k) /\ buf = SubSeq(stream, k + 1, fed)
      <4>1. /\ p.ret = "true" /\ FirstLine(Arrived, p.req) /\ b + 1 <= k
            /\ p.req.body = SubSeq(Arrived, b + 2, k) /\ p.buf = SubSeq(Arrived, k + 1, fed)
        BY <3>4, <3>5
      <4>2. SubSeq(Arrived, b + 2, k) = SubSeq(stream, b + 2, k)
        <5>1. b + 2 \in Nat /\ k \in Nat /\ b + 2 >= 1 /\ b + 2 <= k + 1 /\ k <= fed
          BY <2>1, <4>1
        <5>2. QED BY <3>2, <5>1
      <4>3. SubSeq(Arrived, k + 1, fed) = SubSeq(stream, k + 1, fed)
        <5>1. k + 1 \in Nat /\ fed \in Nat /\ k + 1 >= 1 /\ k + 1 <= fed + 1 /\ fed <= fed
          BY <2>1
        <5>2. QED BY <3>2, <5>1
      <4>4. QED BY <3>1, <3>3, <4>1, <4>2, <4>3 DEF FirstLine
    <3>6. QED BY <3>3, <3>4, <3>5 DEF ParsesTheGrammar
  <2>4. QED BY <2>2, <2>3
<1>2. QED BY <1>1, AlwaysFeedInv, PTL
=============================================================================
