------------------------ MODULE SessionServed_proof ------------------------
(***************************************************************************)
(* A session serves the requests its client sent, whole and in order, and  *)
(* its data has its type.  First what Encode makes of a message and of a   *)
(* plan, place by place; then the parser in such a stream: from every      *)
(* place where it can stand in a message an iteration takes it to another, *)
(* so that Parse returns "true" just where a message ends, with that       *)
(* message; last the session, whose buffers hold what follows the place.   *)
(***************************************************************************)
EXTENDS Session_proof, HttpRequest_proof

-----------------------------------------------------------------------------
(* What a client sends for one message: the lines of its head, the blank   *)
(* line and the body, and where each of them ends.                         *)
ConnectionEnd(m) == IF m.connection = "" THEN 3 ELSE 6
LengthEnd(m) == IF m.length = Absent THEN ConnectionEnd(m) ELSE ConnectionEnd(m) + 3
HeadEnd(m) == LengthEnd(m) + 2

FirstText(m) == IF m.method = "INVALID" THEN Byte ELSE ReqLine(m.method, m.path)

\* The units w of which text is one line, from offset o on.
LineThere(w, o, text) ==
    o + 3 <= Len(w) /\ w[o + 1] = text /\ w[o + 2] = CR /\ w[o + 3] = LF

LEMMA TextsAre ==
    ASSUME NEW m \in Messages
    PROVE  /\ CR \in Tokens /\ LF \in Tokens /\ Byte \in Tokens
           /\ FirstText(m) \in Tokens /\ FirstText(m) # CR
           /\ Connection(m.connection) \in Tokens /\ Connection(m.connection) # CR
           /\ m.length # Absent => ContentLength(m.length) \in Tokens
           /\ ContentLength(m.length) # CR /\ CR # LF
           /\ m.body \in Seq(Tokens) /\ Len(m.body) \in Nat
<1>1. /\ m.method \in Methods \cup {"INVALID"} /\ m.path \in Texts /\ m.connection \in Texts
      /\ m.length \in Nat \cup {Absent, NotANumber} /\ m.body \in Seq({Byte})
  BY DEF Messages, Texts
<1>2. CR \in Tokens /\ LF \in Tokens /\ Byte \in Tokens
  BY DEF Tokens
<1>3. \A x : x.t # "cr" => x # CR
  BY DEF CR
<1>4. FirstText(m).t \in {"req", "byte"} /\ FirstText(m) \in Tokens
  BY <1>1, <1>2 DEF FirstText, ReqLine, Byte, Tokens
<1>5. /\ Connection(m.connection).t = "connection" /\ Connection(m.connection) \in Tokens
  BY <1>1 DEF Connection, Tokens
<1>6. /\ ContentLength(m.length).t = "length"
      /\ m.length # Absent => ContentLength(m.length) \in Tokens
  BY <1>1 DEF ContentLength, Tokens
<1>7. LF.t = "lf"
  BY DEF LF
<1>8. m.body \in Seq(Tokens) /\ Len(m.body) \in Nat
  BY <1>1, <1>2
<1>9. QED BY <1>2, <1>3, <1>4, <1>5, <1>6, <1>7, <1>8

LEMMA LineIsThere ==
    ASSUME NEW text \in Tokens, CR \in Tokens, LF \in Tokens
    PROVE  /\ Line(text) \in Seq(Tokens) /\ Len(Line(text)) = 3
           /\ Line(text)[1] = text /\ Line(text)[2] = CR /\ Line(text)[3] = LF
<1>1. QED BY DEF Line

\* A line that is put behind other units, and others behind it.
LEMMA LineBehind ==
    ASSUME NEW a \in Seq(Tokens), NEW text \in Tokens, CR \in Tokens, LF \in Tokens
    PROVE  /\ a \o Line(text) \in Seq(Tokens) /\ Len(a \o Line(text)) = Len(a) + 3
           /\ LineThere(a \o Line(text), Len(a), text)
<1> DEFINE l == Line(text)
<1>1. l \in Seq(Tokens) /\ Len(l) = 3 /\ l[1] = text /\ l[2] = CR /\ l[3] = LF
  BY LineIsThere
<1> HIDE DEF l
<1>2. /\ a \o l \in Seq(Tokens) /\ Len(a \o l) = Len(a) + Len(l) /\ Len(a) \in Nat
      /\ \A i \in 1 .. Len(l) : (a \o l)[Len(a) + i] = l[i]
  <2>1. l \in Seq(Tokens)
    BY <1>1
  <2>2. QED BY <2>1, ConcatFront
<1>3. 1 \in 1 .. Len(l) /\ 2 \in 1 .. Len(l) /\ 3 \in 1 .. Len(l)
  BY <1>1
<1>4. LineThere(a \o l, Len(a), text)
  BY <1>1, <1>2, <1>3 DEF LineThere
<1>5. QED BY <1>1, <1>2, <1>4 DEF l

LEMMA LineStays ==
    ASSUME NEW a \in Seq(Tokens), NEW b \in Seq(Tokens), NEW o \in Nat, NEW text,
           LineThere(a, o, text)
    PROVE  LineThere(a \o b, o, text)
<1>1. /\ Len(a \o b) = Len(a) + Len(b) /\ Len(a) \in Nat /\ Len(b) \in Nat
      /\ \A i \in 1 .. Len(a) : (a \o b)[i] = a[i]
  BY ConcatFront
<1>2. o + 1 \in 1 .. Len(a) /\ o + 2 \in 1 .. Len(a) /\ o + 3 \in 1 .. Len(a)
  BY <1>1 DEF LineThere
<1>3. QED BY <1>1, <1>2 DEF LineThere

\* The units of a message, place by place.
Spelled(m, w) ==
    /\ w \in Seq(Tokens) /\ Len(w) = HeadEnd(m) + Len(m.body)
    /\ LineThere(w, 0, FirstText(m))
    /\ m.connection # "" => LineThere(w, 3, Connection(m.connection))
    /\ m.length # Absent => LineThere(w, ConnectionEnd(m), ContentLength(m.length))
    /\ w[LengthEnd(m) + 1] = CR /\ w[LengthEnd(m) + 2] = LF
    /\ \A i \in 1 .. Len(m.body) : w[HeadEnd(m) + i] = m.body[i]

LEMMA EncodeIs ==
    ASSUME NEW m \in Messages
    PROVE  Spelled(m, Encode(m))
<1> DEFINE a == Line(FirstText(m))
           b == IF m.connection = "" THEN <<>> ELSE Line(Connection(m.connection))
           c == IF m.length = Absent THEN <<>> ELSE Line(ContentLength(m.length))
           e == <<CR, LF>>
           ab == a \o b
           abc == ab \o c
           head == abc \o e
           w == head \o m.body
<1>0. /\ CR \in Tokens /\ LF \in Tokens /\ FirstText(m) \in Tokens
      /\ Connection(m.connection) \in Tokens
      /\ m.length # Absent => ContentLength(m.length) \in Tokens
      /\ m.body \in Seq(Tokens) /\ Len(m.body) \in Nat
  BY TextsAre
<1>1. Encode(m) = w
  BY DEF Encode, FirstText
<1>2. /\ ConnectionEnd(m) \in Nat /\ LengthEnd(m) \in Nat /\ HeadEnd(m) = LengthEnd(m) + 2
      /\ ConnectionEnd(m) = (IF m.connection = "" THEN 3 ELSE 6)
      /\ LengthEnd(m) = (IF m.length = Absent THEN ConnectionEnd(m) ELSE ConnectionEnd(m) + 3)
  BY DEF ConnectionEnd, LengthEnd, HeadEnd
<1>3. a \in Seq(Tokens) /\ Len(a) = 3 /\ LineThere(a, 0, FirstText(m))
  BY <1>0, LineIsThere DEF LineThere
<1>4. /\ b \in Seq(Tokens) /\ c \in Seq(Tokens) /\ e \in Seq(Tokens) /\ Len(e) = 2
      /\ e[1] = CR /\ e[2] = LF
  <2>1. /\ m.length # Absent => Line(ContentLength(m.length)) \in Seq(Tokens)
        /\ Line(Connection(m.connection)) \in Seq(Tokens) /\ <<>> \in Seq(Tokens)
    BY <1>0, LineIsThere
  <2>2. b \in Seq(Tokens) /\ c \in Seq(Tokens)
    BY <2>1
  <2>3. e \in Seq(Tokens) /\ Len(e) = 2 /\ e[1] = CR /\ e[2] = LF
    BY <1>0
  <2>4. QED BY <2>2, <2>3
<1> HIDE DEF a
<1>5. /\ ab \in Seq(Tokens) /\ Len(ab) = ConnectionEnd(m)
      /\ m.connection # "" => LineThere(ab, 3, Connection(m.connection))
  <2>1. CASE m.connection = ""
    <3>1. ab = a
      <4>1. b = <<>>
        BY <2>1
      <4> HIDE DEF b
      <4>2. a \o <<>> = a
        BY <1>3
      <4>3. QED BY <4>1, <4>2
    <3>2. QED BY <1>2, <1>3, <2>1, <3>1
  <2>2. CASE m.connection # ""
    <3>1. ab = a \o Line(Connection(m.connection))
      BY <2>2
    <3> HIDE DEF ab, b
    <3>2. /\ ab \in Seq(Tokens) /\ Len(ab) = Len(a) + 3
          /\ LineThere(ab, Len(a), Connection(m.connection))
      BY <1>0, <1>3, <3>1, LineBehind
    <3>3. ConnectionEnd(m) = 6 /\ Len(a) = 3
      BY <1>2, <1>3, <2>2
    <3>4. Len(a) + 3 = 6
      BY <3>3
    <3>5. Len(ab) = 6 /\ LineThere(ab, 3, Connection(m.connection))
      BY <3>2, <3>3, <3>4, Zenon
    <3>6. QED BY <3>2, <3>3, <3>5
  <2>3. QED BY <2>1, <2>2
<1>6. LineThere(ab, 0, FirstText(m))
  BY <1>3, <1>4, LineStays
<1> HIDE DEF b, ab
<1>7. /\ abc \in Seq(Tokens) /\ Len(abc) = LengthEnd(m)
      /\ m.length # Absent => LineThere(abc, ConnectionEnd(m), ContentLength(m.length))
  <2>1. CASE m.length = Absent
    <3>1. abc = ab
      <4>1. c = <<>>
        BY <2>1
      <4> HIDE DEF c
      <4>2. ab \o <<>> = ab
        <5>1. ab \in Seq(Tokens)
          BY <1>5
        <5>2. QED BY <5>1
      <4>3. QED BY <4>1, <4>2
    <3>2. QED BY <1>2, <1>5, <2>1, <3>1
  <2>2. CASE m.length # Absent
    <3>1. abc = ab \o Line(ContentLength(m.length))
      BY <2>2
    <3> HIDE DEF abc, c
    <3>2. /\ abc \in Seq(Tokens) /\ Len(abc) = Len(ab) + 3
          /\ LineThere(abc, Len(ab), ContentLength(m.length))
      BY <1>0, <1>5, <2>2, <3>1, LineBehind
    <3>3. QED BY <1>2, <1>5, <2>2, <3>2
  <2>3. QED BY <2>1, <2>2
<1>8. /\ LineThere(abc, 0, FirstText(m))
      /\ m.connection # "" => LineThere(abc, 3, Connection(m.connection))
  BY <1>4, <1>5, <1>6, LineStays
<1> HIDE DEF c, abc, e
<1>9. /\ head \in Seq(Tokens) /\ Len(head) = HeadEnd(m)
      /\ head[LengthEnd(m) + 1] = CR /\ head[LengthEnd(m) + 2] = LF
  <2>1. /\ head \in Seq(Tokens) /\ Len(head) = Len(abc) + Len(e)
        /\ \A i \in 1 .. Len(e) : head[Len(abc) + i] = e[i]
    <3>1. abc \in Seq(Tokens) /\ e \in Seq(Tokens)
      BY <1>4, <1>7
    <3>2. QED BY <3>1, ConcatFront
  <2>2. 1 \in 1 .. Len(e) /\ 2 \in 1 .. Len(e)
    BY <1>4
  <2>3. QED BY <1>2, <1>4, <1>7, <2>1, <2>2
<1>10. /\ LineThere(head, 0, FirstText(m))
       /\ m.connection # "" => LineThere(head, 3, Connection(m.connection))
       /\ m.length # Absent => LineThere(head, ConnectionEnd(m), ContentLength(m.length))
  BY <1>2, <1>4, <1>7, <1>8, LineStays
<1> HIDE DEF head
<1>11. /\ w \in Seq(Tokens) /\ Len(w) = HeadEnd(m) + Len(m.body)
       /\ \A i \in 1 .. HeadEnd(m) : w[i] = head[i]
       /\ \A i \in 1 .. Len(m.body) : w[HeadEnd(m) + i] = m.body[i]
  <2>1. /\ w \in Seq(Tokens) /\ Len(w) = Len(head) + Len(m.body)
        /\ \A i \in 1 .. Len(head) : w[i] = head[i]
        /\ \A i \in 1 .. Len(m.body) : w[Len(head) + i] = m.body[i]
    <3>1. head \in Seq(Tokens) /\ m.body \in Seq(Tokens)
      BY <1>0, <1>9
    <3>2. QED BY <3>1, ConcatFront
  <2>2. QED BY <1>9, <2>1
<1>12. w[LengthEnd(m) + 1] = CR /\ w[LengthEnd(m) + 2] = LF
  <2>1. LengthEnd(m) + 1 \in 1 .. HeadEnd(m) /\ LengthEnd(m) + 2 \in 1 .. HeadEnd(m)
    <3>1. \A l \in Nat : l + 1 \in 1 .. l + 2 /\ l + 2 \in 1 .. l + 2
      OBVIOUS
    <3>2. LengthEnd(m) \in Nat /\ HeadEnd(m) = LengthEnd(m) + 2
      BY <1>2
    <3>3. QED BY <3>1, <3>2
  <2>2. QED BY <1>9, <1>11, <2>1
<1>13. /\ LineThere(w, 0, FirstText(m))
       /\ m.connection # "" => LineThere(w, 3, Connection(m.connection))
       /\ m.length # Absent => LineThere(w, ConnectionEnd(m), ContentLength(m.length))
  BY <1>0, <1>2, <1>9, <1>10, LineStays
<1> HIDE DEF w
<1>14. QED BY <1>1, <1>11, <1>12, <1>13 DEF Spelled

(* The stream is the messages one after the other.                         *)
StreamIsMessages(p) ==
    /\ Encoded(p) \in Seq(Tokens) /\ EndIn(p, 0) = 0 /\ EndIn(p, Len(p)) = Len(Encoded(p))
    /\ \A k \in 0 .. Len(p) : EndIn(p, k) \in 0 .. Len(Encoded(p))
    /\ \A k \in 1 .. Len(p) :
         /\ EndIn(p, k) = EndIn(p, k - 1) + Len(Encode(p[k]))
         /\ \A j \in 1 .. Len(Encode(p[k])) : Encoded(p)[EndIn(p, k - 1) + j] = Encode(p[k])[j]

LEMMA StreamIs == ASSUME NEW p \in Seq(Messages) PROVE StreamIsMessages(p)
<1> DEFINE N == Len(p)
           ss == [i \in 1 .. N |-> Encode(p[i])]
<1>1. N \in Nat /\ \A i \in 1 .. N : p[i] \in Messages
  OBVIOUS
<1>2. \A i \in 1 .. N : Encode(p[i]) \in Seq(Tokens)
  BY <1>1, EncodeIs DEF Spelled
<1>3. ss \in Seq(Seq(Tokens)) /\ Len(ss) = N /\ \A i \in 1 .. N : ss[i] = Encode(p[i])
  BY <1>1, <1>2
<1>4. Encoded(p) = FlattenSeq(ss)
  BY DEF Encoded
<1> HIDE DEF ss
<1>5. PICK g : Joins(Tokens, ss, N, g)
  BY <1>3, JoinsExist
<1>6. Encoded(p) = g[N]
  BY <1>3, <1>4, <1>5, FlattenIs
<1>7. /\ \A k \in 0 .. N : g[k] \in Seq(Tokens) /\ Len(g[k]) \in Nat
      /\ g[0] = <<>> /\ \A k \in 1 .. N : g[k] = g[k - 1] \o ss[k]
  BY <1>5 DEF Joins
<1>8. \A k \in 0 .. N : Len(g[k]) <= Len(g[N]) /\ \A j \in 1 .. Len(g[k]) : g[N][j] = g[k][j]
  <2> SUFFICES ASSUME NEW k \in 0 .. N
               PROVE  Len(g[k]) <= Len(g[N]) /\ \A j \in 1 .. Len(g[k]) : g[N][j] = g[k][j]
    OBVIOUS
  <2>1. N = Len(ss) /\ ss \in Seq(Seq(Tokens))
    BY <1>3
  <2> HIDE DEF N
  <2>2. QED BY <1>5, <2>1, JoinsPrefix
<1>9. ASSUME NEW k \in 0 .. N PROVE EndIn(p, k) = Len(g[k])
  <2> DEFINE q == SubSeq(p, 1, k)
             qs == [i \in 1 .. Len(q) |-> Encode(q[i])]
             h == [i \in 0 .. k |-> g[i]]
  <2>1. /\ q \in Seq(Messages) /\ Len(q) = k /\ \A i \in 1 .. k : q[i] = p[i]
        /\ k \in Nat
    BY <1>1, RetrieveIs
  <2> HIDE DEF q
  <2>2. qs \in Seq(Seq(Tokens)) /\ Len(qs) = k /\ \A i \in 1 .. k : qs[i] = ss[i]
    BY <1>1, <1>2, <1>3, <2>1
  <2>3. Encoded(q) = FlattenSeq(qs)
    BY DEF Encoded
  <2> HIDE DEF qs
  <2>4. Joins(Tokens, qs, k, h)
    <3>1. \A i \in 0 .. k : i \in 0 .. N /\ h[i] = g[i]
      BY <2>1
    <3>2. \A i \in 1 .. k : i \in 1 .. N /\ i \in 0 .. k /\ i - 1 \in 0 .. k
      BY <2>1
    <3>3. 0 \in 0 .. k
      BY <2>1
    <3>4. h \in [0 .. k -> Seq(Tokens)]
      BY <1>7, <3>1
    <3> HIDE DEF h
    <3>5. QED BY <1>7, <2>2, <3>1, <3>2, <3>3, <3>4 DEF Joins
  <2>5. FlattenSeq(qs) = h[k] /\ h[k] = g[k]
    <3>1. h[k] = g[k]
      BY <2>1
    <3> HIDE DEF h
    <3>2. QED BY <2>2, <2>4, <3>1, FlattenIs
  <2>6. Min({k, N}) = k
    <3>1. {k, N} \subseteq Nat /\ {k, N} # {}
      BY <1>1, <2>1
    <3>2. Min({k, N}) \in {k, N} /\ Min({k, N}) <= k
      BY <3>1, MinIs
    <3>3. QED BY <1>1, <2>1, <3>2
  <2>7. EndIn(p, k) = Len(Encoded(SubSeq(p, 1, Min({k, N}))))
    BY DEF EndIn
  <2>8. QED BY <2>3, <2>5, <2>6, <2>7 DEF q
<1>10. N \in 0 .. N /\ 0 \in 0 .. N /\ \A k \in 1 .. N : k \in 0 .. N /\ k - 1 \in 0 .. N
  BY <1>1
<1>11. Encoded(p) \in Seq(Tokens) /\ EndIn(p, 0) = 0 /\ EndIn(p, N) = Len(Encoded(p))
  BY <1>6, <1>7, <1>9, <1>10
<1>12. \A k \in 0 .. N : EndIn(p, k) \in 0 .. Len(Encoded(p))
  BY <1>6, <1>7, <1>8, <1>9, <1>10
<1>13. ASSUME NEW k \in 1 .. N
       PROVE  /\ EndIn(p, k) = EndIn(p, k - 1) + Len(Encode(p[k]))
              /\ \A j \in 1 .. Len(Encode(p[k])) :
                    Encoded(p)[EndIn(p, k - 1) + j] = Encode(p[k])[j]
  <2>1. /\ g[k - 1] \in Seq(Tokens) /\ ss[k] \in Seq(Tokens) /\ g[k] = g[k - 1] \o ss[k]
        /\ ss[k] = Encode(p[k])
    BY <1>2, <1>3, <1>7, <1>10
  <2>2. /\ Len(g[k]) = Len(g[k - 1]) + Len(ss[k]) /\ Len(g[k - 1]) \in Nat /\ Len(ss[k]) \in Nat
        /\ \A j \in 1 .. Len(ss[k]) : g[k][Len(g[k - 1]) + j] = ss[k][j]
    <3> DEFINE a == g[k - 1]
               b == ss[k]
               c == g[k]
    <3>1. a \in Seq(Tokens) /\ b \in Seq(Tokens) /\ c = a \o b
      BY <2>1
    <3> HIDE DEF a, b, c
    <3>2. /\ Len(c) = Len(a) + Len(b) /\ Len(a) \in Nat /\ Len(b) \in Nat
          /\ \A j \in 1 .. Len(b) : c[Len(a) + j] = b[j]
      BY <3>1, JoinedIs
    <3>3. QED BY <3>2 DEF a, b, c
  <2>3. EndIn(p, k) = Len(g[k]) /\ EndIn(p, k - 1) = Len(g[k - 1])
    BY <1>9, <1>10
  <2>4. \A j \in 1 .. Len(ss[k]) : Len(g[k - 1]) + j \in 1 .. Len(g[k])
    <3>1. \A a, b, c \in Nat : c = a + b => \A j \in 1 .. b : a + j \in 1 .. c
      OBVIOUS
    <3>2. Len(g[k]) \in Nat
      BY <1>7, <1>10
    <3>3. QED BY <2>2, <3>1, <3>2
  <2>5. \A j \in 1 .. Len(g[k]) : g[N][j] = g[k][j]
    BY <1>8, <1>10
  <2>6. QED BY <1>6, <2>1, <2>2, <2>3, <2>4, <2>5
<1> HIDE DEF N
<1>14. QED BY <1>11, <1>12, <1>13 DEF StreamIsMessages, N

-----------------------------------------------------------------------------
(* Where the parser can stand in a message, and what it then holds.        *)
Part(m, state, connection, length, contentLength) ==
    [ state |-> state, method |-> m.method, path |-> m.path, connection |-> connection,
      length |-> length, contentLength |-> contentLength, body |-> <<>> ]

Stands(m, o, r) ==
    \/ o = 0 /\ r = Fresh
    \/ /\ m.method # "INVALID"
       /\ \/ o = 3 /\ r = Part(m, "HEADERS", "", Absent, 0)
          \/ o = ConnectionEnd(m) /\ r = Part(m, "HEADERS", m.connection, Absent, 0)
          \/ o = LengthEnd(m) /\ r = Part(m, "HEADERS", m.connection, m.length, 0)
          \/ /\ o = HeadEnd(m) /\ m.length \in Nat
             /\ r = Part(m, "BODY", m.connection, m.length, m.length)
          \/ o = Len(Encode(m)) /\ r.state = "FINISH" /\ Received(r) = m

\* The buffer holds what follows offset o of the units w, as far as they go.
Ahead(w, o, b) == \A i \in 1 .. Len(b) : o + i <= Len(w) => b[i] = w[o + i]

\* A line, or the blank line, that has arrived or not.
LEMMA LineArrives ==
    ASSUME NEW b \in Seq(Tokens), NEW w \in Seq(Tokens), NEW o \in Nat, NEW text, text # CR,
           LineThere(w, o, text), Ahead(w, o, b)
    PROVE  \/ FindCRLF(b) = 0
           \/ FindCRLF(b) = 2 /\ LineOf(b) = <<text>> /\ 3 \in 0 .. Len(b)
<1>1. /\ Len(b) \in Nat /\ Len(w) \in Nat /\ o + 3 <= Len(w)
      /\ w[o + 1] = text /\ w[o + 2] = CR /\ w[o + 3] = LF
  BY DEF LineThere
<1>2. /\ Len(b) >= 1 => b[1] = text
      /\ Len(b) >= 2 => b[2] = CR
      /\ Len(b) >= 3 => b[3] = LF
  BY <1>1 DEF Ahead
<1>3. ~PairAt(b, 1)
  BY <1>2 DEF PairAt
<1>4. CASE Len(b) < 3
  <2>1. \A k \in Nat : ~PairAt(b, k)
    BY <1>1, <1>3, <1>4 DEF PairAt
  <2>2. QED BY <2>1, FindCRLFIs
<1>5. CASE Len(b) >= 3
  <2>1. PairAt(b, 2) /\ \A k \in 1 .. 2 - 1 : ~PairAt(b, k)
    BY <1>1, <1>2, <1>3, <1>5 DEF PairAt
  <2>2. FindCRLF(b) = 2
    BY <2>1, FirstCRLF
  <2>3. SubSeq(b, 1, 1) = <<text>>
    <3>1. 1 \in 0 .. Len(b)
      BY <1>1, <1>5
    <3>2. /\ SubSeq(b, 1, 1) \in Seq(Tokens) /\ Len(SubSeq(b, 1, 1)) = 1
          /\ \A i \in 1 .. 1 : SubSeq(b, 1, 1)[i] = b[i]
      BY <3>1, RetrieveIs
    <3>3. SubSeq(b, 1, 1)[1] = text
      BY <1>2, <1>5, <3>2
    <3>4. \A q \in Seq(Tokens) : Len(q) = 1 => q = <<q[1]>>
      OBVIOUS
    <3>5. QED BY <3>2, <3>3, <3>4
  <2>4. LineOf(b) = SubSeq(b, 1, 1)
    BY <2>2 DEF LineOf
  <2>5. QED BY <1>1, <1>5, <2>2, <2>3, <2>4
<1>6. QED BY <1>1, <1>4, <1>5

LEMMA BlankArrives ==
    ASSUME NEW b \in Seq(Tokens), NEW w \in Seq(Tokens), NEW o \in Nat, o + 2 <= Len(w),
           w[o + 1] = CR, w[o + 2] = LF, Ahead(w, o, b)
    PROVE  FindCRLF(b) = 0 \/ (FindCRLF(b) = 1 /\ 2 \in 0 .. Len(b))
<1>1. Len(b) \in Nat /\ Len(w) \in Nat
  OBVIOUS
<1>2. (Len(b) >= 1 => b[1] = CR) /\ (Len(b) >= 2 => b[2] = LF)
  BY <1>1 DEF Ahead
<1>3. CASE Len(b) < 2
  <2>1. \A k \in Nat : ~PairAt(b, k)
    BY <1>1, <1>3 DEF PairAt
  <2>2. QED BY <2>1, FindCRLFIs
<1>4. CASE Len(b) >= 2
  <2>1. PairAt(b, 1) /\ \A k \in 1 .. 1 - 1 : ~PairAt(b, k)
    BY <1>1, <1>2, <1>4 DEF PairAt
  <2>2. QED BY <1>1, <1>4, <2>1, FirstCRLF
<1>5. QED BY <1>1, <1>3, <1>4

\* What a line of one text does to a request.
LEMMA PartState ==
    ASSUME NEW m, NEW s, NEW t, NEW c, NEW l, NEW n
    PROVE  [Part(m, s, c, l, n) EXCEPT !.state = t] = Part(m, t, c, l, n)
<1>1. QED BY DEF Part

\* The request that a message becomes.
Whole(m, state, b) ==
    [ state |-> state, method |-> m.method, path |-> m.path, connection |-> m.connection,
      length |-> m.length, contentLength |-> m.length, body |-> b ]

LEMMA WholeState ==
    ASSUME NEW m, NEW s, NEW t, NEW b
    PROVE  [Whole(m, s, b) EXCEPT !.state = t] = Whole(m, t, b)
<1>1. QED BY DEF Whole

LEMMA RequestLineOne ==
    ASSUME NEW m \in Messages
    PROVE  /\ m.method = "INVALID" =>
                /\ ~IsRequestLine(<<FirstText(m)>>)
                /\ ParseRequestLine(Fresh, <<FirstText(m)>>) = Fresh
           /\ m.method # "INVALID" =>
                /\ IsRequestLine(<<FirstText(m)>>)
                /\ [ParseRequestLine(Fresh, <<FirstText(m)>>) EXCEPT !.state = "HEADERS"]
                     = Part(m, "HEADERS", "", Absent, 0)
<1> DEFINE line == <<FirstText(m)>>
<1>1. Len(line) = 1 /\ line[1] = FirstText(m) /\ line # <<>>
  OBVIOUS
<1> HIDE DEF line
<1>2. CASE m.method = "INVALID"
  <2>1. line[1].t = "byte"
    BY <1>1, <1>2 DEF FirstText, Byte
  <2>2. ~HasMethod(line)
    BY <2>1 DEF HasMethod
  <2>3. ~IsRequestLine(line)
    BY <2>2 DEF IsRequestLine
  <2>4. ParseRequestLine(Fresh, line) = [Fresh EXCEPT !.method = "INVALID", !.path = Fresh.path]
    BY <2>2, <2>3 DEF ParseRequestLine
  <2>5. QED BY <1>2, <2>3, <2>4 DEF Fresh, line
<1>3. CASE m.method # "INVALID"
  <2>1. line[1].t = "req" /\ line[1].method = m.method /\ line[1].path = m.path
    BY <1>1, <1>3 DEF FirstText, ReqLine
  <2>2. HasMethod(line)
    BY <1>1, <2>1 DEF HasMethod
  <2>3. Spaces(line) = 2
    <3>1. {i \in 1 .. Len(line) : line[i].t = "req"} = {1}
      BY <1>1, <2>1
    <3>2. {i \in 1 .. Len(line) : line[i].t = "noversion"} = {}
      BY <1>1, <2>1
    <3>3. Cardinality({1}) = 1 /\ Cardinality({}) = 0
      BY FS_Singleton, FS_EmptySet
    <3>4. Spaces(line) = 2 * Cardinality({1}) + Cardinality({})
      BY <3>1, <3>2 DEF Spaces
    <3>5. QED BY <3>3, <3>4
  <2>4. IsRequestLine(line)
    BY <2>2, <2>3 DEF IsRequestLine
  <2>5. ParseRequestLine(Fresh, line) = [Fresh EXCEPT !.method = m.method, !.path = m.path]
    BY <2>1, <2>2, <2>4 DEF ParseRequestLine
  <2>6. [ParseRequestLine(Fresh, line) EXCEPT !.state = "HEADERS"]
          = Part(m, "HEADERS", "", Absent, 0)
    <3>1. ParseRequestLine(Fresh, line) = Part(m, "REQUEST_LINE", "", Absent, 0)
      BY <2>5 DEF Fresh, Part
    <3>2. [Part(m, "REQUEST_LINE", "", Absent, 0) EXCEPT !.state = "HEADERS"]
            = Part(m, "HEADERS", "", Absent, 0)
      <4> DEFINE none == ""
      <4> HIDE DEF none
      <4>1. [Part(m, "REQUEST_LINE", none, Absent, 0) EXCEPT !.state = "HEADERS"]
              = Part(m, "HEADERS", none, Absent, 0)
        BY PartState
      <4>2. QED BY <4>1 DEF none
    <3>3. QED BY <3>1, <3>2, Zenon
  <2>7. QED BY <1>3, <2>4, <2>6 DEF line
<1>4. QED BY <1>2, <1>3

LEMMA HeaderOne ==
    ASSUME NEW m, NEW v, NEW c
    PROVE  /\ IsHeader(<<Connection(v)>>) /\ IsHeader(<<ContentLength(v)>>)
           /\ ParseHeader(Part(m, "HEADERS", c, Absent, 0), <<Connection(v)>>)
                = Part(m, "HEADERS", v, Absent, 0)
           /\ ParseHeader(Part(m, "HEADERS", c, Absent, 0), <<ContentLength(v)>>)
                = Part(m, "HEADERS", c, v, 0)
<1>1. /\ Connection(v).t = "connection" /\ Connection(v).value = v
      /\ ContentLength(v).t = "length" /\ ContentLength(v).value = v
  BY DEF Connection, ContentLength
<1>2. \A x : Len(<<x>>) = 1 /\ <<x>>[1] = x
  OBVIOUS
<1>3. IsHeader(<<Connection(v)>>) /\ IsHeader(<<ContentLength(v)>>)
  BY <1>1, <1>2 DEF IsHeader
<1>4. ParseHeader(Part(m, "HEADERS", c, Absent, 0), <<Connection(v)>>)
        = [Part(m, "HEADERS", c, Absent, 0) EXCEPT !.connection = v]
  BY <1>1, <1>2 DEF ParseHeader
<1>5. ParseHeader(Part(m, "HEADERS", c, Absent, 0), <<ContentLength(v)>>)
        = [Part(m, "HEADERS", c, Absent, 0) EXCEPT !.length = v]
  BY <1>1, <1>2 DEF ParseHeader
<1>6. QED BY <1>3, <1>4, <1>5 DEF Part

-----------------------------------------------------------------------------
(* One iteration of the parser in a message whose length is true takes it  *)
(* from one place of the message to another.                               *)
Advances(m, o, b, t) ==
    \/ t.ret = "throw"
    \/ \E d \in 0 .. Len(b) : /\ t.buf = Retrieve(b, d) /\ o + d <= Len(Encode(m))
                             /\ Stands(m, o + d, t.req)

LEMMA RetrieveNone == ASSUME NEW T, NEW b \in Seq(T) PROVE Retrieve(b, 0) = b
<1>1. 0 \in 0 .. Len(b)
  OBVIOUS
<1>2. /\ Retrieve(b, 0) \in Seq(T) /\ Len(Retrieve(b, 0)) = Len(b) - 0
      /\ \A i \in 1 .. Len(b) - 0 : Retrieve(b, 0)[i] = b[0 + i]
  BY <1>1, RetrieveIs
<1>3. \A x \in Seq(T) : Len(x) = Len(b) /\ (\A i \in 1 .. Len(b) : x[i] = b[i]) => x = b
  BY SeqEqual
<1>4. QED BY <1>2, <1>3

\* The lines of the head end at places of the message.
LEMMA Places ==
    ASSUME NEW m \in Messages
    PROVE  /\ ConnectionEnd(m) \in {3, 6} /\ LengthEnd(m) \in {3, 6, 9}
           /\ HeadEnd(m) = LengthEnd(m) + 2
           /\ m.connection = "" => ConnectionEnd(m) = 3
           /\ m.connection # "" => ConnectionEnd(m) = 6
           /\ m.length = Absent => LengthEnd(m) = ConnectionEnd(m)
           /\ m.length # Absent => LengthEnd(m) = ConnectionEnd(m) + 3
           /\ Len(m.body) \in Nat /\ Len(Encode(m)) = HeadEnd(m) + Len(m.body)
           /\ Encode(m) \in Seq(Tokens) /\ Len(Encode(m)) \in Nat
<1>1. Len(m.body) \in Nat
  BY TextsAre
<1>2. Encode(m) \in Seq(Tokens) /\ Len(Encode(m)) = HeadEnd(m) + Len(m.body)
  BY EncodeIs DEF Spelled
<1>3. Len(Encode(m)) \in Nat
  <2>1. \A w \in Seq(Tokens) : Len(w) \in Nat
    OBVIOUS
  <2>2. QED BY <1>2, <2>1
<1>4. /\ ConnectionEnd(m) \in {3, 6}
      /\ m.connection = "" => ConnectionEnd(m) = 3
      /\ m.connection # "" => ConnectionEnd(m) = 6
  BY DEF ConnectionEnd
<1>5. /\ m.length = Absent => LengthEnd(m) = ConnectionEnd(m)
      /\ m.length # Absent => LengthEnd(m) = ConnectionEnd(m) + 3
  BY DEF LengthEnd
<1>6. LengthEnd(m) \in {3, 6, 9}
  <2>1. \A c \in {3, 6} : c \in {3, 6, 9} /\ c + 3 \in {3, 6, 9}
    OBVIOUS
  <2>2. QED BY <1>4, <1>5, <2>1
<1>7. QED BY <1>1, <1>2, <1>3, <1>4, <1>5, <1>6 DEF HeadEnd

LEMMA Stays ==
    ASSUME NEW m, NEW o \in Nat, NEW r, NEW b \in Seq(Tokens), Stands(m, o, r),
           o <= Len(Encode(m)), NEW t, t = Left(r, b, "false")
    PROVE  Advances(m, o, b, t)
<1>1. t.buf = b /\ t.req = r /\ 0 \in 0 .. Len(b) /\ o + 0 = o
  BY DEF Left
<1>2. Retrieve(b, 0) = b
  BY RetrieveNone
<1>3. QED BY <1>1, <1>2 DEF Advances

LEMMA Moves ==
    ASSUME NEW m, NEW o \in Nat, NEW d, NEW r, NEW b, d \in 0 .. Len(b),
           o + d <= Len(Encode(m)), Stands(m, o + d, r),
           NEW t, NEW ret, t = Left(r, Retrieve(b, d), ret)
    PROVE  Advances(m, o, b, t)
<1>1. t.buf = Retrieve(b, d) /\ t.req = r
  BY DEF Left
<1>2. QED BY <1>1 DEF Advances

LEMMA RequestLineStands ==
    ASSUME NEW m \in Messages, NEW b \in Seq(Tokens), Ahead(Encode(m), 0, b)
    PROVE  Advances(m, 0, b, ParseStep(At(Fresh, b)))
<1> DEFINE w == Encode(m)
           line == <<FirstText(m)>>
           t == ParseStep(At(Fresh, b))
<1>1. /\ LineThere(w, 0, FirstText(m)) /\ FirstText(m) # CR /\ w \in Seq(Tokens)
      /\ 0 <= Len(w) /\ 0 + 3 <= Len(w) /\ Len(w) \in Nat
  <2>1. LineThere(w, 0, FirstText(m)) /\ FirstText(m) # CR
    BY EncodeIs, TextsAre DEF Spelled
  <2>2. w \in Seq(Tokens) /\ Len(w) \in Nat
    BY Places
  <2>3. QED BY <2>1, <2>2 DEF LineThere
<1>2. Fresh.state = "REQUEST_LINE" /\ Stands(m, 0, Fresh)
  BY DEF Fresh, Stands
<1>3. CASE FindCRLF(b) = 0
  <2>1. t = Left(Fresh, b, "false")
    BY <1>2, <1>3, OnRequestLineIs
  <2>2. QED BY <1>1, <1>2, <2>1, Stays
<1>4. CASE FindCRLF(b) = 2 /\ LineOf(b) = line /\ 3 \in 0 .. Len(b)
  <2>0. FindCRLF(b) > 0 /\ FindCRLF(b) > 1 /\ FindCRLF(b) + 1 = 3
    BY <1>4
  <2>1. CASE m.method = "INVALID"
    <3>1. ~IsRequestLine(line) /\ ParseRequestLine(Fresh, line) = Fresh
      BY <2>1, RequestLineOne
    <3>2. t = Left(ParseRequestLine(Fresh, LineOf(b)), b, "false")
      <4>1. ~IsRequestLine(LineOf(b))
        BY <1>4, <3>1, Zenon
      <4>2. QED BY <1>2, <2>0, <4>1, OnRequestLineIs
    <3>3. t = Left(Fresh, b, "false")
      BY <1>4, <3>1, <3>2
    <3>4. QED BY <1>1, <1>2, <3>3, Stays
  <2>2. CASE m.method # "INVALID"
    <3>1. /\ IsRequestLine(line)
          /\ [ParseRequestLine(Fresh, line) EXCEPT !.state = "HEADERS"]
               = Part(m, "HEADERS", "", Absent, 0)
      BY <2>2, RequestLineOne
    <3>2. t = Left([ParseRequestLine(Fresh, LineOf(b)) EXCEPT !.state = "HEADERS"],
                   Retrieve(b, FindCRLF(b) + 1), "loop")
      <4>1. IsRequestLine(LineOf(b))
        BY <1>4, <3>1, Zenon
      <4>2. QED BY <1>2, <2>0, <4>1, OnRequestLineIs
    <3>3. t = Left(Part(m, "HEADERS", "", Absent, 0), Retrieve(b, 3), "loop")
      BY <1>4, <2>0, <3>1, <3>2, Zenon
    <3>4. Stands(m, 3, Part(m, "HEADERS", "", Absent, 0)) /\ 0 + 3 = 3
      BY <2>2 DEF Stands
    <3>5. QED BY <1>1, <1>4, <3>3, <3>4, Moves
  <2>3. QED BY <2>1, <2>2
<1>5. QED BY <1>1, <1>3, <1>4, LineArrives

\* A header line.
LEMMA HeaderStands ==
    ASSUME NEW m \in Messages, NEW b \in Seq(Tokens), NEW o \in Nat, NEW text, text # CR,
           LineThere(Encode(m), o, text), Ahead(Encode(m), o, b), IsHeader(<<text>>),
           NEW r, r.state = "HEADERS", Stands(m, o, r),
           Stands(m, o + 3, ParseHeader(r, <<text>>))
    PROVE  Advances(m, o, b, ParseStep(At(r, b)))
<1> DEFINE w == Encode(m)
           line == <<text>>
           t == ParseStep(At(r, b))
<1>1. w \in Seq(Tokens) /\ Len(w) \in Nat /\ o + 3 <= Len(w)
  BY Places DEF LineThere
<1>2. CASE FindCRLF(b) = 0
  <2>1. t = Left(r, b, "false")
    BY <1>2, OnHeadersIs
  <2>2. QED BY <1>1, <2>1, Stays
<1>3. CASE FindCRLF(b) = 2 /\ LineOf(b) = line /\ 3 \in 0 .. Len(b)
  <2>0. FindCRLF(b) > 1 /\ FindCRLF(b) + 1 = 3 /\ IsHeader(LineOf(b))
    BY <1>3
  <2>1. t = Left(ParseHeader(r, LineOf(b)), Retrieve(b, FindCRLF(b) + 1), "loop")
    BY <2>0, OnHeadersIs
  <2>2. t = Left(ParseHeader(r, line), Retrieve(b, 3), "loop")
    BY <1>3, <2>0, <2>1, Zenon
  <2>3. QED BY <1>1, <1>3, <2>2, Moves
<1>4. QED BY <1>1, <1>2, <1>3, LineArrives

\* The blank line.
LEMMA BlankLineStands ==
    ASSUME NEW m \in Messages, LengthIsTrue(m), m.method # "INVALID", NEW b \in Seq(Tokens),
           Ahead(Encode(m), LengthEnd(m), b),
           NEW r, r = Part(m, "HEADERS", m.connection, m.length, 0)
    PROVE  Advances(m, LengthEnd(m), b, ParseStep(At(r, b)))
<1> DEFINE w == Encode(m)
           o == LengthEnd(m)
           t == ParseStep(At(r, b))
<1>1. /\ w \in Seq(Tokens) /\ Len(w) \in Nat /\ o \in Nat /\ o + 2 <= Len(w)
      /\ w[o + 1] = CR /\ w[o + 2] = LF /\ o + 2 = HeadEnd(m)
      /\ Len(w) = HeadEnd(m) + Len(m.body) /\ Len(m.body) \in Nat
  <2>1. w[o + 1] = CR /\ w[o + 2] = LF
    BY EncodeIs DEF Spelled
  <2>2. /\ o \in {3, 6, 9} /\ HeadEnd(m) = o + 2 /\ Len(m.body) \in Nat
        /\ w \in Seq(Tokens) /\ Len(w) \in Nat /\ Len(w) = HeadEnd(m) + Len(m.body)
    BY Places
  <2> HIDE DEF o, w
  <2>3. o \in Nat /\ o + 2 <= Len(w)
    <3>1. \A k, x, y, z \in Nat : k = x + 2 /\ z = k + y => x + 2 <= z
      OBVIOUS
    <3>2. o \in Nat /\ HeadEnd(m) \in Nat
      BY <2>2
    <3>3. QED BY <2>2, <3>1, <3>2
  <2>4. QED BY <2>1, <2>2, <2>3
<1>2. r.state = "HEADERS" /\ r.length = m.length
  BY DEF Part
<1>3. Stands(m, o, r)
  BY DEF Stands
<1>4. m.length \in Nat \cup {Absent, NotANumber}
  BY DEF Messages
<1> HIDE DEF o
<1>5. CASE FindCRLF(b) = 0
  <2>1. t = Left(r, b, "false")
    BY <1>2, <1>5, OnHeadersIs
  <2>2. o <= Len(w)
    BY <1>1
  <2>3. QED BY <1>1, <1>3, <2>1, <2>2, Stays DEF o
<1>6. CASE FindCRLF(b) = 1 /\ 2 \in 0 .. Len(b)
  <2>1. CASE m.length = Absent
    <3>1. t = Left([r EXCEPT !.state = "FINISH"], Retrieve(b, 2), "true")
      BY <1>2, <1>6, <2>1, OnHeadersIs
    <3>2. [r EXCEPT !.state = "FINISH"] = Part(m, "FINISH", m.connection, m.length, 0)
      BY PartState
    <3>3. Stands(m, o + 2, Part(m, "FINISH", m.connection, m.length, 0))
      <4>1. Absent \notin Nat
        BY DEF Absent
      <4>2. Len(m.body) = 0
        BY <2>1, <4>1 DEF LengthIsTrue
      <4>3. o + 2 = Len(w)
        BY <1>1, <4>2
      <4>4. m = [ method |-> m.method, path |-> m.path, connection |-> m.connection,
                  length |-> m.length, body |-> m.body ]
        BY DEF Messages
      <4>5. m.body = <<>>
        <5>1. m.body \in Seq(Tokens)
          BY TextsAre
        <5>2. QED BY <4>2, <5>1
      <4>6. Received(Part(m, "FINISH", m.connection, m.length, 0))
              = [ method |-> m.method, path |-> m.path, connection |-> m.connection,
                  length |-> m.length, body |-> <<>> ]
        BY DEF Received, Part
      <4>7. Part(m, "FINISH", m.connection, m.length, 0).state = "FINISH"
        BY DEF Part
      <4>8. Received(Part(m, "FINISH", m.connection, m.length, 0)) = m
        BY <4>4, <4>5, <4>6, Zenon
      <4>9. QED BY <4>3, <4>7, <4>8 DEF Stands
    <3>4. t = Left(Part(m, "FINISH", m.connection, m.length, 0), Retrieve(b, 2), "true")
      BY <3>1, <3>2, Zenon
    <3>5. QED BY <1>1, <1>6, <3>3, <3>4, Moves DEF o
  <2>2. CASE m.length = NotANumber
    <3>1. t = Left(r, Retrieve(b, 2), "throw")
      BY <1>2, <1>6, <2>2, OnHeadersIs DEF Absent, NotANumber
    <3>2. t.ret = "throw"
      BY <3>1 DEF Left
    <3>3. QED BY <3>2 DEF Advances, o
  <2>3. CASE m.length \in Nat
    <3>1. r.length \notin {Absent, NotANumber}
      BY <1>2, <2>3 DEF Absent, NotANumber
    <3>2. t = Left([r EXCEPT !.contentLength = r.length, !.state = "BODY"],
                   Retrieve(b, 2), "loop")
      BY <1>2, <1>6, <3>1, OnHeadersIs
    <3>3. [r EXCEPT !.contentLength = r.length, !.state = "BODY"]
            = Part(m, "BODY", m.connection, m.length, m.length)
      <4> DEFINE k == m.length
                 state == "BODY"
      <4> HIDE DEF state
      <4>1. [r EXCEPT !.contentLength = k] = Part(m, "HEADERS", m.connection, k, k)
        BY DEF Part
      <4>2. [r EXCEPT !.contentLength = k, !.state = state]
              = [[r EXCEPT !.contentLength = k] EXCEPT !.state = state]
        BY DEF Part
      <4>3. [Part(m, "HEADERS", m.connection, k, k) EXCEPT !.state = state]
              = Part(m, state, m.connection, k, k)
        BY PartState
      <4>4. QED BY <1>2, <4>1, <4>2, <4>3, Zenon DEF state
    <3>4. t = Left(Part(m, "BODY", m.connection, m.length, m.length), Retrieve(b, 2), "loop")
      BY <3>2, <3>3, Zenon
    <3>5. Stands(m, o + 2, Part(m, "BODY", m.connection, m.length, m.length))
      BY <1>1, <2>3 DEF Stands
    <3>6. QED BY <1>1, <1>6, <3>4, <3>5, Moves DEF o
  <2>4. QED BY <1>4, <2>1, <2>2, <2>3
<1>7. Ahead(w, o, b)
  BY DEF o
<1>8. QED BY <1>1, <1>5, <1>6, <1>7, BlankArrives

\* The body.
LEMMA BodyStands ==
    ASSUME NEW m \in Messages, LengthIsTrue(m), m.method # "INVALID", m.length \in Nat,
           NEW b \in Seq(Tokens), Ahead(Encode(m), HeadEnd(m), b),
           NEW r, r = Part(m, "BODY", m.connection, m.length, m.length)
    PROVE  Advances(m, HeadEnd(m), b, ParseStep(At(r, b)))
<1> DEFINE w == Encode(m)
           o == HeadEnd(m)
           n == m.length
           t == ParseStep(At(r, b))
<1>1. /\ w \in Seq(Tokens) /\ Len(w) \in Nat /\ o \in Nat /\ Len(w) = o + Len(m.body)
      /\ \A i \in 1 .. Len(m.body) : w[o + i] = m.body[i]
  <2>1. \A i \in 1 .. Len(m.body) : w[o + i] = m.body[i]
    BY EncodeIs DEF Spelled
  <2>2. /\ LengthEnd(m) \in {3, 6, 9} /\ o = LengthEnd(m) + 2
        /\ w \in Seq(Tokens) /\ Len(w) \in Nat /\ Len(w) = o + Len(m.body)
    BY Places
  <2> HIDE DEF o, w
  <2>3. o \in Nat
    BY <2>2
  <2>4. QED BY <2>1, <2>2, <2>3
<1>2. r.state = "BODY" /\ r.contentLength = n /\ r.connection = m.connection
  BY DEF Part
<1>3. Stands(m, o, r)
  BY DEF Stands
<1>4. Len(m.body) = n /\ n \in Nat /\ m.body \in Seq(Tokens)
  BY TextsAre DEF LengthIsTrue
<1> HIDE DEF o, n, w
<1>5. CASE ~(Len(b) >= n)
  <2>1. t = Left(r, b, "false")
    BY <1>2, <1>5, OnBodyIs
  <2>2. o <= Len(w)
    BY <1>1, <1>4
  <2>3. QED BY <1>1, <1>3, <2>1, <2>2, Stays DEF o, w
<1>6. CASE Len(b) >= n
  <2>1. t = Left([r EXCEPT !.body = SubSeq(b, 1, n), !.state = "FINISH"], Retrieve(b, n), "true")
    <3>1. n = r.contentLength /\ r.state = "BODY"
      BY <1>2
    <3>2. Len(b) >= r.contentLength
      BY <1>6, <3>1
    <3>3. t = Left([r EXCEPT !.body = SubSeq(b, 1, r.contentLength), !.state = "FINISH"],
                   Retrieve(b, r.contentLength), "true")
      BY <3>1, <3>2, OnBodyTakes, Zenon
    <3>4. QED BY <3>1, <3>3, Zenon
  <2>2. n \in 0 .. Len(b)
    BY <1>4, <1>6
  <2>3. SubSeq(b, 1, n) = m.body
    <3>1. /\ SubSeq(b, 1, n) \in Seq(Tokens) /\ Len(SubSeq(b, 1, n)) = n
          /\ \A i \in 1 .. n : SubSeq(b, 1, n)[i] = b[i]
      BY <2>2, RetrieveIs
    <3>2. \A i \in 1 .. n : b[i] = m.body[i]
      <4>1. \A i \in 1 .. n : i \in 1 .. Len(b) /\ o + i <= Len(w)
        BY <1>1, <1>4, <2>2
      <4>2. Ahead(w, o, b)
        BY DEF w, o
      <4>3. QED BY <1>1, <1>4, <4>1, <4>2 DEF Ahead
    <3> DEFINE q == SubSeq(b, 1, n)
    <3> HIDE DEF q
    <3>3. q \in Seq(Tokens) /\ Len(q) = Len(m.body) /\ \A i \in 1 .. Len(q) : q[i] = m.body[i]
      BY <1>4, <3>1, <3>2 DEF q
    <3>4. q = m.body
      BY <1>4, <3>3, SeqEqual
    <3>5. QED BY <3>4 DEF q
  <2> DEFINE e == Whole(m, "FINISH", m.body)
  <2>4. [r EXCEPT !.body = m.body, !.state = "FINISH"] = e
    <3> DEFINE state == "FINISH"
    <3> HIDE DEF state
    <3>1. [r EXCEPT !.body = m.body] = Whole(m, "BODY", m.body)
      BY DEF Part, Whole
    <3>2. [r EXCEPT !.body = m.body, !.state = state]
            = [[r EXCEPT !.body = m.body] EXCEPT !.state = state]
      BY DEF Part
    <3>3. [Whole(m, "BODY", m.body) EXCEPT !.state = state] = Whole(m, state, m.body)
      BY WholeState
    <3>4. QED BY <3>1, <3>2, <3>3, Zenon DEF state
  <2>5. t = Left(e, Retrieve(b, n), "true")
    BY <2>1, <2>3, <2>4, Zenon
  <2>6. Stands(m, o + n, e) /\ o + n <= Len(w)
    <3>1. m = [ method |-> m.method, path |-> m.path, connection |-> m.connection,
                length |-> m.length, body |-> m.body ]
      BY DEF Messages
    <3>2. Received(e) = [ method |-> m.method, path |-> m.path, connection |-> m.connection,
                          length |-> m.length, body |-> m.body ]
      BY DEF Received, Whole
    <3>3. Received(e) = m /\ e.state = "FINISH"
      BY <3>1, <3>2, Zenon DEF Whole
    <3>4. o + n = Len(w) /\ o + n <= Len(w)
      BY <1>1, <1>4
    <3> HIDE DEF e
    <3>5. QED BY <3>3, <3>4 DEF Stands, w
  <2> HIDE DEF e
  <2>7. QED BY <1>1, <2>2, <2>5, <2>6, Moves DEF o, w
<1>7. QED BY <1>4, <1>5, <1>6

\* All places together.
LEMMA StepStands ==
    ASSUME NEW m \in Messages, LengthIsTrue(m), NEW b \in Seq(Tokens), NEW o \in Nat,
           Ahead(Encode(m), o, b), NEW r, r.state # "FINISH", Stands(m, o, r)
    PROVE  Advances(m, o, b, ParseStep(At(r, b)))
<1>1. CASE o = 0 /\ r = Fresh
  BY <1>1, RequestLineStands
<1> DEFINE w == Encode(m)
           P(c, l) == Part(m, "HEADERS", c, l, 0)
<1>2. ASSUME m.method # "INVALID", o = LengthEnd(m), r = P(m.connection, m.length)
      PROVE  Advances(m, o, b, ParseStep(At(r, b)))
  BY <1>2, BlankLineStands
<1>3. ASSUME m.method # "INVALID", o = ConnectionEnd(m), r = P(m.connection, Absent)
      PROVE  Advances(m, o, b, ParseStep(At(r, b)))
  <2>1. CASE m.length = Absent
    BY <1>2, <1>3, <2>1, Places
  <2>2. CASE m.length # Absent
    <3> DEFINE text == ContentLength(m.length)
    <3>1. /\ LineThere(w, o, text) /\ text # CR /\ IsHeader(<<text>>)
          /\ ParseHeader(r, <<text>>) = P(m.connection, m.length)
      <4>1. LineThere(w, o, text)
        BY <1>3, <2>2, EncodeIs DEF Spelled
      <4>2. ParseHeader(P(m.connection, Absent), <<text>>) = P(m.connection, m.length)
        BY HeaderOne
      <4>3. text # CR /\ IsHeader(<<text>>)
        BY TextsAre, HeaderOne
      <4>4. QED BY <1>3, <4>1, <4>2, <4>3
    <3>2. Stands(m, o + 3, P(m.connection, m.length))
      <4>1. o + 3 = LengthEnd(m)
        BY <1>3, <2>2, Places
      <4>2. QED BY <1>3, <4>1 DEF Stands
    <3>3. r.state = "HEADERS"
      BY <1>3 DEF Part
    <3> HIDE DEF text, P
    <3>4. QED BY <3>1, <3>2, <3>3, HeaderStands
  <2>3. QED BY <2>1, <2>2
<1>4. ASSUME m.method # "INVALID", o = 3, r = P("", Absent)
      PROVE  Advances(m, o, b, ParseStep(At(r, b)))
  <2>1. CASE m.connection = ""
    BY <1>3, <1>4, <2>1, Places
  <2>2. CASE m.connection # ""
    <3> DEFINE text == Connection(m.connection)
    <3>1. /\ LineThere(w, o, text) /\ text # CR /\ IsHeader(<<text>>)
          /\ ParseHeader(r, <<text>>) = P(m.connection, Absent)
      <4>1. LineThere(w, o, text)
        BY <1>4, <2>2, EncodeIs DEF Spelled
      <4>2. ParseHeader(P("", Absent), <<text>>) = P(m.connection, Absent)
        BY HeaderOne
      <4>3. text # CR /\ IsHeader(<<text>>)
        BY TextsAre, HeaderOne
      <4>4. QED BY <1>4, <4>1, <4>2, <4>3
    <3>2. Stands(m, o + 3, P(m.connection, Absent))
      <4>1. o + 3 = ConnectionEnd(m)
        <5>1. ConnectionEnd(m) = 6
          BY <2>2, Places
        <5>2. o = 3
          BY <1>4, Zenon
        <5>3. QED BY <5>1, <5>2
      <4>2. QED BY <1>4, <4>1 DEF Stands
    <3>3. r.state = "HEADERS"
      BY <1>4 DEF Part
    <3> HIDE DEF text, P
    <3>4. QED BY <3>1, <3>2, <3>3, HeaderStands
  <2>3. QED BY <2>1, <2>2
<1>5. CASE /\ m.method # "INVALID" /\ o = HeadEnd(m) /\ m.length \in Nat
           /\ r = Part(m, "BODY", m.connection, m.length, m.length)
  BY <1>5, BodyStands
<1>6. QED BY <1>1, <1>2, <1>3, <1>4, <1>5 DEF Stands

-----------------------------------------------------------------------------
(* The parser in the stream of a client.  The units b are what the stream  *)
(* has from position c on; the request r is what the parser makes of the   *)
(* units before c, the first k messages having been taken off.             *)
Holds(p, b, c) ==
    c + Len(b) <= Len(Encoded(p)) /\ \A i \in 1 .. Len(b) : b[i] = Encoded(p)[c + i]

Expect(p, k, c, r) ==
    \/ k = Len(p) /\ c = EndIn(p, k) /\ r = Fresh
    \/ /\ k < Len(p)
       /\ \E o \in 0 .. Len(Encode(p[k + 1])) :
             c = EndIn(p, k) + o /\ Stands(p[k + 1], o, r)

TruePlan(p) == p \in Seq(Messages) /\ \A i \in 1 .. Len(p) : LengthIsTrue(p[i])

LEMMA WholeRequest ==
    ASSUME NEW p, TruePlan(p), NEW k \in 0 .. Len(p), NEW c, NEW r, r.state = "FINISH",
           Expect(p, k, c, r)
    PROVE  k < Len(p) /\ Received(r) = p[k + 1] /\ c = EndIn(p, k + 1)
<1>1. Fresh.state # "FINISH" /\ \A m, a, l, n : Part(m, "HEADERS", a, l, n).state # "FINISH"
  BY DEF Fresh, Part
<1>2. \A m, a, l, n : Part(m, "BODY", a, l, n).state # "FINISH"
  BY DEF Part
<1>3. k < Len(p)
  BY <1>1 DEF Expect
<1>4. PICK o \in 0 .. Len(Encode(p[k + 1])) : c = EndIn(p, k) + o /\ Stands(p[k + 1], o, r)
  BY <1>3 DEF Expect
<1>5. o = Len(Encode(p[k + 1])) /\ Received(r) = p[k + 1]
  BY <1>1, <1>2, <1>4 DEF Stands
<1>6. EndIn(p, k + 1) = EndIn(p, k + 1 - 1) + Len(Encode(p[k + 1])) /\ k + 1 - 1 = k
  <2>1. k + 1 \in 1 .. Len(p) /\ k + 1 - 1 = k
    BY <1>3 DEF TruePlan
  <2>2. \A j \in 1 .. Len(p) : EndIn(p, j) = EndIn(p, j - 1) + Len(Encode(p[j]))
    BY StreamIs DEF StreamIsMessages, TruePlan
  <2>3. QED BY <2>1, <2>2
<1>7. QED BY <1>3, <1>4, <1>5, <1>6

\* Where the parser is when no unit of message k + 1 has been taken yet.
LEMMA ExpectFresh ==
    ASSUME NEW p, TruePlan(p), NEW k \in 0 .. Len(p)
    PROVE  Expect(p, k, EndIn(p, k), Fresh)
<1>1. CASE k = Len(p)
  BY <1>1 DEF Expect
<1>2. CASE k < Len(p)
  <2>1. p[k + 1] \in Messages /\ EndIn(p, k) \in Nat
    <3>1. k + 1 \in 1 .. Len(p)
      BY <1>2 DEF TruePlan
    <3>2. EndIn(p, k) \in 0 .. Len(Encoded(p))
      BY StreamIs DEF StreamIsMessages, TruePlan
    <3>3. QED BY <3>1, <3>2 DEF TruePlan
  <2>2. Len(Encode(p[k + 1])) \in Nat
    BY <2>1, Places
  <2>3. 0 \in 0 .. Len(Encode(p[k + 1])) /\ EndIn(p, k) = EndIn(p, k) + 0
    BY <2>1, <2>2
  <2>4. Stands(p[k + 1], 0, Fresh)
    BY DEF Stands
  <2>5. QED BY <1>2, <2>3, <2>4 DEF Expect
<1>3. QED BY <1>1, <1>2 DEF TruePlan

\* What is true of every state of the loop of Parse, e being the position in
\* the stream at which the buffer ends.
OnTrack(p, k, e, s) ==
    /\ s \in ParserStates /\ Finishes(s)
    /\ s.ret # "throw" => /\ Len(s.buf) <= e /\ Holds(p, s.buf, e - Len(s.buf))
                          /\ Expect(p, k, e - Len(s.buf), s.req)

LEMMA StepOnTrack ==
    ASSUME NEW p, TruePlan(p), NEW k \in 0 .. Len(p), NEW e \in Nat, NEW s, OnTrack(p, k, e, s)
    PROVE  OnTrack(p, k, e, ParseStep(s))
<1> DEFINE t == ParseStep(s)
           c == e - Len(s.buf)
<1>1. s \in ParserStates /\ Finishes(s)
  BY DEF OnTrack
<1>2. t \in ParserStates /\ Finishes(t) /\ (s.ret # "loop" => t = s)
  BY <1>1, StepType, StepFinishes
<1>3. CASE s.ret # "loop"
  BY <1>2, <1>3
<1>4. ASSUME s.ret = "loop", t.ret # "throw"
      PROVE  Len(t.buf) <= e /\ Holds(p, t.buf, e - Len(t.buf)) /\ Expect(p, k, e - Len(t.buf), t.req)
  <2>1. /\ s.buf \in Seq(Tokens) /\ Len(s.buf) \in Nat /\ s.req.state # "FINISH"
        /\ Len(s.buf) <= e /\ Holds(p, s.buf, c) /\ Expect(p, k, c, s.req)
        /\ s = At(s.req, s.buf) /\ c \in Nat
    <3>1. s.buf \in Seq(Tokens) /\ s = At(s.req, s.buf)
      BY <1>1, <1>4 DEF ParserStates, At
    <3>2. Len(s.buf) \in Nat
      BY <3>1
    <3>3. s.req.state # "FINISH"
      BY <1>1, <1>4 DEF Finishes
    <3>4. Len(s.buf) <= e /\ Holds(p, s.buf, c) /\ Expect(p, k, c, s.req)
      BY <1>4 DEF OnTrack
    <3>5. c \in Nat
      BY <3>2, <3>4
    <3>6. QED BY <3>1, <3>2, <3>3, <3>4, <3>5
  <2>2. /\ Encoded(p) \in Seq(Tokens) /\ EndIn(p, Len(p)) = Len(Encoded(p))
        /\ Len(Encoded(p)) \in Nat /\ EndIn(p, k) \in Nat
    <3>1. /\ Encoded(p) \in Seq(Tokens) /\ EndIn(p, Len(p)) = Len(Encoded(p))
          /\ EndIn(p, k) \in 0 .. Len(Encoded(p))
      BY StreamIs DEF StreamIsMessages, TruePlan
    <3>2. \A w \in Seq(Tokens) : Len(w) \in Nat
      OBVIOUS
    <3>3. QED BY <3>1, <3>2
  <2>3. CASE k = Len(p)
    <3>1. c = EndIn(p, k) /\ s.req = Fresh /\ c + Len(s.buf) <= EndIn(p, k)
      BY <2>1, <2>2, <2>3 DEF Expect, Holds
    <3>2. Len(s.buf) = 0
      <4>1. \A x, y \in Nat : x + y <= x => y = 0
        OBVIOUS
      <4>2. QED BY <2>1, <3>1, <4>1
    <3>3. FindCRLF(s.buf) = 0
      <4>1. \A i \in Nat : ~PairAt(s.buf, i)
        BY <3>2 DEF PairAt
      <4>2. QED BY <2>1, <4>1, FindCRLFIs
    <3>4. ParseStep(At(Fresh, s.buf)) = Left(Fresh, s.buf, "false")
      <4>1. Fresh.state = "REQUEST_LINE"
        BY DEF Fresh
      <4>2. QED BY <2>1, <3>3, <4>1, OnRequestLineIs
    <3>5. t = Left(Fresh, s.buf, "false")
      BY <2>1, <3>1, <3>4, Zenon
    <3>6. t.buf = s.buf /\ t.req = s.req
      BY <3>1, <3>5 DEF Left
    <3>7. QED BY <2>1, <3>6, Zenon
  <2>4. CASE k < Len(p)
    <3> DEFINE m == p[k + 1]
               w == Encode(m)
    <3>1. /\ k + 1 \in 1 .. Len(p) /\ m \in Messages /\ LengthIsTrue(m) /\ k + 1 - 1 = k
      BY <2>4 DEF TruePlan
    <3>2. PICK o \in 0 .. Len(w) : c = EndIn(p, k) + o /\ Stands(m, o, s.req)
      BY <2>1, <2>4 DEF Expect
    <3>3. Len(w) \in Nat /\ o \in Nat
      <4>1. Len(w) \in Nat
        BY <3>1, Places
      <4> HIDE DEF w
      <4>2. QED BY <3>2, <4>1
    <3>4. Ahead(w, o, s.buf)
      <4>1. \A j \in 1 .. Len(w) : Encoded(p)[EndIn(p, k) + j] = w[j]
        <5>1. \A j \in 1 .. Len(w) : Encoded(p)[EndIn(p, k + 1 - 1) + j] = w[j]
          BY <3>1, StreamIs DEF StreamIsMessages, TruePlan
        <5>2. QED BY <3>1, <5>1, Zenon
      <4>2. ASSUME NEW i \in 1 .. Len(s.buf), o + i <= Len(w) PROVE s.buf[i] = w[o + i]
        <5>1. o + i \in 1 .. Len(w) /\ c + i = EndIn(p, k) + (o + i)
          <6>1. \A x, y, z, l \in Nat : x + y <= l /\ y >= 1 =>
                  x + y \in 1 .. l /\ z + x + y = z + (x + y)
            OBVIOUS
          <6>2. i \in Nat /\ i >= 1
            BY <2>1
          <6> HIDE DEF w, c
          <6>3. QED BY <2>2, <3>2, <3>3, <4>2, <6>1, <6>2
        <5>2. s.buf[i] = Encoded(p)[c + i]
          BY <2>1 DEF Holds
        <5>3. QED BY <4>1, <5>1, <5>2
      <4>3. QED BY <4>2 DEF Ahead
    <3>5. Advances(m, o, s.buf, t)
      <4> HIDE DEF m, w
      <4>1. Advances(m, o, s.buf, ParseStep(At(s.req, s.buf)))
        BY <2>1, <3>1, <3>2, <3>3, <3>4, StepStands DEF w
      <4>2. QED BY <2>1, <4>1, Zenon
    <3>6. PICK d \in 0 .. Len(s.buf) : /\ t.buf = Retrieve(s.buf, d) /\ o + d <= Len(w)
                                       /\ Stands(m, o + d, t.req)
      BY <1>4, <3>5 DEF Advances
    <3>7. /\ Len(t.buf) = Len(s.buf) - d /\ d \in Nat
          /\ \A i \in 1 .. Len(s.buf) - d : t.buf[i] = s.buf[d + i]
      <4> DEFINE q == Retrieve(s.buf, d)
      <4>1. /\ Len(q) = Len(s.buf) - d
            /\ \A i \in 1 .. Len(s.buf) - d : q[i] = s.buf[d + i]
        BY <2>1, <3>6, RetrieveIs
      <4>2. d \in Nat /\ t.buf = q
        BY <2>1, <3>6
      <4> HIDE DEF q
      <4>3. QED BY <4>1, <4>2, Zenon
    <3>8. Len(t.buf) \in Nat /\ Len(t.buf) <= e /\ e - Len(t.buf) = c + d
      BY <2>1, <3>6, <3>7
    <3>9. Holds(p, t.buf, c + d)
      <4>1. c + d + Len(t.buf) = c + Len(s.buf)
        BY <2>1, <3>7
      <4>2. ASSUME NEW i \in 1 .. Len(t.buf) PROVE t.buf[i] = Encoded(p)[c + d + i]
        <5>1. /\ i \in 1 .. Len(s.buf) - d /\ d + i \in 1 .. Len(s.buf)
              /\ c + (d + i) = c + d + i
          BY <2>1, <3>6, <3>7
        <5>2. t.buf[i] = s.buf[d + i] /\ s.buf[d + i] = Encoded(p)[c + (d + i)]
          BY <2>1, <3>7, <5>1 DEF Holds
        <5>3. QED BY <5>1, <5>2, Zenon
      <4>3. QED BY <2>1, <4>1, <4>2 DEF Holds
    <3>10. Expect(p, k, c + d, t.req)
      <4>1. o + d \in 0 .. Len(w) /\ c + d = EndIn(p, k) + (o + d)
        <5>1. \A x, y, z, l \in Nat : x + y <= l =>
                x + y \in 0 .. l /\ z + x + y = z + (x + y)
          OBVIOUS
        <5> HIDE DEF w, c
        <5>2. QED BY <2>2, <3>2, <3>3, <3>6, <3>7, <5>1
      <4>2. QED BY <2>4, <3>6, <4>1 DEF Expect
    <3>11. QED BY <3>8, <3>9, <3>10
  <2>5. QED BY <2>3, <2>4 DEF TruePlan
<1>5. CASE s.ret = "loop"
  BY <1>2, <1>4, <1>5 DEF OnTrack
<1>6. QED BY <1>3, <1>5

(* Parse takes whole messages off the stream, however much of it has come. *)
LEMMA ParseOnTrack ==
    ASSUME NEW p, TruePlan(p), NEW k \in 0 .. Len(p), NEW c \in Nat, NEW b \in Seq(Tokens),
           Holds(p, b, c), NEW r \in Requests, r.state # "FINISH", Expect(p, k, c, r),
           NEW e, e = c + Len(b)
    PROVE  OnTrack(p, k, e, Parse(r, b))
<1> DEFINE I == {s \in ParserStates : OnTrack(p, k, e, s)}
<1>1. Len(b) \in Nat /\ e \in Nat /\ e - Len(b) = c /\ Len(b) <= e /\ Len(b) + 1 \in Nat
  <2>1. Len(b) \in Nat
    OBVIOUS
  <2>2. QED BY <2>1
<1>2. At(r, b) \in I
  <2>1. At(r, b) \in ParserStates /\ At(r, b).buf = b /\ At(r, b).req = r
    BY DEF At, ParserStates
  <2>2. Finishes(At(r, b))
    BY DEF At, Finishes
  <2>3. QED BY <1>1, <2>1, <2>2 DEF OnTrack
<1>3. \A s \in I : ParseStep(s) \in I
  <2>1. ASSUME NEW s \in I PROVE ParseStep(s) \in I
    <3>1. OnTrack(p, k, e, ParseStep(s))
      BY <1>1, <2>1, StepOnTrack
    <3>2. QED BY <3>1 DEF OnTrack
  <2>2. QED BY <2>1
<1> HIDE DEF I
<1>4. Loop(r, b)[Len(b) + 1] \in I
  BY <1>1, <1>2, <1>3, LoopInduct
<1>5. QED BY <1>4, LoopIs DEF I

-----------------------------------------------------------------------------
(* Units of the stream put together.                                       *)
LEMMA HoldsJoin ==
    ASSUME NEW p, NEW a \in Seq(Tokens), NEW b \in Seq(Tokens), NEW c \in Nat,
           NEW d, d = c + Len(a), Holds(p, a, c), Holds(p, b, d)
    PROVE  Holds(p, a \o b, c)
<1> DEFINE ab == a \o b
<1>1. /\ Len(ab) = Len(a) + Len(b) /\ Len(a) \in Nat /\ Len(b) \in Nat
      /\ \A i \in 1 .. Len(a) : ab[i] = a[i]
      /\ \A i \in 1 .. Len(b) : ab[Len(a) + i] = b[i]
  BY ConcatFront
<1> HIDE DEF ab
<1>2. c + Len(ab) = d + Len(b)
  BY <1>1
<1>3. ASSUME NEW i \in 1 .. Len(ab) PROVE ab[i] = Encoded(p)[c + i]
  <2>1. CASE i <= Len(a)
    <3>1. i \in 1 .. Len(a)
      BY <1>1, <2>1
    <3>2. QED BY <1>1, <3>1 DEF Holds
  <2>2. CASE ~(i <= Len(a))
    <3>1. i - Len(a) \in 1 .. Len(b) /\ Len(a) + (i - Len(a)) = i /\ d + (i - Len(a)) = c + i
      BY <1>1, <2>2
    <3>2. ab[Len(a) + (i - Len(a))] = b[i - Len(a)]
      BY <1>1, <3>1
    <3>3. b[i - Len(a)] = Encoded(p)[d + (i - Len(a))]
      BY <3>1 DEF Holds
    <3>4. QED BY <3>1, <3>2, <3>3, Zenon
  <2>3. QED BY <2>1, <2>2
<1>4. QED BY <1>2, <1>3 DEF Holds, ab

LEMMA HoldsPiece ==
    ASSUME NEW p, Encoded(p) \in Seq(Tokens), NEW c \in Nat, NEW n \in Nat,
           c + n <= Len(Encoded(p)), NEW x, x = SubSeq(Encoded(p), c + 1, c + n)
    PROVE  x \in Seq(Tokens) /\ Len(x) = n /\ Holds(p, x, c)
<1> DEFINE w == Encoded(p)
<1> HIDE DEF w
<1>1. w \in Seq(Tokens) /\ c + n <= Len(w) /\ Len(w) \in Nat
  BY DEF w
<1>2. /\ SubSeq(w, c + 1, c + n) \in Seq(Tokens) /\ Len(SubSeq(w, c + 1, c + n)) = n
      /\ \A i \in 1 .. n : SubSeq(w, c + 1, c + n)[i] = w[c + i]
  <2>1. /\ c + 1 \in Int /\ c + n \in Int /\ \A i \in c + 1 .. c + n : w[i] \in Tokens
        /\ (IF c + 1 <= c + n THEN c + n - (c + 1) + 1 ELSE 0) = n
        /\ c + n - (c + 1) + 1 = n /\ \A i \in 1 .. n : c + 1 + i - 1 = c + i
    BY <1>1
  <2>2. /\ SubSeq(w, c + 1, c + n) \in Seq(Tokens)
        /\ Len(SubSeq(w, c + 1, c + n)) = IF c + 1 <= c + n THEN c + n - (c + 1) + 1 ELSE 0
        /\ \A i \in 1 .. c + n - (c + 1) + 1 : SubSeq(w, c + 1, c + n)[i] = w[c + 1 + i - 1]
    BY <2>1, SubSeqProperties
  <2>3. QED BY <2>1, <2>2
<1>3. QED BY <1>1, <1>2 DEF Holds, w

-----------------------------------------------------------------------------
(* What the session knows of its client's stream.  Position is how much of  *)
(* it has been parsed; what lies behind it is in the buffers.              *)
Arrived == Completion("read", "ok")

Got == readBuffer \o landed
Position == sent - Len(inbox) - Len(Got)

ParserInv ==
    /\ Position \in Nat /\ Holds(plan, Got, Position)
    /\ IF request.state = "FINISH" THEN Position = EndIn(plan, Len(served))
                                   ELSE Expect(plan, Len(served), Position, request)
    /\ landed # <<>> => Arrived \in Queued(ready)
    /\ Reading \/ start # "done" => request.state # "FINISH"
    /\ Writing => request.state = "FINISH"

StreamInv ==
    /\ plan \in Plans
    /\ inbox \in Seq(Tokens) /\ readBuffer \in Seq(Tokens) /\ landed \in Seq(Tokens)
    /\ sent \in Nat /\ Len(inbox) <= sent /\ Holds(plan, inbox, sent - Len(inbox))
    /\ request \in Requests

ServedInv == served \in Seq(Messages) /\ ServedInOrder

ReadInv == StreamInv /\ ServedInv /\ (~halted => ParserInv)

LEMMA PlanIs ==
    ASSUME plan \in Plans
    PROVE  TruePlan(plan) /\ Stream = Encoded(plan) /\ Stream \in Seq(Tokens) /\ Len(Stream) \in Nat
<1>1. TruePlan(plan)
  BY PlansAssumption DEF TruePlan
<1>2. Stream \in Seq(Tokens)
  BY <1>1, StreamIs DEF TruePlan, StreamIsMessages, Stream
<1>3. QED BY <1>1, <1>2 DEF Stream

LEMMA FreshIsRequest == Fresh \in Requests /\ Fresh.state = "REQUEST_LINE"
<1>1. <<>> \in Seq(Tokens)
  OBVIOUS
<1>2. QED BY <1>1 DEF Fresh, Requests, Texts, Absent

LEMMA InitReadInv == Init => ReadInv
<1> SUFFICES ASSUME Init PROVE ReadInv
  OBVIOUS
<1>1. /\ plan \in Plans /\ sent = 0 /\ inbox = <<>> /\ readBuffer = <<>> /\ landed = <<>>
      /\ served = <<>> /\ request = Fresh /\ readOp = "none" /\ writeOp = "none" /\ ready = <<>>
  BY DEF Init
<1>2. TruePlan(plan) /\ Encoded(plan) \in Seq(Tokens) /\ Len(Encoded(plan)) \in Nat
  BY <1>1, PlanIs
<1>3. Holds(plan, <<>>, 0)
  BY <1>2 DEF Holds
<1>4. <<>> \in Seq(Tokens) /\ Len(<<>>) = 0 /\ <<>> \o <<>> = <<>> /\ <<>> \in Seq(Messages)
  OBVIOUS
<1>5. StreamInv
  BY <1>1, <1>3, <1>4, FreshIsRequest DEF StreamInv
<1>6. ServedInv
  <2>1. Len(plan) \in Nat
    BY <1>2 DEF TruePlan
  <2>2. QED BY <1>1, <1>4, <2>1 DEF ServedInv, ServedInOrder
<1>7. Got = <<>> /\ Position = 0
  <2>1. Got = <<>>
    BY <1>1, <1>4 DEF Got
  <2>2. sent = 0 /\ Len(inbox) = 0 /\ Len(Got) = 0
    BY <1>1, <1>4, <2>1
  <2>3. Position = 0
    BY <2>2 DEF Position
  <2>4. QED BY <2>1, <2>3
<1>8. Expect(plan, 0, 0, Fresh)
  <2>1. 0 \in 0 .. Len(plan) /\ EndIn(plan, 0) = 0
    <3>1. Len(plan) \in Nat
      BY <1>2 DEF TruePlan
    <3>2. EndIn(plan, 0) = 0
      BY <1>2, StreamIs DEF TruePlan, StreamIsMessages
    <3>3. QED BY <3>1, <3>2
  <2>2. Expect(plan, 0, EndIn(plan, 0), Fresh)
    BY <1>2, <2>1, ExpectFresh
  <2>3. QED BY <2>1, <2>2, Zenon
<1>9. Queued(ready) = {} /\ ~Writing
  BY <1>1 DEF Queued, Writing
<1>10. ParserInv
  BY <1>1, <1>3, <1>4, <1>7, <1>8, <1>9, FreshIsRequest DEF ParserInv
<1>11. QED BY <1>5, <1>6, <1>10 DEF ReadInv

-----------------------------------------------------------------------------
(* A step that leaves the stream alone, starts no read of its own and      *)
(* loses no read that has ended.                                           *)
LEMMA SameRead ==
    ASSUME ReadInv, UNCHANGED <<plan, sent, inbox, readBuffer, landed, request, served>>,
           ~halted' => /\ ~halted
                       /\ Arrived \in Queued(ready) /\ landed # <<>> => Arrived \in Queued(ready')
                       /\ Reading' \/ start' # "done" => Reading \/ start # "done"
                       /\ Writing' => Writing
    PROVE  ReadInv'
<1>1. StreamInv'
  BY DEF ReadInv, StreamInv, Holds
<1>2. ServedInv'
  BY DEF ReadInv, ServedInv, ServedInOrder, EndOf
<1>3. ASSUME ~halted' PROVE ParserInv'
  <2>1. ParserInv
    BY <1>3 DEF ReadInv
  <2>2. Got' = Got /\ Position' = Position
    BY DEF Got, Position
  <2>3. QED BY <1>3, <2>1, <2>2 DEF ParserInv
<1>4. QED BY <1>1, <1>2, <1>3 DEF ReadInv

\* The end of a read, a write or the wait: one completion more.
LEMMA EndsRead ==
    ASSUME Inv, ReadInv,
           ReadFail("eof") \/ ReadFail("reset") \/ WriteComplete \/ WriteFail \/ TimerExpire
    PROVE  ReadInv'
<1>1. PICK c \in Completions :
           /\ ready' = Append(ready, c)
           /\ c.h = "read" => readOp = "pending"
           /\ c.h = "write" => writeOp = "pending"
           /\ readOp' = "pending" => readOp = "pending"
           /\ writeOp' = "pending" => writeOp = "pending"
  <2>1. \A h \in Handlers : \A ec \in ErrorCodes :
            Completion(h, ec) \in Completions /\ Completion(h, ec).h = h
    BY DEF Completion, Completions
  <2>2. CASE ReadFail("eof") \/ ReadFail("reset")
    BY <2>1, <2>2 DEF ReadFail, Handlers, ErrorCodes
  <2>3. CASE WriteComplete \/ WriteFail
    BY <2>1, <2>3 DEF WriteComplete, WriteFail, Handlers, ErrorCodes
  <2>4. CASE TimerExpire
    BY <2>1, <2>4 DEF TimerExpire, Handlers, ErrorCodes
  <2>5. QED BY <2>2, <2>3, <2>4
<1>2. Queued(ready') = Queued(ready) \cup {c}
  BY <1>1, QueueAppend DEF Inv, ControlTypeOK
<1>3. (Reading' => Reading) /\ (Writing' => Writing)
  BY <1>1, <1>2 DEF Reading, Writing
<1>4. UNCHANGED <<plan, sent, inbox, readBuffer, landed, request, served, start, halted>>
  BY DEF ReadFail, WriteComplete, WriteFail, TimerExpire, peerVars, dataVars
<1>5. ~halted
  BY DEF ReadFail, WriteComplete, WriteFail, TimerExpire
<1>6. QED BY <1>2, <1>3, <1>4, <1>5, SameRead

LEMMA StartsRead == ASSUME Inv, CloseInv, ReadInv, StartTimer \/ StartRead PROVE ReadInv'
<1>1. /\ start # "done" /\ ~halted /\ writeOp' = writeOp
      /\ UNCHANGED <<plan, sent, inbox, readBuffer, landed, request, served, halted>>
  BY DEF StartTimer, StartRead, peerVars, dataVars
<1>2. ready \in Seq(Completions) /\ NoIO(ready) /\ OneTimer(ready)
  BY <1>1 DEF Inv, ControlTypeOK, BeforeStart, CloseInv, TimeInv
<1>3. Arrived \notin Queued(ready)
  BY <1>2, QueueIs DEF Arrived, Completion, IsIO
<1>4. Writing' => Writing
  <2>1. CASE StartTimer
    BY <2>1 DEF StartTimer, Writing, Queued
  <2>2. CASE StartRead
    <3>1. Queued(ready') \subseteq Queued(ready) \cup {Completion("read", "bad")}
      BY <1>2, <2>2, ReadQueue DEF StartRead
    <3>2. Completion("read", "bad").h = "read"
      BY DEF Completion
    <3>3. QED BY <1>1, <3>1, <3>2 DEF Writing
  <2>3. QED BY <2>1, <2>2
<1>5. QED BY <1>1, <1>3, <1>4, SameRead

LEMMA StopsRead ==
    ASSUME Inv, CloseInv, ReadInv, HandleReadError \/ HandleWriteError \/ HandleWriteLast
    PROVE  ReadInv'
<1>1. PICK h \in {"read", "write"} : Runs(h) /\ (h = "read" => Head(ready).ec # "ok")
  BY DEF HandleReadError, HandleWriteError, HandleWriteLast
<1>2. PICK cause : Stop(Tail(ready), cause)
  BY DEF HandleReadError, HandleWriteError, HandleWriteLast
<1>3. ~Reading' /\ ~Writing'
  BY <1>1, <1>2, StopEndsChain
<1>4. /\ ready \in Seq(Completions) /\ ready # <<>> /\ Head(ready).h = h
      /\ NoIO(Tail(ready)) /\ Tail(ready) \in Seq(Completions) /\ start = "done" /\ ~halted
  BY <1>1, HandlerQueue DEF Runs
<1>5. Arrived \notin Queued(ready)
  <2>1. Arrived # Head(ready) /\ IsIO(Arrived)
    BY <1>1, <1>4 DEF Arrived, Completion, IsIO
  <2>2. Queued(ready) = Queued(Tail(ready)) \cup {Head(ready)}
    BY <1>4, QueueTail
  <2>3. Arrived \notin Queued(Tail(ready))
    BY <1>4, <2>1, QueueIs
  <2>4. QED BY <2>1, <2>2, <2>3
<1>6. /\ start' = start
      /\ UNCHANGED <<plan, sent, inbox, readBuffer, landed, request, served, halted>>
  BY DEF HandleReadError, HandleWriteError, HandleWriteLast, peerVars, dataVars
<1>7. QED BY <1>3, <1>4, <1>5, <1>6, SameRead

LEMMA TimerRead == ASSUME Inv, CloseInv, ReadInv, HandleTimer PROVE ReadInv'
<1> DEFINE t == Tail(ready)
<1>1. /\ ready \in Seq(Completions) /\ ready # <<>> /\ Head(ready).h = "timer" /\ ~halted
      /\ UNCHANGED <<plan, sent, inbox, readBuffer, landed, request, served, start, halted>>
  BY DEF HandleTimer, Runs, Inv, ControlTypeOK, peerVars, dataVars
<1>2. /\ t \in Seq(Completions) /\ OneTimer(t) /\ NoTimer(t)
      /\ Queued(ready) = Queued(t) \cup {Head(ready)}
  BY <1>1, QueueTail DEF CloseInv, TimeInv
<1>3. \/ ready' = t /\ UNCHANGED <<closed, timer, readOp, writeOp>>
      \/ ~closed /\ Stop(t, "timeout")
  BY DEF HandleTimer, Stop
<1>4. (Reading' => Reading) /\ (Writing' => Writing)
  <2>1. CASE ready' = t /\ UNCHANGED <<closed, timer, readOp, writeOp>>
    BY <1>2, <2>1 DEF Reading, Writing
  <2>2. CASE ~closed /\ Stop(t, "timeout")
    <3>1. /\ readOp' = "none" /\ writeOp' = "none"
          /\ \A c \in Queued(ready') : \/ c \in Queued(t)
                                       \/ /\ c.ec = "aborted"
                                          /\ c.h = "read" => readOp = "pending"
                                          /\ c.h = "write" => writeOp = "pending"
      BY <1>2, <2>2, StopQueue DEF Inv
    <3>2. QED BY <1>2, <3>1 DEF Reading, Writing
  <2>3. QED BY <1>3, <2>1, <2>2
<1>5. ASSUME Arrived \in Queued(ready) PROVE Arrived \in Queued(ready')
  <2>1. Arrived \in Queued(t)
    BY <1>1, <1>2, <1>5 DEF Arrived, Completion
  <2>2. CASE ready' = t
    BY <2>1, <2>2
  <2>3. CASE ~closed /\ Stop(t, "timeout")
    <3>1. readOp # "pending" /\ writeOp # "pending"
      <4>1. ~NoIO(ready)
        BY <1>1, <1>5, QueueIs DEF Arrived, Completion, IsIO
      <4>2. QED BY <4>1 DEF Inv, OneChain, InFlight
    <3>2. ready' = AbortTimer(t)
      BY <2>3, <3>1 DEF Stop, AbortWrite, AbortRead
    <3>3. Completion("timer", "aborted") \in Completions
      BY DEF Completion, Completions, Handlers, ErrorCodes
    <3>4. Queued(t) \subseteq Queued(ready')
      <4>1. ready' = t \/ ready' = Append(t, Completion("timer", "aborted"))
        BY <3>2 DEF AbortTimer
      <4> HIDE DEF t
      <4>2. t \in Seq(Completions)
        BY <1>2
      <4>3. Queued(Append(t, Completion("timer", "aborted")))
              = Queued(t) \cup {Completion("timer", "aborted")}
        BY <3>3, <4>2, QueueAppend
      <4>4. QED BY <4>1, <4>3
    <3>5. QED BY <2>1, <3>4
  <2>4. QED BY <1>3, <2>2, <2>3
<1>6. QED BY <1>1, <1>4, <1>5, SameRead

-----------------------------------------------------------------------------
(* The client sends, and the reactor takes what has come in.               *)
LEMMA GotIs ==
    ASSUME StreamInv
    PROVE  /\ Got \in Seq(Tokens) /\ Len(Got) = Len(readBuffer) + Len(landed)
           /\ Len(readBuffer) \in Nat /\ Len(landed) \in Nat /\ Len(Got) \in Nat
           /\ Len(inbox) \in Nat
<1>1. readBuffer \in Seq(Tokens) /\ landed \in Seq(Tokens)
  BY DEF StreamInv
<1>2. /\ Got \in Seq(Tokens) /\ Len(Got) = Len(readBuffer) + Len(landed)
      /\ Len(readBuffer) \in Nat /\ Len(landed) \in Nat
  BY <1>1, ConcatFront DEF Got
<1>3. Len(inbox) \in Nat
  BY DEF StreamInv
<1>4. QED BY <1>2, <1>3

LEMMA SendRead ==
    ASSUME ReadInv, NEW n \in 1 .. Len(Stream) - sent, ClientSend(n) PROVE ReadInv'
<1> DEFINE x == SubSeq(Encoded(plan), sent + 1, sent + n)
<1>1. /\ plan \in Plans /\ sent \in Nat /\ inbox \in Seq(Tokens) /\ Len(inbox) <= sent
      /\ Holds(plan, inbox, sent - Len(inbox)) /\ Len(inbox) \in Nat
  BY GotIs DEF ReadInv, StreamInv
<1>2. /\ Stream = Encoded(plan) /\ Encoded(plan) \in Seq(Tokens)
      /\ Len(Encoded(plan)) \in Nat /\ TruePlan(plan)
  BY <1>1, PlanIs
<1>3. /\ n \in Nat /\ sent + n <= Len(Encoded(plan)) /\ sent' = sent + n
      /\ inbox' = inbox \o x
      /\ UNCHANGED <<plan, readBuffer, landed, request, served, halted, start, ready, readOp, writeOp>>
  BY <1>1, <1>2 DEF ClientSend, dataVars, opVars
<1>4. x \in Seq(Tokens) /\ Len(x) = n /\ Holds(plan, x, sent)
  BY <1>1, <1>2, <1>3, HoldsPiece
<1> HIDE DEF x
<1>5. inbox' \in Seq(Tokens) /\ Len(inbox') = Len(inbox) + n
  <2>1. inbox \in Seq(Tokens) /\ x \in Seq(Tokens)
    BY <1>1, <1>4
  <2>2. inbox \o x \in Seq(Tokens) /\ Len(inbox \o x) = Len(inbox) + Len(x)
    BY <2>1, ConcatFront
  <2>3. QED BY <1>3, <1>4, <2>2
<1>6. Holds(plan, inbox', sent - Len(inbox))
  <2>1. sent - Len(inbox) \in Nat /\ sent = (sent - Len(inbox)) + Len(inbox)
    BY <1>1
  <2>2. Holds(plan, inbox \o x, sent - Len(inbox))
    BY <1>1, <1>4, <2>1, HoldsJoin
  <2>3. QED BY <1>3, <2>2, Zenon
<1>7. sent' - Len(inbox') = sent - Len(inbox) /\ Len(inbox') <= sent' /\ sent' \in Nat
  BY <1>1, <1>3, <1>5
<1>8. StreamInv'
  <2>1. Holds(plan, inbox', sent' - Len(inbox'))
    BY <1>6, <1>7, Zenon
  <2>2. Holds(plan, inbox, sent - Len(inbox))'
    BY <1>3, <2>1 DEF Holds
  <2>3. QED BY <1>3, <1>5, <1>7, <2>2 DEF ReadInv, StreamInv
<1>9. ServedInv'
  <2>1. \A i \in 1 .. Len(served) : EndOf(i) \in Nat
    <3>1. \A i \in 1 .. Len(served) : i \in 0 .. Len(plan)
      BY <1>2 DEF ReadInv, ServedInv, ServedInOrder, TruePlan
    <3>2. \A i \in 0 .. Len(plan) : EndIn(plan, i) \in Nat
      BY <1>2, StreamIs DEF TruePlan, StreamIsMessages
    <3>3. QED BY <3>1, <3>2 DEF EndOf
  <2>2. \A i \in 1 .. Len(served) : EndOf(i) <= sent'
    BY <1>1, <1>3, <2>1 DEF ReadInv, ServedInv, ServedInOrder
  <2>3. QED BY <1>3, <2>2 DEF ReadInv, ServedInv, ServedInOrder, EndOf
<1>10. ASSUME ~halted' PROVE ParserInv'
  <2>1. Got' = Got /\ Position' = Position
    <3>1. Got' = Got
      BY <1>3 DEF Got
    <3>2. QED BY <1>7, <3>1 DEF Position
  <2>2. Queued(ready') = Queued(ready) /\ Reading' = Reading /\ Writing' = Writing
    BY <1>3 DEF Reading, Writing, Queued
  <2>3. ParserInv
    BY <1>3, <1>10 DEF ReadInv
  <2>4. QED BY <1>3, <2>1, <2>2, <2>3 DEF ParserInv, Holds
<1>11. QED BY <1>8, <1>9, <1>10 DEF ReadInv

LEMMA ReadCompleteRead == ASSUME Inv, CloseInv, ReadInv, ReadComplete PROVE ReadInv'
<1>1. /\ ~halted /\ readOp = "pending" /\ readOp' = "none" /\ landed' = inbox /\ inbox' = <<>>
      /\ ready' = Append(ready, Arrived)
      /\ UNCHANGED <<plan, sent, start, readBuffer, request, served, writeOp, halted>>
  BY DEF ReadComplete, Arrived, peerVars
<1>2. StreamInv /\ ParserInv
  BY <1>1 DEF ReadInv
<1>3. ready \in Seq(Completions) /\ Arrived \in Completions
  BY DEF Inv, ControlTypeOK, Arrived, Completion, Completions, Handlers, ErrorCodes
<1>4. Queued(ready') = Queued(ready) \cup {Arrived} /\ Arrived.h = "read"
  BY <1>1, <1>3, QueueAppend DEF Arrived, Completion
<1>5. landed = <<>>
  <2>1. NoIO(ready)
    BY <1>1 DEF Inv, OneChain, InFlight
  <2>2. Arrived \notin Queued(ready)
    BY <1>3, <1>4, <2>1, QueueIs DEF IsIO
  <2>3. QED BY <1>2, <2>2 DEF ParserInv
<1>6. Got = readBuffer /\ Len(Got) = Len(readBuffer)
  <2>1. readBuffer \in Seq(Tokens)
    BY <1>2 DEF StreamInv
  <2>2. readBuffer \o <<>> = readBuffer
    BY <2>1
  <2>3. QED BY <1>5, <2>2 DEF Got
<1>7. /\ Got' = readBuffer \o inbox /\ Len(Got') = Len(readBuffer) + Len(inbox)
      /\ Len(readBuffer) \in Nat /\ Len(inbox) \in Nat /\ Len(inbox') = 0
  <2>1. readBuffer \in Seq(Tokens) /\ inbox \in Seq(Tokens)
    BY <1>2 DEF StreamInv
  <2>2. Got' = readBuffer \o inbox
    BY <1>1 DEF Got
  <2>3. Len(inbox') = 0
    BY <1>1
  <2>4. QED BY <2>1, <2>2, <2>3, JoinedIs
<1>8. Position' = Position /\ Position \in Nat /\ sent - Len(inbox) = Position + Len(readBuffer)
  <2>1. Position = sent - Len(inbox) - Len(readBuffer) /\ Position \in Nat /\ sent \in Nat
    BY <1>2, <1>6 DEF Position, ParserInv, StreamInv
  <2>2. Position' = sent - 0 - (Len(readBuffer) + Len(inbox))
    BY <1>1, <1>7 DEF Position
  <2>3. QED BY <1>7, <2>1, <2>2
<1>9. Holds(plan, Got', Position)
  <2>1. Holds(plan, readBuffer, Position)
    BY <1>2, <1>6, Zenon DEF ParserInv
  <2>2. /\ Holds(plan, inbox, sent - Len(inbox)) /\ readBuffer \in Seq(Tokens)
        /\ inbox \in Seq(Tokens)
    BY <1>2 DEF StreamInv
  <2>3. Holds(plan, readBuffer \o inbox, Position)
    BY <1>8, <2>1, <2>2, HoldsJoin
  <2>4. QED BY <1>7, <2>3, Zenon
<1>10. StreamInv'
  <2>1. /\ Len(Encoded(plan)) \in Nat /\ sent \in Nat /\ Len(inbox) <= sent
        /\ sent - Len(inbox) + Len(inbox) <= Len(Encoded(plan))
    BY <1>2, PlanIs DEF StreamInv, Holds
  <2>2. sent - Len(inbox') = sent /\ sent + Len(inbox') <= Len(Encoded(plan)) /\ Len(inbox') <= sent
    BY <1>7, <2>1
  <2>3. Holds(plan, inbox', sent - Len(inbox'))
    BY <1>7, <2>1, <2>2 DEF Holds
  <2>4. inbox' \in Seq(Tokens)
    BY <1>1
  <2>5. QED BY <1>1, <1>2, <2>2, <2>3, <2>4 DEF StreamInv, Holds
<1>11. ServedInv'
  BY <1>1 DEF ReadInv, ServedInv, ServedInOrder, EndOf
<1>12. ParserInv'
  <2>1. Reading /\ (Writing' => Writing)
    BY <1>1, <1>4 DEF Reading, Writing
  <2>2. Holds(plan, Got, Position)'
    BY <1>1, <1>8, <1>9 DEF Holds
  <2>3. QED BY <1>1, <1>2, <1>4, <1>8, <2>1, <2>2 DEF ParserInv
<1>13. QED BY <1>10, <1>11, <1>12 DEF ReadInv

-----------------------------------------------------------------------------
(* The handlers that parse.                                                *)
LEMMA ParseOfStream ==
    ASSUME Inv, CloseInv, ReadInv, Runs("read"), Head(ready).ec = "ok",
           NEW e, e = sent - Len(inbox)
    PROVE  /\ Parsed \in ParserStates /\ Parsed.ret \in Returns /\ Finishes(Parsed)
           /\ OnTrack(plan, Len(served), e, Parsed)
           /\ e \in Nat /\ Len(served) \in 0 .. Len(plan) /\ TruePlan(plan) /\ ~halted
<1>1. ~halted /\ StreamInv /\ ServedInv /\ ParserInv
  BY DEF Runs, ReadInv
<1>2. Got \in Seq(Tokens) /\ Len(Got) \in Nat /\ Len(inbox) \in Nat
  BY <1>1, GotIs
<1>3. TruePlan(plan) /\ Len(served) \in 0 .. Len(plan)
  <2>1. TruePlan(plan)
    BY <1>1, PlanIs DEF StreamInv
  <2>2. Len(served) \in Nat /\ Len(served) <= Len(plan) /\ Len(plan) \in Nat
    BY <1>1, <2>1 DEF ServedInv, ServedInOrder, TruePlan
  <2>3. QED BY <2>1, <2>2
<1>4. request \in Requests /\ request.state # "FINISH"
  <2>1. Reading
    <3>1. Head(ready) \in Queued(ready) /\ Head(ready).h = "read"
      BY HandlerQueue
    <3>2. QED BY <3>1 DEF Reading
  <2>2. QED BY <1>1, <2>1 DEF ParserInv, StreamInv
<1>5. /\ Position \in Nat /\ Holds(plan, Got, Position)
      /\ Expect(plan, Len(served), Position, request)
  BY <1>1, <1>4 DEF ParserInv
<1>6. e = Position + Len(Got) /\ e \in Nat
  <2>1. sent \in Nat /\ Len(inbox) <= sent
    BY <1>1 DEF StreamInv
  <2>2. QED BY <1>2, <2>1 DEF Position
<1>7. Parsed = Parse(request, Got)
  BY DEF Parsed, Got
<1>8. OnTrack(plan, Len(served), e, Parse(request, Got))
  BY <1>2, <1>3, <1>4, <1>5, <1>6, ParseOnTrack
<1>9. Parse(request, Got).ret \in Returns
  BY <1>2, <1>4, ParseReturns
<1>10. QED BY <1>1, <1>3, <1>6, <1>7, <1>8, <1>9 DEF OnTrack

\* What TakeIn leaves behind, whatever Parse returned.
LEMMA TakeInRead ==
    ASSUME Inv, CloseInv, ReadInv, Runs("read"), Head(ready).ec = "ok", TakeIn,
           NEW c, c = sent - Len(inbox) - Len(Parsed.buf)
    PROVE  /\ StreamInv' /\ landed' = <<>>
           /\ Parsed.ret # "throw" =>
                /\ Position' = c /\ c \in Nat /\ Holds(plan, Got, Position)' /\ c <= sent
                /\ Expect(plan, Len(served), c, request')
<1> DEFINE b == Parsed.buf
           e == sent - Len(inbox)
<1>1. /\ request' = Parsed.req /\ readBuffer' = b /\ landed' = <<>>
      /\ UNCHANGED <<plan, sent, inbox>>
  BY DEF TakeIn, peerVars
<1>2. /\ Parsed \in ParserStates /\ OnTrack(plan, Len(served), e, Parsed) /\ e \in Nat
  BY ParseOfStream
<1>3. b \in Seq(Tokens) /\ Parsed.req \in Requests
  BY <1>2 DEF ParserStates
<1>4. Len(b) \in Nat
  BY <1>3
<1>5. StreamInv'
  <2>1. <<>> \in Seq(Tokens)
    OBVIOUS
  <2> HIDE DEF b
  <2>2. QED BY <1>1, <1>3, <2>1 DEF ReadInv, StreamInv, Holds
<1>6. Got' = b
  <2>1. b \o <<>> = b
    BY <1>3
  <2>2. QED BY <1>1, <2>1 DEF Got
<1>7. ASSUME Parsed.ret # "throw"
      PROVE  /\ Position' = c /\ c \in Nat /\ Holds(plan, Got, Position)' /\ c <= sent
             /\ Expect(plan, Len(served), c, request')
  <2>1. Len(b) <= e /\ Holds(plan, b, e - Len(b)) /\ Expect(plan, Len(served), e - Len(b), Parsed.req)
    BY <1>2, <1>7 DEF OnTrack
  <2>2. Position' = e - Len(b)
    BY <1>1, <1>6 DEF Position
  <2>3. c = e - Len(b)
    OBVIOUS
  <2>4. sent \in Nat /\ Len(inbox) \in Nat
    BY GotIs DEF ReadInv, StreamInv
  <2>5. c \in Nat /\ c <= sent
    BY <1>2, <1>4, <2>1, <2>3, <2>4
  <2>6. Holds(plan, Got, Position)'
    <3>1. Holds(plan, Got', Position')
      BY <1>6, <2>1, <2>2, Zenon
    <3>2. QED BY <1>1, <3>1 DEF Holds
  <2> HIDE DEF b, e
  <2>7. QED BY <1>1, <2>1, <2>2, <2>3, <2>5, <2>6
<1>8. QED BY <1>1, <1>5, <1>7

LEMMA PartialRead == ASSUME Inv, CloseInv, ReadInv, HandleReadPartial PROVE ReadInv'
<1> DEFINE c == sent - Len(inbox) - Len(Parsed.buf)
           q == AbortTimer(Tail(ready))
<1>1. /\ Runs("read") /\ Head(ready).ec = "ok" /\ Parsed.ret = "false" /\ TakeIn
      /\ DoRead(q) /\ UNCHANGED <<served, writeOp, halted>>
      /\ request' = Parsed.req /\ UNCHANGED plan
  BY DEF HandleReadPartial, TakeIn, peerVars
<1>2. /\ StreamInv' /\ landed' = <<>> /\ Position' = c /\ c \in Nat
      /\ Holds(plan, Got, Position)' /\ Expect(plan, Len(served), c, request')
  BY <1>1, TakeInRead
<1>3. request'.state # "FINISH"
  BY <1>1, ParseOfStream DEF Finishes
<1>4. ServedInv'
  BY <1>1 DEF ReadInv, ServedInv, ServedInOrder, EndOf, TakeIn, peerVars
<1>5. ~Writing'
  <2>1. /\ q \in Seq(Completions) /\ OneTimer(q) /\ (\A d \in Queued(q) : ~IsIO(d)) /\ ~InFlight
    BY <1>1, CancelledQueue
  <2> HIDE DEF q
  <2>2. Queued(ready') \subseteq Queued(q) \cup {Completion("read", "bad")}
    BY <1>1, <2>1, ReadQueue
  <2>3. Completion("read", "bad").h = "read"
    BY DEF Completion
  <2>4. QED BY <1>1, <2>1, <2>2, <2>3 DEF Writing, IsIO, InFlight
<1>6. ParserInv'
  <2> HIDE DEF c
  <2>1. Expect(plan', Len(served'), Position', request')
    BY <1>1, <1>2, Zenon
  <2>2. Expect(plan, Len(served), Position, request)'
    BY <1>1, <2>1 DEF Expect, EndIn
  <2>3. QED BY <1>2, <1>3, <1>5, <2>2 DEF ParserInv
<1>7. QED BY <1>2, <1>4, <1>6 DEF ReadInv

LEMMA ThrowRead == ASSUME Inv, CloseInv, ReadInv, HandleReadThrow PROVE ReadInv'
<1>1. /\ Runs("read") /\ Head(ready).ec = "ok" /\ TakeIn /\ halted' = TRUE
      /\ UNCHANGED <<served, plan, sent>>
  BY DEF HandleReadThrow, Throw, TakeIn, peerVars
<1>2. StreamInv'
  BY <1>1, TakeInRead
<1>3. ServedInv'
  BY <1>1 DEF ReadInv, ServedInv, ServedInOrder, EndOf
<1>4. QED BY <1>1, <1>2, <1>3 DEF ReadInv

LEMMA RequestRead == ASSUME Inv, CloseInv, ReadInv, HandleReadRequest PROVE ReadInv'
<1> DEFINE c == sent - Len(inbox) - Len(Parsed.buf)
           q == AbortTimer(Tail(ready))
           k == Len(served)
           m == Received(Parsed.req)
<1>1. /\ Runs("read") /\ Head(ready).ec = "ok" /\ Parsed.ret = "true" /\ TakeIn
      /\ served' = Append(served, m)
      /\ request' = Parsed.req /\ UNCHANGED <<plan, sent, inbox, start>>
  BY DEF HandleReadRequest, TakeIn, peerVars
<1>2. PICK a \in Answers(Parsed.req) : Respond(a, q)
  BY DEF HandleReadRequest
<1>3. /\ StreamInv' /\ landed' = <<>> /\ Position' = c /\ c \in Nat /\ c <= sent
      /\ Holds(plan, Got, Position)' /\ Expect(plan, k, c, request')
  BY <1>1, TakeInRead
<1>4. request'.state = "FINISH" /\ TruePlan(plan) /\ k \in 0 .. Len(plan)
  BY <1>1, ParseOfStream DEF Finishes
<1>5. k < Len(plan) /\ m = plan[k + 1] /\ c = EndIn(plan, k + 1)
  BY <1>1, <1>3, <1>4, WholeRequest
<1>6. /\ served \in Seq(Messages) /\ ServedInOrder
  BY DEF ReadInv, ServedInv
<1> HIDE DEF c, m
<1>7. /\ Len(served') = k + 1 /\ k \in Nat
      /\ \A i \in 1 .. k + 1 : (i \in 1 .. k /\ served'[i] = served[i]) \/ (i = k + 1 /\ served'[i] = m)
      /\ m \in Messages /\ served' \in Seq(Messages)
  <2>1. k + 1 \in 1 .. Len(plan) /\ plan \in Seq(Messages)
    BY <1>4, <1>5 DEF TruePlan
  <2>2. m \in Messages
    BY <1>5, <2>1
  <2>3. QED BY <1>1, <1>6, <2>2
<1>8. ServedInv'
  <2>1. ASSUME NEW i \in 1 .. Len(served')
        PROVE  served'[i] = plan'[i] /\ EndIn(plan', i) <= sent'
    <3>1. CASE i \in 1 .. k /\ served'[i] = served[i]
      BY <1>1, <1>6, <3>1 DEF ServedInOrder, EndOf
    <3>2. CASE i = k + 1 /\ served'[i] = m
      BY <1>1, <1>3, <1>5, <3>2
    <3>3. QED BY <1>7, <3>1, <3>2
  <2>2. Len(served') <= Len(plan')
    BY <1>1, <1>4, <1>5, <1>7 DEF TruePlan
  <2>3. ServedInOrder'
    BY <2>1, <2>2 DEF ServedInOrder, EndOf
  <2>4. QED BY <1>7, <2>3 DEF ServedInv
<1>9. ~Reading' /\ start' = "done"
  <2>1. /\ q \in Seq(Completions) /\ (\A d \in Queued(q) : ~IsIO(d)) /\ ~InFlight /\ start = "done"
    BY <1>1, CancelledQueue
  <2> HIDE DEF q
  <2>2. Completion("write", "bad") \in Completions /\ Completion("write", "bad").h = "write"
    BY DEF Completion, Completions, Handlers, ErrorCodes
  <2>3. readOp' = readOp /\ Queued(ready') \subseteq Queued(q) \cup {Completion("write", "bad")}
    <3>1. CASE a.throws
      BY <1>2, <3>1 DEF Respond, Throw
    <3>2. CASE ~a.throws /\ closed
      BY <1>2, <2>1, <2>2, <3>2, QueueAppend DEF Respond, DoWrite
    <3>3. CASE ~a.throws /\ ~closed
      BY <1>2, <3>3 DEF Respond, DoWrite
    <3>4. QED BY <3>1, <3>2, <3>3
  <2>4. QED BY <1>1, <2>1, <2>2, <2>3 DEF Reading, IsIO, InFlight
<1>10. ParserInv'
  <2>1. Position' = EndIn(plan', Len(served'))
    BY <1>1, <1>3, <1>5, <1>7, Zenon
  <2>2. (Position = EndIn(plan, Len(served)))'
    BY <2>1 DEF EndIn
  <2>3. QED BY <1>3, <1>4, <1>9, <2>2 DEF ParserInv
<1>11. QED BY <1>3, <1>8, <1>10 DEF ReadInv

LEMMA AgainRead == ASSUME Inv, CloseInv, ReadInv, HandleWriteAgain PROVE ReadInv'
<1>1. /\ Runs("write") /\ ~closed /\ request' = Fresh /\ DoRead(Tail(ready))
      /\ UNCHANGED <<plan, sent, inbox, readBuffer, landed, served, start, halted, writeOp>>
  BY DEF HandleWriteAgain, Reset, ReadOn, peerVars
<1>2. /\ ~InFlight /\ start = "done" /\ ~halted /\ Head(ready) \in Queued(ready)
      /\ Head(ready).h = "write" /\ NoIO(Tail(ready)) /\ Tail(ready) \in Seq(Completions)
      /\ ready \in Seq(Completions) /\ ready # <<>>
  BY <1>1, HandlerQueue DEF Runs
<1>3. Writing /\ StreamInv /\ ServedInv /\ ParserInv
  BY <1>2 DEF Writing, ReadInv
<1>4. Position = EndIn(plan, Len(served))
  BY <1>3 DEF ParserInv
<1>5. landed = <<>>
  <2>1. Arrived \notin Queued(ready)
    <3>1. Queued(ready) = Queued(Tail(ready)) \cup {Head(ready)}
      BY <1>2, QueueTail
    <3>2. Arrived.h = "read" /\ IsIO(Arrived)
      BY DEF Arrived, Completion, IsIO
    <3>3. Arrived \notin Queued(Tail(ready))
      BY <1>2, <3>2, QueueIs
    <3>4. QED BY <1>2, <3>1, <3>2, <3>3
  <2>2. QED BY <1>3, <2>1 DEF ParserInv
<1>6. StreamInv'
  BY <1>1, <1>3, FreshIsRequest DEF StreamInv, Holds
<1>7. ServedInv'
  BY <1>1, <1>3 DEF ServedInv, ServedInOrder, EndOf
<1>8. ~Writing'
  <2>1. ready' = Tail(ready)
    BY <1>1 DEF DoRead
  <2>2. \A d \in Queued(ready') : ~IsIO(d)
    BY <1>2, <2>1, QueueIs
  <2>3. QED BY <1>1, <1>2, <2>2 DEF Writing, IsIO, InFlight
<1>9. Expect(plan, Len(served), Position, Fresh)
  <2>1. TruePlan(plan)
    BY <1>3, PlanIs DEF StreamInv
  <2>2. Len(served) \in 0 .. Len(plan)
    <3>1. Len(served) \in Nat /\ Len(served) <= Len(plan) /\ Len(plan) \in Nat
      BY <1>3, <2>1 DEF ServedInv, ServedInOrder, TruePlan
    <3>2. QED BY <3>1
  <2>3. Expect(plan, Len(served), EndIn(plan, Len(served)), Fresh)
    BY <2>1, <2>2, ExpectFresh
  <2>4. QED BY <1>4, <2>3, Zenon
<1>10. ParserInv'
  <2>1. Got' = Got /\ Position' = Position
    BY <1>1 DEF Got, Position
  <2>2. Holds(plan, Got, Position)' /\ Position' \in Nat
    BY <1>1, <1>3, <2>1 DEF ParserInv, Holds
  <2>3. Expect(plan, Len(served), Position, request)'
    BY <1>1, <1>9, <2>1 DEF Expect, EndIn
  <2>4. request'.state # "FINISH" /\ landed' = <<>>
    BY <1>1, <1>5, FreshIsRequest
  <2>5. QED BY <1>8, <2>2, <2>3, <2>4 DEF ParserInv
<1>11. QED BY <1>6, <1>7, <1>10 DEF ReadInv

LEMMA StepReadInv == Inv /\ CloseInv /\ ReadInv /\ [Next]_vars => ReadInv'
<1> SUFFICES ASSUME Inv, CloseInv, ReadInv, [Next]_vars PROVE ReadInv'
  OBVIOUS
<1>1. ASSUME StartTimer \/ StartRead PROVE ReadInv'
  BY <1>1, StartsRead
<1>2. ASSUME Handler PROVE ReadInv'
  BY <1>2, StopsRead, PartialRead, ThrowRead, RequestRead, AgainRead, TimerRead DEF Handler
<1>3. ASSUME Reactor PROVE ReadInv'
  BY <1>3, EndsRead, ReadCompleteRead DEF Reactor
<1>4. ASSUME NEW n \in 1 .. Len(Stream) - sent, ClientSend(n) PROVE ReadInv'
  BY <1>4, SendRead
<1>5. ASSUME UNCHANGED vars \/ \E how \in {"fin", "rst"} : ClientLeave(how) PROVE ReadInv'
  <2>1. UNCHANGED <<plan, sent, inbox, readBuffer, landed, request, served, start, halted,
                    readOp, writeOp, ready>>
    BY <1>5 DEF ClientLeave, vars, peerVars, dataVars, opVars
  <2>2. Queued(ready') = Queued(ready) /\ Reading' = Reading /\ Writing' = Writing
    BY <2>1 DEF Reading, Writing, Queued
  <2>3. QED BY <2>1, <2>2, SameRead
<1>6. QED BY <1>1, <1>2, <1>3, <1>4, <1>5 DEF Next, Client

LEMMA AlwaysReadInv == Spec => [](Inv /\ CloseInv /\ ReadInv)
<1>1. QED BY InitReadInv, StepReadInv, AlwaysInv, AlwaysCloseInv, PTL DEF Spec

(* However the stream is cut up, whatever reads, errors, timeouts and      *)
(* exceptions come in between, HandleRequest sees exactly the requests the *)
(* client sent, whole and in order, each once all of it has been sent; the *)
(* reset of the parser between two of them leaves nothing over.            *)
THEOREM RequestsServedInOrder == Spec => []ServedInOrder
<1>1. ReadInv => ServedInOrder
  BY DEF ReadInv, ServedInv
<1>2. QED BY <1>1, AlwaysReadInv, PTL

-----------------------------------------------------------------------------
(* The types of what the session answers.                                  *)
AnswerInv ==
    /\ wire \in Seq(Responses) /\ writeBuffer \in Seq(Responses) /\ Len(writeBuffer) <= 1
    /\ keepAlive \in BOOLEAN

Typed(a) == a.status \in Nat /\ a.announce \in BOOLEAN

LEMMA AnswerTyped ==
    /\ \A s \in Nat, b \in BOOLEAN : Typed(Answer(s, b))
    /\ Typed(Throws)
<1>1. QED BY DEF Typed, Answer, Throws

LEMMA StaticAnswerTyped ==
    ASSUME NEW req, NEW asked, asked = KeepAliveAsked(req) PROVE Typed(StaticAnswer(req))
<1> DEFINE Usual == \E s \in Nat, b \in BOOLEAN : StaticAnswer(req) = Answer(s, b)
<1>1. asked \in BOOLEAN
  BY DEF KeepAliveAsked
<1>2. Kind(req.path) \in {"missing", "regular", "unreadable", "outside", "directory"}
  BY FileKindAssumption DEF Kind
<1>3. CASE req.path = "" \/ ~ResourceDirExists
  <2>1. StaticAnswer(req) = Throws
    BY <1>3 DEF StaticAnswer
  <2>2. QED BY <2>1, AnswerTyped, Zenon
<1>4. CASE ~(req.path = "" \/ ~ResourceDirExists)
  <2>1. ASSUME Kind(req.path) = "missing" PROVE Usual
    <3>1. StaticAnswer(req) = Answer(404, FALSE)
      BY <1>4, <2>1, ZenonT(60) DEF StaticAnswer
    <3>2. \E no \in BOOLEAN : StaticAnswer(req) = Answer(404, no)
      BY <3>1, ZenonT(60)
    <3>3. QED BY <3>2
  <2>2. ASSUME Kind(req.path) = "outside" PROVE Usual
    <3>1. StaticAnswer(req) = Answer(403, asked)
      BY <1>4, <2>2, ZenonT(60) DEF StaticAnswer
    <3>2. QED BY <1>1, <3>1
  <2>3. ASSUME Kind(req.path) = "regular" PROVE Usual
    <3>1. StaticAnswer(req) = Answer(200, asked)
      BY <1>4, <2>3, ZenonT(60) DEF StaticAnswer
    <3>2. QED BY <1>1, <3>1
  <2>4. ASSUME Kind(req.path) = "unreadable" PROVE Usual
    <3>1. StaticAnswer(req) = Answer(500, asked)
      BY <1>4, <2>4, ZenonT(60) DEF StaticAnswer
    <3>2. QED BY <1>1, <3>1
  <2>5. ASSUME Kind(req.path) = "directory" PROVE Usual
    <3>1. StaticAnswer(req) = Answer(404, asked)
      BY <1>4, <2>5, ZenonT(60) DEF StaticAnswer
    <3>2. QED BY <1>1, <3>1
  <2>6. Usual
    BY <1>2, <2>1, <2>2, <2>3, <2>4, <2>5, Zenon
  <2>7. QED BY <2>6, AnswerTyped, Zenon
<1>5. QED BY <1>3, <1>4, Zenon

LEMMA AnswersAre ==
    ASSUME NEW req, NEW a \in Answers(req)
    PROVE  a.status \in Nat /\ a.announce \in BOOLEAN /\ KeepAliveAsked(req) \in BOOLEAN
<1> DEFINE asked == KeepAliveAsked(req)
<1>1. asked \in BOOLEAN
  BY DEF KeepAliveAsked
<1> HIDE DEF asked
<1>2. CASE req.path \in ApiPaths
  <2>1. PICK s \in ApiStatuses(req) : a = IF s = IdNotANumber THEN Throws ELSE Answer(s, asked)
    BY <1>2 DEF Answers, asked
  <2>2. /\ HandleApiLogin(req) \subseteq Nat /\ HandleApiRegister(req) \subseteq Nat
        /\ HandleApiGetUsers \subseteq Nat /\ HandleApiGetUser(req) \subseteq Nat
    BY DEF HandleApiLogin, HandleApiRegister, HandleApiGetUsers, HandleApiGetUser, IdNotANumber
  <2>3. s \in Nat
    BY <2>1, <2>2 DEF ApiStatuses
  <2>4. Typed(a)
    BY <1>1, <2>1, <2>3, AnswerTyped, Zenon
  <2>5. QED BY <1>1, <2>4 DEF Typed, asked
<1>3. CASE req.path \notin ApiPaths
  <2>1. a = StaticAnswer(req)
    BY <1>3 DEF Answers
  <2>2. Typed(a)
    BY <2>1, StaticAnswerTyped
  <2>3. QED BY <1>1, <2>2 DEF Typed, asked
<1>4. QED BY <1>2, <1>3

LEMMA InitAnswerInv == Init => AnswerInv
<1> SUFFICES ASSUME Init PROVE AnswerInv
  OBVIOUS
<1>1. <<>> \in Seq(Responses) /\ Len(<<>>) = 0
  OBVIOUS
<1>2. wire = <<>> /\ writeBuffer = <<>> /\ keepAlive = FALSE
  BY DEF Init
<1>3. wire \in Seq(Responses) /\ writeBuffer \in Seq(Responses) /\ Len(writeBuffer) = 0
  BY <1>1, <1>2, Zenon
<1>4. Len(writeBuffer) <= 1
  BY <1>3
<1>5. keepAlive \in BOOLEAN
  BY <1>2
<1>6. QED BY <1>3, <1>4, <1>5 DEF AnswerInv

LEMMA StepAnswerInv == Inv /\ CloseInv /\ ReadInv /\ AnswerInv /\ [Next]_vars => AnswerInv'
<1> SUFFICES ASSUME Inv, CloseInv, ReadInv, AnswerInv, [Next]_vars PROVE AnswerInv'
  OBVIOUS
<1>0. <<>> \in Seq(Responses) /\ Len(<<>>) = 0
  OBVIOUS
<1>1. CASE UNCHANGED <<wire, writeBuffer, keepAlive>>
  BY <1>1 DEF AnswerInv
<1>2. CASE HandleWriteAgain \/ HandleWriteLast
  <2>1. writeBuffer' = <<>> /\ UNCHANGED <<wire, keepAlive>>
    BY <1>2 DEF HandleWriteAgain, HandleWriteLast, RetrieveAll
  <2>2. QED BY <1>0, <2>1 DEF AnswerInv
<1>3. CASE WriteComplete
  <2>1. wire' = wire \o writeBuffer /\ UNCHANGED <<writeBuffer, keepAlive>>
    BY <1>3 DEF WriteComplete, dataVars
  <2>2. wire \o writeBuffer \in Seq(Responses)
    BY DEF AnswerInv
  <2>3. QED BY <2>1, <2>2 DEF AnswerInv
<1>4. CASE HandleReadRequest
  <2>1. /\ Runs("read") /\ keepAlive' = KeepAliveAsked(Parsed.req) /\ wire' = wire
        /\ served' = Append(served, Received(Parsed.req))
    BY <1>4 DEF HandleReadRequest, TakeIn
  <2>2. PICK a \in Answers(Parsed.req) : Respond(a, AbortTimer(Tail(ready)))
    BY <1>4 DEF HandleReadRequest
  <2>3. a.status \in Nat /\ a.announce \in BOOLEAN /\ KeepAliveAsked(Parsed.req) \in BOOLEAN
    BY AnswersAre
  <2>4. CASE a.throws
    BY <2>1, <2>2, <2>3, <2>4 DEF Respond, AnswerInv
  <2>5. CASE ~a.throws
    <3> DEFINE r == [to |-> Len(served'), status |-> a.status, announce |-> a.announce]
    <3>1. writeBuffer = <<>> /\ writeBuffer' = Append(writeBuffer, r)
      BY <2>1, <2>2, <2>5, CancelledQueue DEF Respond
    <3>2. Len(served') \in Nat
      <4>1. IsSeq(served')
        BY <2>1, AppendIsSeq DEF CloseInv, SeqInv
      <4>2. QED BY <4>1 DEF IsSeq
    <3>3. r \in Responses
      BY <2>3, <3>2 DEF Responses
    <3> HIDE DEF r
    <3>4. writeBuffer' \in Seq(Responses) /\ Len(writeBuffer') = 1
      <4>1. Append(<<>>, r) \in Seq(Responses) /\ Len(Append(<<>>, r)) = 1
        BY <3>3
      <4>2. QED BY <3>1, <4>1
    <3>5. QED BY <2>1, <2>3, <3>4 DEF AnswerInv
  <2>6. QED BY <2>4, <2>5
<1>5. CASE StartTimer \/ StartRead \/ Client \/ UNCHANGED vars
  <2>1. UNCHANGED <<wire, writeBuffer, keepAlive>>
    BY <1>5 DEF StartTimer, StartRead, Client, ClientSend, ClientLeave, vars, dataVars
  <2>2. QED BY <1>1, <2>1
<1>6. CASE HandleReadError \/ HandleReadPartial \/ HandleReadThrow \/ HandleWriteError \/ HandleTimer
  <2>1. UNCHANGED <<wire, writeBuffer, keepAlive>>
    BY <1>6 DEF HandleReadError, HandleReadPartial, HandleReadThrow, HandleWriteError,
                HandleTimer, TakeIn, dataVars
  <2>2. QED BY <1>1, <2>1
<1>7. CASE ReadComplete \/ ReadFail("eof") \/ ReadFail("reset") \/ WriteFail \/ TimerExpire
  <2>1. UNCHANGED <<wire, writeBuffer, keepAlive>>
    BY <1>7 DEF ReadComplete, ReadFail, WriteFail, TimerExpire, dataVars
  <2>2. QED BY <1>1, <2>1
<1>8. QED BY <1>2, <1>3, <1>4, <1>5, <1>6, <1>7 DEF Next, Handler, Reactor

(* The variables of a session have their types in every behaviour, the     *)
(* requests that reach the handlers are messages, and _writeBuffer never   *)
(* holds more than the one response being written.                         *)
THEOREM SessionTypeCorrect == Spec => []TypeOK
<1>1. Inv => ControlTypeOK
  BY DEF Inv
<1>2. ReadInv /\ AnswerInv => DataTypeOK
  <2> SUFFICES ASSUME ReadInv, AnswerInv PROVE DataTypeOK
    OBVIOUS
  <2>1. /\ plan \in Plans /\ sent \in Nat /\ inbox \in Seq(Tokens) /\ Len(inbox) <= sent
        /\ request \in Requests /\ served \in Seq(Messages)
        /\ (sent - Len(inbox)) + Len(inbox) <= Len(Encoded(plan))
    BY DEF ReadInv, StreamInv, ServedInv, Holds
  <2>2. Len(inbox) \in Nat /\ Stream = Encoded(plan) /\ Len(Stream) \in Nat
    BY <2>1, PlanIs
  <2>3. sent \in 0 .. Len(Stream)
    BY <2>1, <2>2
  <2>4. request.state \in {"REQUEST_LINE", "HEADERS", "BODY", "FINISH"}
    BY <2>1 DEF Requests
  <2>5. QED BY <2>1, <2>3, <2>4 DEF AnswerInv, DataTypeOK
<1>3. QED BY <1>1, <1>2, InitAnswerInv, StepAnswerInv, AlwaysReadInv, PTL DEF Spec, TypeOK
=============================================================================
