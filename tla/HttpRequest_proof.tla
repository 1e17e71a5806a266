------------------------- MODULE HttpRequest_proof -------------------------
(***************************************************************************)
(* What the parser does with every input.  The loop of Parse is a          *)
(* recursive function, so its facts are proved by induction on the number  *)
(* of iterations.  Induction itself is the lemma NatInduct, about sets of  *)
(* numbers, which counting proves: were a number left out, adding one      *)
(* would map a finite set one to one into a smaller one.                   *)
(***************************************************************************)
EXTENDS HttpRequest, SequencesExt, FiniteSetTheorems, FunctionTheorems, SequenceTheorems,
        TLAPS

-----------------------------------------------------------------------------
(* Induction over the natural numbers.                                     *)
LEMMA NatInduct ==
    ASSUME NEW S, 0 \in S, \A n \in Nat : n \in S => n + 1 \in S
    PROVE  Nat \subseteq S
<1> SUFFICES ASSUME NEW n \in Nat, n \notin S PROVE FALSE
  OBVIOUS
<1> DEFINE T == S \cap (0 .. n)
           next == [k \in T |-> k + 1]
<1>1. IsFiniteSet(0 .. n) /\ T \subseteq 0 .. n
  BY FS_Interval
<1>2. IsFiniteSet(T) /\ Cardinality(T) \in Nat
  BY <1>1, FS_Subset, FS_CardinalityType
<1>3. 0 \in T
  OBVIOUS
<1>4. IsFiniteSet(T \ {0}) /\ Cardinality(T \ {0}) = Cardinality(T) - 1
  BY <1>2, <1>3, FS_RemoveElement
<1>5. \A k \in T : k + 1 \in T \ {0}
  <2>1. SUFFICES ASSUME NEW k \in T PROVE k + 1 \in T /\ k + 1 # 0
    OBVIOUS
  <2>2. k \in Nat /\ k <= n /\ k # n /\ k + 1 \in S
    OBVIOUS
  <2>3. QED BY <2>2
<1>6. \A k \in T : k \in Int
  OBVIOUS
<1> HIDE DEF T
<1>7. next \in Injection(T, T \ {0})
  BY <1>5, <1>6 DEF Injection, IsInjective
<1>8. Cardinality(T) <= Cardinality(T \ {0})
  BY <1>4, <1>7, FS_Injection
<1>9. QED BY <1>2, <1>4, <1>8

\* A set of numbers that is not empty has a least one.
LEMMA MinIs ==
    ASSUME NEW S, S \subseteq Nat, S # {}
    PROVE  Min(S) \in S /\ \A k \in S : Min(S) <= k
<1> DEFINE Below == {n \in Nat : \A k \in S : n <= k}
<1>1. \E m \in S : \A k \in S : m <= k
  <2>1. SUFFICES ASSUME \A m \in S : \E k \in S : ~(m <= k) PROVE FALSE
    OBVIOUS
  <2>2. 0 \in Below
    OBVIOUS
  <2>3. \A n \in Nat : n \in Below => n + 1 \in Below
    <3>1. SUFFICES ASSUME NEW n \in Nat, n \in Below, NEW k \in S PROVE n + 1 <= k
      OBVIOUS
    <3>2. n <= k /\ k \in Nat /\ n # k
      BY <2>1, <3>1
    <3>3. QED BY <3>2
  <2>4. Nat \subseteq Below
    <3> HIDE DEF Below
    <3>1. QED BY <2>2, <2>3, NatInduct
  <2>5. PICK k \in S : TRUE
    OBVIOUS
  <2>6. k \in Nat /\ k + 1 \in Below
    BY <2>4, <2>5
  <2>7. k + 1 <= k
    BY <2>6
  <2>8. QED BY <2>6, <2>7
<1>2. QED BY <1>1 DEF Min

-----------------------------------------------------------------------------
(* FindCRLF finds the first line end, and goes on finding it when more     *)
(* bytes arrive.                                                           *)
PairAt(buf, i) == i \in 1 .. Len(buf) - 1 /\ buf[i] = CR /\ buf[i + 1] = LF

LEMMA FindCRLFIs ==
    ASSUME NEW buf \in Seq(Tokens), NEW i, i = FindCRLF(buf)
    PROVE  /\ i \in Nat
           /\ i = 0 => \A k \in Nat : ~PairAt(buf, k)
           /\ i > 0 => PairAt(buf, i) /\ \A k \in Nat : PairAt(buf, k) => i <= k
<1> DEFINE at == {k \in 1 .. Len(buf) - 1 : buf[k] = CR /\ buf[k + 1] = LF}
<1>1. Len(buf) \in Nat /\ at \subseteq Nat /\ \A k : k \in at <=> PairAt(buf, k)
  BY DEF PairAt
<1>2. FindCRLF(buf) = IF at = {} THEN 0 ELSE Min(at)
  BY DEF FindCRLF
<1>3. 0 \notin at
  OBVIOUS
<1> HIDE DEF at
<1>4. CASE at = {}
  BY <1>1, <1>2, <1>4
<1>5. CASE at # {}
  <2>1. Min(at) \in at /\ \A k \in at : Min(at) <= k
    BY <1>1, <1>5, MinIs
  <2>2. Min(at) \in Nat /\ Min(at) # 0
    BY <1>1, <1>3, <2>1
  <2>3. QED BY <1>1, <1>2, <1>5, <2>1, <2>2
<1>6. QED BY <1>4, <1>5

\* The other way round: the index that has these properties.
LEMMA FirstCRLF ==
    ASSUME NEW buf \in Seq(Tokens), NEW i \in Nat, PairAt(buf, i),
           \A k \in 1 .. i - 1 : ~PairAt(buf, k)
    PROVE  FindCRLF(buf) = i
<1> DEFINE j == FindCRLF(buf)
<1>1. /\ j \in Nat /\ (j = 0 => \A k \in Nat : ~PairAt(buf, k))
      /\ j > 0 => PairAt(buf, j) /\ \A k \in Nat : PairAt(buf, k) => j <= k
  BY FindCRLFIs
<1> HIDE DEF j
<1>2. j > 0 /\ PairAt(buf, j) /\ j <= i
  BY <1>1
<1>3. QED BY <1>1, <1>2 DEF j

\* What is in front of a concatenation stays there.
LEMMA ConcatFront ==
    ASSUME NEW T, NEW a \in Seq(T), NEW b \in Seq(T)
    PROVE  /\ a \o b \in Seq(T) /\ Len(a \o b) = Len(a) + Len(b)
           /\ Len(a) \in Nat /\ Len(b) \in Nat
           /\ \A i \in 1 .. Len(a) : (a \o b)[i] = a[i]
           /\ \A i \in 1 .. Len(b) : (a \o b)[Len(a) + i] = b[i]
<1>1. Len(a) \in Nat /\ Len(b) \in Nat
  OBVIOUS
<1>2. \A i \in 1 .. Len(b) : Len(a) + i \in 1 .. Len(a) + Len(b) /\ ~(Len(a) + i <= Len(a))
  BY <1>1
<1>3. QED BY <1>1, <1>2, ConcatProperties

LEMMA JoinedIs ==
    ASSUME NEW T, NEW a \in Seq(T), NEW b \in Seq(T), NEW c, c = a \o b
    PROVE  /\ c \in Seq(T) /\ Len(c) = Len(a) + Len(b) /\ Len(a) \in Nat /\ Len(b) \in Nat
           /\ \A i \in 1 .. Len(a) : c[i] = a[i]
           /\ \A i \in 1 .. Len(b) : c[Len(a) + i] = b[i]
<1>1. QED BY ConcatFront

LEMMA FindCRLFConcat ==
    ASSUME NEW a \in Seq(Tokens), NEW b \in Seq(Tokens), FindCRLF(a) # 0
    PROVE  FindCRLF(a \o b) = FindCRLF(a)
<1> DEFINE i == FindCRLF(a)
<1>1. i \in Nat /\ PairAt(a, i) /\ \A k \in Nat : PairAt(a, k) => i <= k
  BY FindCRLFIs
<1> HIDE DEF i
<1>2. PairAt(a \o b, i) /\ \A k \in 1 .. i - 1 : PairAt(a \o b, k) => PairAt(a, k)
  BY <1>1, ConcatFront DEF PairAt
<1>3. \A k \in 1 .. i - 1 : ~PairAt(a \o b, k)
  BY <1>1, <1>2
<1>4. a \o b \in Seq(Tokens)
  BY ConcatFront
<1>5. FindCRLF(a \o b) = i
  BY <1>1, <1>2, <1>3, <1>4, FirstCRLF
<1>6. QED BY <1>5 DEF i

-----------------------------------------------------------------------------
(* The loop of Parse: what is left after n iterations.                     *)
Loop(req, buf) ==
    LET iter[n \in Nat] ==
          IF n = 0 THEN [req |-> req, buf |-> buf, ret |-> "loop"]
          ELSE CHOOSE t \in {ParseStep(s) : s \in {iter[n - 1]}} : TRUE
    IN  iter

At(req, buf) == [req |-> req, buf |-> buf, ret |-> "loop"]

\* The first n iterations from a state, as a function.
Steps(f, s, n) == f = [i \in 0 .. n |-> IF i = 0 THEN s ELSE ParseStep(f[i - 1])]

LEMMA StepsIs ==
    ASSUME NEW f, NEW s, NEW n \in Nat, Steps(f, s, n)
    PROVE  f[0] = s /\ \A i \in 0 .. n : i > 0 => f[i] = ParseStep(f[i - 1])
<1>1. QED BY DEF Steps

LEMMA StepsExist == \A s : \A n \in Nat : \E f : Steps(f, s, n)
<1> SUFFICES ASSUME NEW s PROVE \A n \in Nat : \E f : Steps(f, s, n)
  OBVIOUS
<1> DEFINE Have == {n \in Nat : \E f : Steps(f, s, n)}
<1>1. 0 \in Have
  <2> DEFINE f == [i \in 0 .. 0 |-> s]
  <2>1. f = [i \in 0 .. 0 |-> IF i = 0 THEN s ELSE ParseStep(f[i - 1])]
    OBVIOUS
  <2> HIDE DEF f
  <2>2. QED BY <2>1 DEF Steps
<1>2. \A n \in Nat : n \in Have => n + 1 \in Have
  <2>1. SUFFICES ASSUME NEW n \in Nat, n \in Have PROVE \E f : Steps(f, s, n + 1)
    OBVIOUS
  <2>2. PICK f : Steps(f, s, n)
    BY <2>1
  <2> DEFINE g == [i \in 0 .. n + 1 |-> IF i = n + 1 THEN ParseStep(f[n]) ELSE f[i]]
  <2>3. \A i \in 0 .. n : g[i] = f[i]
    OBVIOUS
  <2>4. g[n + 1] = ParseStep(g[n])
    OBVIOUS
  <2>5. \A i \in 0 .. n + 1 : g[i] = IF i = 0 THEN s ELSE ParseStep(g[i - 1])
    <3>1. f[0] = s /\ \A i \in 0 .. n : i > 0 => f[i] = ParseStep(f[i - 1])
      BY <2>2, StepsIs
    <3>2. ASSUME NEW i \in 0 .. n + 1
          PROVE  g[i] = IF i = 0 THEN s ELSE ParseStep(g[i - 1])
      <4>1. CASE i = n + 1
        BY <2>4, <4>1
      <4>2. CASE i # n + 1
        <5>1. i \in 0 .. n /\ (i > 0 => i - 1 \in 0 .. n) /\ (i = 0 \/ i > 0)
          BY <4>2
        <5> HIDE DEF g
        <5>2. QED BY <2>3, <3>1, <5>1
      <4>3. QED BY <4>1, <4>2
    <3>3. QED BY <3>2
  <2>6. g = [i \in 0 .. n + 1 |-> IF i = 0 THEN s ELSE ParseStep(g[i - 1])]
    <3>1. DOMAIN g = 0 .. n + 1 /\ g = [i \in DOMAIN g |-> g[i]]
      OBVIOUS
    <3> HIDE DEF g
    <3>2. QED BY <2>5, <3>1
  <2>7. QED
    <3> HIDE DEF g
    <3>1. QED BY <2>6 DEF Steps
<1> HIDE DEF Have
<1>3. Nat \subseteq Have
  BY <1>1, <1>2, NatInduct
<1>4. QED BY <1>3 DEF Have

LEMMA StepsUnique ==
    ASSUME NEW s, NEW m \in Nat, NEW n \in Nat, NEW f, NEW g, Steps(f, s, m), Steps(g, s, n)
    PROVE  \A i \in Nat : i <= m /\ i <= n => f[i] = g[i]
<1> DEFINE Same == {i \in Nat : i <= m /\ i <= n => f[i] = g[i]}
<1>1. 0 \in Same
  BY StepsIs
<1>2. ASSUME NEW i \in Nat, i \in Same PROVE i + 1 \in Same
  <2>1. SUFFICES ASSUME i + 1 <= m, i + 1 <= n PROVE f[i + 1] = g[i + 1]
    OBVIOUS
  <2>2. i + 1 \in 0 .. m /\ i + 1 \in 0 .. n /\ i + 1 > 0 /\ (i + 1) - 1 = i /\ f[i] = g[i]
    BY <1>2, <2>1
  <2>3. f[i + 1] = ParseStep(f[i]) /\ g[i + 1] = ParseStep(g[i])
    <3>1. /\ \A j \in 0 .. m : j > 0 => f[j] = ParseStep(f[j - 1])
          /\ \A j \in 0 .. n : j > 0 => g[j] = ParseStep(g[j - 1])
      BY StepsIs
    <3>2. f[i + 1] = ParseStep(f[(i + 1) - 1]) /\ g[i + 1] = ParseStep(g[(i + 1) - 1])
      BY <2>2, <3>1
    <3>3. QED BY <2>2, <3>2
  <2>4. QED BY <2>2, <2>3
<1> HIDE DEF Same
<1>3. Nat \subseteq Same
  BY <1>1, <1>2, NatInduct
<1>4. QED BY <1>3 DEF Same

\* The recursive function of Parse does what its definition says.
LEMMA LoopIs ==
    ASSUME NEW req, NEW buf
    PROVE  /\ Loop(req, buf)[0] = At(req, buf)
           /\ \A n \in Nat : Loop(req, buf)[n + 1] = ParseStep(Loop(req, buf)[n])
           /\ Parse(req, buf) = Loop(req, buf)[Len(buf) + 1]
<1> DEFINE s == At(req, buf)
           G(n) == CHOOSE f : Steps(f, s, n)
           F == [n \in Nat |-> G(n)[n]]
<1> HIDE DEF s
<1>1. \A n \in Nat : Steps(G(n), s, n)
  BY StepsExist
<1> HIDE DEF G
<1>2. F[0] = s
  BY <1>1, StepsIs
<1>3. ASSUME NEW n \in Nat PROVE F[n + 1] = ParseStep(F[n])
  <2>1. G(n + 1)[n + 1] = ParseStep(G(n + 1)[n])
    <3>1. \A i \in 0 .. n + 1 : i > 0 => G(n + 1)[i] = ParseStep(G(n + 1)[i - 1])
      BY <1>1, StepsIs
    <3>2. n + 1 \in 0 .. n + 1 /\ n + 1 > 0 /\ (n + 1) - 1 = n
      OBVIOUS
    <3>3. QED BY <3>1, <3>2
  <2>2. G(n + 1)[n] = G(n)[n]
    BY <1>1, StepsUnique
  <2>3. QED BY <2>1, <2>2
<1>4. \A x : (CHOOSE t \in {ParseStep(r) : r \in {x}} : TRUE) = ParseStep(x)
  <2>1. \A x : {ParseStep(r) : r \in {x}} = {ParseStep(x)}
    OBVIOUS
  <2>2. \A y : (CHOOSE t \in {y} : TRUE) = y
    OBVIOUS
  <2>3. QED BY <2>1, <2>2
<1>5. F = [n \in Nat |-> IF n = 0 THEN [req |-> req, buf |-> buf, ret |-> "loop"]
                         ELSE CHOOSE t \in {ParseStep(r) : r \in {F[n - 1]}} : TRUE]
  <2>1. \A n \in Nat : F[n] = IF n = 0 THEN s ELSE ParseStep(F[n - 1])
    <3>1. SUFFICES ASSUME NEW n \in Nat, n # 0 PROVE F[n] = ParseStep(F[n - 1])
      BY <1>2
    <3>2. n - 1 \in Nat /\ (n - 1) + 1 = n
      BY <3>1
    <3> HIDE DEF F
    <3>3. QED BY <1>3, <3>2
  <2>2. DOMAIN F = Nat /\ F = [n \in DOMAIN F |-> F[n]]
    OBVIOUS
  <2> HIDE DEF F
  <2>3. \A n \in Nat : F[n] = IF n = 0 THEN [req |-> req, buf |-> buf, ret |-> "loop"]
                              ELSE CHOOSE t \in {ParseStep(r) : r \in {F[n - 1]}} : TRUE
    BY <1>4, <2>1 DEF s, At
  <2>4. QED BY <2>2, <2>3
<1> HIDE DEF F
<1> DEFINE iter[n \in Nat] ==
             IF n = 0 THEN [req |-> req, buf |-> buf, ret |-> "loop"]
             ELSE CHOOSE t \in {ParseStep(r) : r \in {iter[n - 1]}} : TRUE
<1>6. iter = [n \in Nat |-> IF n = 0 THEN [req |-> req, buf |-> buf, ret |-> "loop"]
                            ELSE CHOOSE t \in {ParseStep(r) : r \in {iter[n - 1]}} : TRUE]
  BY <1>5
<1>7. Loop(req, buf) = iter
  BY DEF Loop
<1>8. Parse(req, buf) = iter[Len(buf) + 1]
  BY DEF Parse
<1> HIDE DEF iter
<1>9. iter[0] = s
  BY <1>6 DEF s, At
<1>10. ASSUME NEW n \in Nat PROVE iter[n + 1] = ParseStep(iter[n])
  <2>1. n + 1 \in Nat /\ n + 1 # 0 /\ (n + 1) - 1 = n
    OBVIOUS
  <2>2. iter[n + 1] = CHOOSE t \in {ParseStep(r) : r \in {iter[n]}} : TRUE
    BY <1>6, <2>1
  <2>3. QED BY <1>4, <2>2
<1>11. QED BY <1>7, <1>8, <1>9, <1>10 DEF s

(* What one iteration keeps, Parse keeps; the invariant is a set.          *)
LEMMA LoopInduct ==
    ASSUME NEW req, NEW buf, NEW I, At(req, buf) \in I, \A s \in I : ParseStep(s) \in I
    PROVE  \A n \in Nat : Loop(req, buf)[n] \in I
<1> DEFINE In == {n \in Nat : Loop(req, buf)[n] \in I}
<1>1. 0 \in In
  BY LoopIs
<1>2. ASSUME NEW n \in Nat, n \in In PROVE n + 1 \in In
  <2>1. Loop(req, buf)[n] \in I /\ Loop(req, buf)[n + 1] = ParseStep(Loop(req, buf)[n])
    BY <1>2, LoopIs
  <2>2. QED BY <2>1
<1> HIDE DEF In
<1>3. Nat \subseteq In
  BY <1>1, <1>2, NatInduct
<1>4. QED BY <1>3 DEF In

-----------------------------------------------------------------------------
(* The types of the parser: one iteration leaves a request and a buffer,   *)
(* a finished loop is left alone, and one that goes on has taken a line.   *)
Returns == {"false", "true", "throw"}
ParserStates == [req : Requests, buf : Seq(Tokens), ret : Returns \cup {"loop"}]

LEMMA TokenIs ==
    ASSUME NEW x \in Tokens
    PROVE  /\ x.t \in {"req", "noversion"} => x.method \in Methods
           /\ x.t = "req" => x.path \in Texts
           /\ x.t = "connection" => x.value \in Texts
           /\ x.t = "length" => x.value \in Nat \cup {NotANumber}
<1>1. QED BY DEF Tokens, CR, LF, Byte, Header

LEMMA RetrieveIs ==
    ASSUME NEW T, NEW buf \in Seq(T), NEW n \in 0 .. Len(buf)
    PROVE  /\ Retrieve(buf, n) \in Seq(T) /\ Len(Retrieve(buf, n)) = Len(buf) - n
           /\ \A i \in 1 .. Len(buf) - n : Retrieve(buf, n)[i] = buf[n + i]
           /\ SubSeq(buf, 1, n) \in Seq(T) /\ Len(SubSeq(buf, 1, n)) = n
           /\ \A i \in 1 .. n : SubSeq(buf, 1, n)[i] = buf[i]
<1>1. Len(buf) \in Nat /\ n \in Nat /\ \A i \in 1 .. Len(buf) : buf[i] \in T
  OBVIOUS
<1>2. /\ SubSeq(buf, n + 1, Len(buf)) \in Seq(T)
      /\ Len(SubSeq(buf, n + 1, Len(buf)))
           = IF n + 1 <= Len(buf) THEN Len(buf) - (n + 1) + 1 ELSE 0
      /\ \A i \in 1 .. Len(buf) - (n + 1) + 1 :
            SubSeq(buf, n + 1, Len(buf))[i] = buf[(n + 1) + i - 1]
  <2>1. n + 1 \in Int /\ Len(buf) \in Int /\ \A i \in n + 1 .. Len(buf) : buf[i] \in T
    BY <1>1
  <2>2. QED BY <2>1, SubSeqProperties
<1>3. /\ SubSeq(buf, 1, n) \in Seq(T)
      /\ Len(SubSeq(buf, 1, n)) = IF 1 <= n THEN n - 1 + 1 ELSE 0
      /\ \A i \in 1 .. n - 1 + 1 : SubSeq(buf, 1, n)[i] = buf[1 + i - 1]
  <2>1. 1 \in Int /\ n \in Int /\ \A i \in 1 .. n : buf[i] \in T
    BY <1>1
  <2>2. QED BY <2>1, SubSeqProperties
<1>4. Len(buf) - (n + 1) + 1 = Len(buf) - n /\ \A i \in 1 .. Len(buf) - n : (n + 1) + i - 1 = n + i
  BY <1>1
<1>5. /\ (IF n + 1 <= Len(buf) THEN Len(buf) - (n + 1) + 1 ELSE 0) = Len(buf) - n
      /\ (IF 1 <= n THEN n - 1 + 1 ELSE 0) = n /\ n - 1 + 1 = n
      /\ \A i \in 1 .. n : 1 + i - 1 = i
  BY <1>1
<1>6. QED BY <1>2, <1>3, <1>4, <1>5 DEF Retrieve

LEMMA LineIs ==
    ASSUME NEW line \in Seq(Tokens), NEW req \in Requests
    PROVE  /\ ParseRequestLine(req, line) \in Requests
           /\ line # <<>> => ParseHeader(req, line) \in Requests
           /\ ParseRequestLine(req, line).state = req.state
<1>1. line # <<>> => line[1] \in Tokens
  OBVIOUS
<1>2. HasMethod(line) => line[1].method \in Methods
  BY <1>1, TokenIs DEF HasMethod
<1>3. line # <<>> /\ line[1].t = "req" => line[1].path \in Texts
  BY <1>1, TokenIs
<1>4. IsRequestLine(line) => line # <<>>
  BY DEF IsRequestLine, HasMethod
<1>5. ParseRequestLine(req, line) \in Requests /\ ParseRequestLine(req, line).state = req.state
  <2> DEFINE m == IF HasMethod(line) THEN line[1].method ELSE "INVALID"
             p == CASE ~IsRequestLine(line) -> req.path
                    [] IsRequestLine(line) /\ line[1].t = "req" -> line[1].path
                    [] OTHER -> "glued"
  <2>1. m \in Methods \cup {"INVALID"}
    BY <1>2
  <2>2. p \in Texts
    <3>1. req.path \in Texts
      BY DEF Requests
    <3>2. CASE ~IsRequestLine(line)
      BY <3>1, <3>2
    <3>3. CASE IsRequestLine(line) /\ line[1].t = "req"
      BY <1>3, <1>4, <3>3
    <3>4. CASE IsRequestLine(line) /\ line[1].t # "req"
      <4>1. p = "glued"
        BY <3>4
      <4> HIDE DEF p
      <4>2. QED BY <4>1 DEF Texts
    <3>5. QED BY <3>2, <3>3, <3>4
  <2>3. ParseRequestLine(req, line) = [req EXCEPT !.method = m, !.path = p]
    BY DEF ParseRequestLine
  <2> HIDE DEF m, p
  <2>4. QED BY <2>1, <2>2, <2>3 DEF Requests
<1>6. line # <<>> => ParseHeader(req, line) \in Requests
  <2>1. /\ line # <<>> /\ line[1].t = "connection" => line[1].value \in Texts
        /\ line # <<>> /\ line[1].t = "length" => line[1].value \in Nat \cup {NotANumber}
    BY <1>1, TokenIs
  <2>2. CASE line[1].t = "connection"
    <3> DEFINE v == IF Len(line) = 1 THEN line[1].value ELSE "other"
    <3>1. ParseHeader(req, line) = [req EXCEPT !.connection = v]
      BY <2>2 DEF ParseHeader
    <3>2. line # <<>> => v \in Texts
      <4>1. v = line[1].value \/ v = "other"
        OBVIOUS
      <4> HIDE DEF v
      <4>2. "other" \in Texts
        BY DEF Texts
      <4>3. QED BY <2>1, <2>2, <4>1, <4>2
    <3> HIDE DEF v
    <3>3. QED BY <3>1, <3>2 DEF Requests
  <2>3. CASE line[1].t = "length"
    <3>1. ParseHeader(req, line) = [req EXCEPT !.length = line[1].value]
      BY <2>3 DEF ParseHeader
    <3>2. QED BY <2>1, <2>3, <3>1 DEF Requests
  <2>4. CASE line[1].t \notin {"connection", "length"}
    BY <2>4 DEF ParseHeader
  <2>5. QED BY <2>2, <2>3, <2>4
<1>7. QED BY <1>5, <1>6

\* The line end that was found, and what Retrieve leaves behind it.
LEMMA LineEnd ==
    ASSUME NEW buf \in Seq(Tokens), NEW i, i = FindCRLF(buf), i > 0
    PROVE  /\ i \in Nat /\ i + 1 \in 0 .. Len(buf) /\ i - 1 \in 0 .. Len(buf)
           /\ SubSeq(buf, 1, i - 1) \in Seq(Tokens) /\ Len(SubSeq(buf, 1, i - 1)) = i - 1
           /\ Retrieve(buf, i + 1) \in Seq(Tokens)
           /\ Len(Retrieve(buf, i + 1)) = Len(buf) - (i + 1)
<1>1. i \in Nat /\ PairAt(buf, i)
  BY FindCRLFIs
<1>2. i + 1 \in 0 .. Len(buf) /\ i - 1 \in 0 .. Len(buf)
  BY <1>1 DEF PairAt
<1>3. \A n \in 0 .. Len(buf) :
        /\ SubSeq(buf, 1, n) \in Seq(Tokens) /\ Len(SubSeq(buf, 1, n)) = n
        /\ Retrieve(buf, n) \in Seq(Tokens) /\ Len(Retrieve(buf, n)) = Len(buf) - n
  BY RetrieveIs, Zenon
<1>4. QED BY <1>1, <1>2, <1>3, Zenon

LEMMA OnRequestLineType ==
    ASSUME NEW s \in ParserStates, s.ret = "loop", s.req.state = "REQUEST_LINE"
    PROVE  /\ OnRequestLine(s) \in ParserStates
           /\ OnRequestLine(s).ret = "loop" => Len(OnRequestLine(s).buf) < Len(s.buf)
<1> DEFINE i == FindCRLF(s.buf)
           line == SubSeq(s.buf, 1, i - 1)
<1>1. s.req \in Requests /\ s.buf \in Seq(Tokens) /\ s.ret \in Returns \cup {"loop"}
      /\ s = [req |-> s.req, buf |-> s.buf, ret |-> s.ret]
  BY DEF ParserStates
<1>2. i \in Nat
  BY <1>1, FindCRLFIs
<1>3. CASE i = 0
  <2>1. OnRequestLine(s) = [s EXCEPT !.ret = "false"]
    BY <1>3 DEF OnRequestLine
  <2>2. QED BY <1>1, <2>1 DEF ParserStates, Returns
<1>4. CASE i > 0
  <2>1. /\ line \in Seq(Tokens) /\ Retrieve(s.buf, i + 1) \in Seq(Tokens)
        /\ Len(Retrieve(s.buf, i + 1)) = Len(s.buf) - (i + 1) /\ Len(s.buf) \in Nat
    BY <1>1, <1>4, LineEnd
  <2>2. ParseRequestLine(s.req, line) \in Requests
    BY <1>1, <2>1, LineIs
  <2>3. [ParseRequestLine(s.req, line) EXCEPT !.state = "HEADERS"] \in Requests
    BY <2>2 DEF Requests
  <2>4. CASE ~IsRequestLine(line)
    <3>1. OnRequestLine(s) = [s EXCEPT !.req = ParseRequestLine(s.req, line), !.ret = "false"]
      BY <1>2, <1>4, <2>4 DEF OnRequestLine
    <3>2. QED BY <1>1, <2>2, <3>1 DEF ParserStates, Returns
  <2>5. CASE IsRequestLine(line)
    <3>1. OnRequestLine(s) = [s EXCEPT !.req = [ParseRequestLine(s.req, line)
                                                  EXCEPT !.state = "HEADERS"],
                                       !.buf = Retrieve(s.buf, i + 1)]
      BY <1>2, <1>4, <2>5 DEF OnRequestLine
    <3>2. Len(Retrieve(s.buf, i + 1)) < Len(s.buf)
      BY <1>2, <2>1
    <3> HIDE DEF i, line
    <3>3. QED BY <1>1, <2>1, <2>3, <3>1, <3>2 DEF ParserStates
  <2>6. QED BY <2>4, <2>5
<1>5. QED BY <1>2, <1>3, <1>4

LEMMA OnHeadersType ==
    ASSUME NEW s \in ParserStates, s.ret = "loop", s.req.state = "HEADERS"
    PROVE  /\ OnHeaders(s) \in ParserStates
           /\ OnHeaders(s).ret = "loop" => Len(OnHeaders(s).buf) < Len(s.buf)
<1> DEFINE i == FindCRLF(s.buf)
           line == SubSeq(s.buf, 1, i - 1)
<1>1. s.req \in Requests /\ s.buf \in Seq(Tokens) /\ s.ret \in Returns \cup {"loop"}
      /\ s = [req |-> s.req, buf |-> s.buf, ret |-> s.ret]
  BY DEF ParserStates
<1>2. i \in Nat
  BY <1>1, FindCRLFIs
<1>3. CASE i = 0 \/ (i > 1 /\ ~IsHeader(line))
  <2>1. OnHeaders(s) = [s EXCEPT !.ret = "false"]
    BY <1>2, <1>3 DEF OnHeaders
  <2>2. QED BY <1>1, <2>1 DEF ParserStates, Returns
<1>4. CASE i = 1
  <2>1. OnHeaders(s) = OnBlankLine(s)
    BY <1>4 DEF OnHeaders
  <2>2. Retrieve(s.buf, 2) \in Seq(Tokens) /\ Len(Retrieve(s.buf, 2)) < Len(s.buf)
    <3>1. /\ Retrieve(s.buf, i + 1) \in Seq(Tokens) /\ Len(s.buf) \in Nat
          /\ Len(Retrieve(s.buf, i + 1)) = Len(s.buf) - (i + 1)
      BY <1>1, <1>4, LineEnd
    <3>2. i + 1 = 2
      BY <1>4
    <3>3. QED BY <3>1, <3>2
  <2>0. Absent # NotANumber
    BY DEF Absent, NotANumber
  <2>3. CASE s.req.length = Absent
    <3>1. [s.req EXCEPT !.state = "FINISH"] \in Requests
      BY <1>1 DEF Requests
    <3>2. OnBlankLine(s) = [req |-> [s.req EXCEPT !.state = "FINISH"],
                            buf |-> Retrieve(s.buf, 2), ret |-> "true"]
      BY <1>1, <2>0, <2>3 DEF OnBlankLine
    <3>3. QED BY <2>1, <2>2, <3>1, <3>2 DEF ParserStates, Returns
  <2>4. CASE s.req.length = NotANumber
    <3>1. OnBlankLine(s) = [req |-> s.req, buf |-> Retrieve(s.buf, 2), ret |-> "throw"]
      BY <1>1, <2>0, <2>4 DEF OnBlankLine
    <3>2. QED BY <1>1, <2>1, <2>2, <3>1 DEF ParserStates, Returns
  <2>5. CASE s.req.length \notin {Absent, NotANumber}
    <3>1. s.req.length \in Nat
      BY <1>1, <2>5 DEF Requests
    <3>2. [s.req EXCEPT !.contentLength = s.req.length, !.state = "BODY"] \in Requests
      BY <1>1, <3>1 DEF Requests
    <3>3. OnBlankLine(s) =
            [req |-> [s.req EXCEPT !.contentLength = s.req.length, !.state = "BODY"],
             buf |-> Retrieve(s.buf, 2), ret |-> s.ret]
      BY <1>1, <2>5 DEF OnBlankLine
    <3>4. QED BY <1>1, <2>1, <2>2, <3>2, <3>3 DEF ParserStates
  <2>6. QED BY <2>3, <2>4, <2>5
<1>5. CASE i > 1 /\ IsHeader(line)
  <2>1. /\ line \in Seq(Tokens) /\ Retrieve(s.buf, i + 1) \in Seq(Tokens) /\ Len(line) = i - 1
        /\ Len(Retrieve(s.buf, i + 1)) = Len(s.buf) - (i + 1) /\ Len(s.buf) \in Nat
    BY <1>1, <1>2, <1>5, LineEnd
  <2>2. line # <<>>
    BY <1>2, <1>5, <2>1
  <2>3. ParseHeader(s.req, line) \in Requests
    BY <1>1, <2>1, <2>2, LineIs
  <2>4. OnHeaders(s) = [s EXCEPT !.req = ParseHeader(s.req, line), !.buf = Retrieve(s.buf, i + 1)]
    BY <1>2, <1>5 DEF OnHeaders
  <2>5. Len(Retrieve(s.buf, i + 1)) < Len(s.buf)
    BY <1>2, <2>1
  <2> HIDE DEF i, line
  <2>6. QED BY <1>1, <2>1, <2>3, <2>4, <2>5 DEF ParserStates
<1>6. QED BY <1>2, <1>3, <1>4, <1>5

LEMMA OnBodyType ==
    ASSUME NEW s \in ParserStates, s.ret = "loop", s.req.state = "BODY"
    PROVE  OnBody(s) \in ParserStates /\ OnBody(s).ret # "loop"
<1> DEFINE n == s.req.contentLength
<1>1. /\ s.req \in Requests /\ s.buf \in Seq(Tokens) /\ n \in Nat /\ Len(s.buf) \in Nat
      /\ s = [req |-> s.req, buf |-> s.buf, ret |-> s.ret]
  BY DEF ParserStates, Requests
<1>2. CASE Len(s.buf) >= n
  <2>1. n \in 0 .. Len(s.buf)
    BY <1>1, <1>2
  <2>2. SubSeq(s.buf, 1, n) \in Seq(Tokens) /\ Retrieve(s.buf, n) \in Seq(Tokens)
    BY <1>1, <2>1, RetrieveIs
  <2>3. [s.req EXCEPT !.body = SubSeq(s.buf, 1, n), !.state = "FINISH"] \in Requests
    BY <1>1, <2>2 DEF Requests
  <2>4. OnBody(s) = [req |-> [s.req EXCEPT !.body = SubSeq(s.buf, 1, n), !.state = "FINISH"],
                     buf |-> Retrieve(s.buf, n), ret |-> "true"]
    BY <1>1, <1>2 DEF OnBody
  <2>5. QED BY <2>2, <2>3, <2>4 DEF ParserStates, Returns
<1>3. CASE ~(Len(s.buf) >= n)
  <2>1. OnBody(s) = [s EXCEPT !.ret = "false"]
    BY <1>3 DEF OnBody
  <2>2. QED BY <1>1, <2>1 DEF ParserStates, Returns
<1>4. QED BY <1>2, <1>3

LEMMA StepType ==
    ASSUME NEW s \in ParserStates
    PROVE  /\ ParseStep(s) \in ParserStates
           /\ s.ret # "loop" => ParseStep(s) = s
           /\ s.ret = "loop" /\ ParseStep(s).ret = "loop" => Len(ParseStep(s).buf) < Len(s.buf)
<1>1. s.req.state \in {"REQUEST_LINE", "HEADERS", "BODY", "FINISH"}
  BY DEF ParserStates, Requests
<1>2. CASE s.ret # "loop"
  BY <1>2 DEF ParseStep
<1>3. CASE s.ret = "loop" /\ s.req.state = "REQUEST_LINE"
  BY <1>3, OnRequestLineType DEF ParseStep
<1>4. CASE s.ret = "loop" /\ s.req.state = "HEADERS"
  BY <1>4, OnHeadersType DEF ParseStep
<1>5. CASE s.ret = "loop" /\ s.req.state = "BODY"
  BY <1>5, OnBodyType DEF ParseStep
<1>6. CASE s.ret = "loop" /\ s.req.state = "FINISH"
  <2>1. ParseStep(s) = [s EXCEPT !.ret = "true"]
    BY <1>6 DEF ParseStep
  <2>2. QED BY <1>6, <2>1 DEF ParserStates, Returns
<1>7. QED BY <1>1, <1>2, <1>3, <1>4, <1>5, <1>6

-----------------------------------------------------------------------------
(* The loop ends, for every iteration that goes on has taken something     *)
(* from the buffer.                                                        *)
LEMMA LoopType ==
    ASSUME NEW req \in Requests, NEW buf \in Seq(Tokens), NEW n \in Nat
    PROVE  /\ Loop(req, buf)[n] \in ParserStates
           /\ Loop(req, buf)[n].ret = "loop" => Len(Loop(req, buf)[n].buf) + n <= Len(buf)
<1> DEFINE L == Loop(req, buf)
           In == {m \in Nat : /\ L[m] \in ParserStates
                              /\ L[m].ret = "loop" => Len(L[m].buf) + m <= Len(buf)}
<1>1. L[0] = At(req, buf) /\ \A m \in Nat : L[m + 1] = ParseStep(L[m])
  BY LoopIs
<1> HIDE DEF L
<1>2. 0 \in In
  <2>1. At(req, buf) \in ParserStates /\ At(req, buf).buf = buf
    BY DEF At, ParserStates
  <2>2. QED BY <1>1, <2>1
<1>3. ASSUME NEW m \in Nat, m \in In PROVE m + 1 \in In
  <2>1. L[m] \in ParserStates /\ L[m + 1] = ParseStep(L[m])
    BY <1>1, <1>3
  <2>2. L[m + 1] \in ParserStates
    BY <2>1, StepType
  <2>3. ASSUME L[m + 1].ret = "loop" PROVE Len(L[m + 1].buf) + (m + 1) <= Len(buf)
    <3>1. L[m].ret = "loop"
      BY <2>1, <2>3, StepType
    <3>2. Len(L[m + 1].buf) < Len(L[m].buf) /\ Len(L[m].buf) + m <= Len(buf)
      BY <1>3, <2>1, <2>3, <3>1, StepType
    <3>3. Len(L[m + 1].buf) \in Nat /\ Len(L[m].buf) \in Nat /\ Len(buf) \in Nat
      BY <2>1, <2>2 DEF ParserStates
    <3>4. \A a, b, c \in Nat : a < b /\ b + m <= c => a + (m + 1) <= c
      OBVIOUS
    <3>5. QED BY <3>2, <3>3, <3>4
  <2>4. QED BY <2>2, <2>3
<1> HIDE DEF In
<1>4. Nat \subseteq In
  BY <1>2, <1>3, NatInduct
<1>5. QED BY <1>4 DEF In, L

(* Parse returns, or throws, whatever it is given, and never hangs in its  *)
(* loop (HttpRequest.cpp, the while of Parse); what it leaves is a request *)
(* and a buffer.                                                           *)
THEOREM ParseReturns ==
    ASSUME NEW req \in Requests, NEW buf \in Seq(Tokens)
    PROVE  /\ Parse(req, buf) \in ParserStates
           /\ Parse(req, buf).ret \in Returns
<1> DEFINE N == Len(buf) + 1
<1>1. N \in Nat /\ Len(buf) \in Nat /\ Parse(req, buf) = Loop(req, buf)[N]
  BY LoopIs
<1>2. /\ Parse(req, buf) \in ParserStates
      /\ Parse(req, buf).ret = "loop" => Len(Parse(req, buf).buf) + N <= Len(buf)
  BY <1>1, LoopType
<1>3. Len(Parse(req, buf).buf) \in Nat
  BY <1>2 DEF ParserStates
<1>4. Parse(req, buf).ret # "loop"
  <2>1. \A a, b \in Nat : ~(a + (b + 1) <= b)
    OBVIOUS
  <2>2. QED BY <1>1, <1>2, <1>3, <2>1
<1>5. QED BY <1>2, <1>4 DEF ParserStates

\* Once it has returned the loop stands still, at what Parse returns.
LEMMA LoopStays ==
    ASSUME NEW req \in Requests, NEW buf \in Seq(Tokens), NEW n \in Nat,
           Loop(req, buf)[n].ret # "loop"
    PROVE  \A m \in Nat : Loop(req, buf)[n + m] = Loop(req, buf)[n]
<1> DEFINE L == Loop(req, buf)
           In == {m \in Nat : L[n + m] = L[n]}
<1>1. /\ \A m \in Nat : L[m + 1] = ParseStep(L[m])
      /\ L[n].ret # "loop" /\ L[n] \in ParserStates
  BY LoopIs, LoopType
<1> HIDE DEF L
<1>2. 0 \in In
  OBVIOUS
<1>3. ASSUME NEW m \in Nat, m \in In PROVE m + 1 \in In
  <2>1. n + (m + 1) = (n + m) + 1 /\ n + m \in Nat /\ L[n + m] = L[n]
    BY <1>3
  <2>2. L[(n + m) + 1] = ParseStep(L[n])
    BY <1>1, <2>1
  <2>3. QED BY <1>1, <2>1, <2>2, StepType
<1> HIDE DEF In
<1>4. Nat \subseteq In
  BY <1>2, <1>3, NatInduct
<1>5. QED BY <1>4 DEF In, L

LEMMA LoopSettles ==
    ASSUME NEW req \in Requests, NEW buf \in Seq(Tokens), NEW n \in Nat,
           Loop(req, buf)[n].ret # "loop"
    PROVE  Loop(req, buf)[n] = Parse(req, buf)
<1> DEFINE N == Len(buf) + 1
<1>1. N \in Nat /\ Parse(req, buf) = Loop(req, buf)[N] /\ Parse(req, buf).ret # "loop"
  <2>1. Parse(req, buf).ret \in Returns
    BY ParseReturns
  <2>2. Parse(req, buf).ret # "loop"
    BY <2>1 DEF Returns
  <2>3. N \in Nat /\ Parse(req, buf) = Loop(req, buf)[N]
    BY LoopIs
  <2>4. QED BY <2>2, <2>3
<1> HIDE DEF N
<1>2. CASE n <= N
  <2>1. N - n \in Nat /\ n + (N - n) = N
    BY <1>1, <1>2
  <2>2. Loop(req, buf)[n + (N - n)] = Loop(req, buf)[n]
    BY <2>1, LoopStays
  <2>3. QED BY <1>1, <2>1, <2>2
<1>3. CASE N <= n
  <2>1. n - N \in Nat /\ N + (n - N) = n
    BY <1>1, <1>3
  <2>2. Loop(req, buf)[N].ret # "loop"
    BY <1>1, Zenon
  <2>3. \A m \in Nat : Loop(req, buf)[N + m] = Loop(req, buf)[N]
    BY <1>1, <2>2, LoopStays, Zenon
  <2>4. Loop(req, buf)[N + (n - N)] = Loop(req, buf)[N]
    BY <2>1, <2>3, Zenon
  <2>5. QED BY <1>1, <2>1, <2>4, Zenon
<1>4. QED BY <1>1, <1>2, <1>3

-----------------------------------------------------------------------------
(* More bytes behind those there are.                                      *)
LEMMA MoreRetrieve ==
    ASSUME NEW T, NEW buf \in Seq(T), NEW x \in Seq(T), NEW n \in 0 .. Len(buf)
    PROVE  /\ SubSeq(buf \o x, 1, n) = SubSeq(buf, 1, n)
           /\ Retrieve(buf \o x, n) = Retrieve(buf, n) \o x
<1> DEFINE c == buf \o x
           r == Retrieve(buf, n)
<1>1. /\ Len(buf) \in Nat /\ Len(x) \in Nat /\ c \in Seq(T) /\ Len(c) = Len(buf) + Len(x)
      /\ \A i \in 1 .. Len(buf) : c[i] = buf[i]
      /\ \A i \in 1 .. Len(x) : c[Len(buf) + i] = x[i]
  BY ConcatFront
<1>2. n \in Nat /\ n \in 0 .. Len(c)
  BY <1>1
<1>3. /\ r \in Seq(T) /\ Len(r) = Len(buf) - n
      /\ \A i \in 1 .. Len(buf) - n : r[i] = buf[n + i]
      /\ SubSeq(buf, 1, n) \in Seq(T) /\ Len(SubSeq(buf, 1, n)) = n
      /\ \A i \in 1 .. n : SubSeq(buf, 1, n)[i] = buf[i]
  BY RetrieveIs
<1>4. /\ Retrieve(c, n) \in Seq(T) /\ Len(Retrieve(c, n)) = Len(c) - n
      /\ \A i \in 1 .. Len(c) - n : Retrieve(c, n)[i] = c[n + i]
      /\ SubSeq(c, 1, n) \in Seq(T) /\ Len(SubSeq(c, 1, n)) = n
      /\ \A i \in 1 .. n : SubSeq(c, 1, n)[i] = c[i]
  <2> HIDE DEF c
  <2>1. QED BY <1>1, <1>2, RetrieveIs
<1>5. /\ r \o x \in Seq(T) /\ Len(r \o x) = Len(r) + Len(x)
      /\ \A i \in 1 .. Len(r) : (r \o x)[i] = r[i]
      /\ \A i \in 1 .. Len(x) : (r \o x)[Len(r) + i] = x[i]
  <2>1. r \in Seq(T) /\ x \in Seq(T)
    BY <1>3
  <2> HIDE DEF r
  <2>2. QED BY <2>1, ConcatFront
<1> HIDE DEF c, r
<1>6. SubSeq(c, 1, n) = SubSeq(buf, 1, n)
  <2>1. \A i \in 1 .. n : SubSeq(c, 1, n)[i] = SubSeq(buf, 1, n)[i]
    BY <1>1, <1>2, <1>3, <1>4
  <2>2. QED BY <1>3, <1>4, <2>1, SeqEqual
<1>7. Retrieve(c, n) = r \o x
  <2>1. Len(Retrieve(c, n)) = Len(r \o x)
    BY <1>1, <1>2, <1>3, <1>4, <1>5
  <2>2. ASSUME NEW i \in 1 .. Len(Retrieve(c, n)) PROVE Retrieve(c, n)[i] = (r \o x)[i]
    <3>1. i \in 1 .. Len(c) - n /\ Retrieve(c, n)[i] = c[n + i]
      BY <1>1, <1>2, <1>4
    <3>2. CASE i <= Len(buf) - n
      <4>1. i \in 1 .. Len(r) /\ i \in 1 .. Len(buf) - n /\ n + i \in 1 .. Len(buf)
        BY <1>1, <1>2, <1>3, <3>1, <3>2
      <4>2. QED BY <1>1, <1>3, <1>5, <3>1, <4>1
    <3>3. CASE ~(i <= Len(buf) - n)
      <4> DEFINE k == i - (Len(buf) - n)
      <4>1. k \in 1 .. Len(x) /\ n + i = Len(buf) + k /\ i = Len(r) + k
        BY <1>1, <1>2, <1>3, <3>1, <3>3
      <4> HIDE DEF k
      <4>2. QED BY <1>1, <1>5, <3>1, <4>1
    <3>4. QED BY <3>2, <3>3
  <2>3. QED BY <1>4, <1>5, <2>1, <2>2, SeqEqual
<1>8. QED BY <1>6, <1>7 DEF c, r

(* The iterations, case by case.                                           *)
Left(req, buf, ret) == [req |-> req, buf |-> buf, ret |-> ret]

LineOf(buf) == SubSeq(buf, 1, FindCRLF(buf) - 1)

LEMMA OnRequestLineIs ==
    ASSUME NEW req, NEW buf \in Seq(Tokens), req.state = "REQUEST_LINE"
    PROVE  /\ FindCRLF(buf) = 0 => ParseStep(At(req, buf)) = Left(req, buf, "false")
           /\ FindCRLF(buf) > 0 /\ ~IsRequestLine(LineOf(buf)) =>
                ParseStep(At(req, buf)) = Left(ParseRequestLine(req, LineOf(buf)), buf, "false")
           /\ FindCRLF(buf) > 0 /\ IsRequestLine(LineOf(buf)) =>
                ParseStep(At(req, buf)) =
                  Left([ParseRequestLine(req, LineOf(buf)) EXCEPT !.state = "HEADERS"],
                       Retrieve(buf, FindCRLF(buf) + 1), "loop")
<1> DEFINE s == At(req, buf)
           i == FindCRLF(buf)
           line == SubSeq(buf, 1, i - 1)
<1>1. s.req = req /\ s.buf = buf /\ s.ret = "loop" /\ s = Left(req, buf, "loop")
  BY DEF At, Left
<1>2. i \in Nat
  BY FindCRLFIs
<1> HIDE DEF s
<1>3. ParseStep(s) = OnRequestLine(s)
  BY <1>1 DEF ParseStep
<1>4. ASSUME i = 0 PROVE OnRequestLine(s) = Left(req, buf, "false")
  <2>1. OnRequestLine(s) = [s EXCEPT !.ret = "false"]
    BY <1>1, <1>4 DEF OnRequestLine
  <2>2. QED BY <1>1, <2>1 DEF Left
<1>5. ASSUME i > 0, ~IsRequestLine(line)
      PROVE  OnRequestLine(s) = Left(ParseRequestLine(req, line), buf, "false")
  <2>1. OnRequestLine(s) = [s EXCEPT !.req = ParseRequestLine(req, line), !.ret = "false"]
    BY <1>1, <1>2, <1>5 DEF OnRequestLine
  <2>2. QED BY <1>1, <2>1 DEF Left
<1>6. ASSUME i > 0, IsRequestLine(line)
      PROVE  OnRequestLine(s) = Left([ParseRequestLine(req, line) EXCEPT !.state = "HEADERS"],
                                     Retrieve(buf, i + 1), "loop")
  <2>1. OnRequestLine(s) = [s EXCEPT !.req = [ParseRequestLine(req, line)
                                                EXCEPT !.state = "HEADERS"],
                                     !.buf = Retrieve(buf, i + 1)]
    BY <1>1, <1>2, <1>6 DEF OnRequestLine
  <2>2. QED BY <1>1, <2>1 DEF Left
<1>7. line = LineOf(buf)
  BY DEF LineOf
<1> HIDE DEF i, line
<1>8. QED BY <1>2, <1>3, <1>4, <1>5, <1>6, <1>7 DEF s, i

LEMMA OnHeadersIs ==
    ASSUME NEW req, NEW buf \in Seq(Tokens), req.state = "HEADERS"
    PROVE  /\ FindCRLF(buf) = 0 \/ (FindCRLF(buf) > 1 /\ ~IsHeader(LineOf(buf))) =>
                ParseStep(At(req, buf)) = Left(req, buf, "false")
           /\ FindCRLF(buf) > 1 /\ IsHeader(LineOf(buf)) =>
                ParseStep(At(req, buf)) =
                  Left(ParseHeader(req, LineOf(buf)), Retrieve(buf, FindCRLF(buf) + 1), "loop")
           /\ FindCRLF(buf) = 1 /\ req.length = Absent =>
                ParseStep(At(req, buf)) =
                  Left([req EXCEPT !.state = "FINISH"], Retrieve(buf, 2), "true")
           /\ FindCRLF(buf) = 1 /\ req.length = NotANumber =>
                ParseStep(At(req, buf)) = Left(req, Retrieve(buf, 2), "throw")
           /\ FindCRLF(buf) = 1 /\ req.length \notin {Absent, NotANumber} =>
                ParseStep(At(req, buf)) =
                  Left([req EXCEPT !.contentLength = req.length, !.state = "BODY"],
                       Retrieve(buf, 2), "loop")
<1> DEFINE s == At(req, buf)
           i == FindCRLF(buf)
           line == SubSeq(buf, 1, i - 1)
<1>1. s.req = req /\ s.buf = buf /\ s.ret = "loop" /\ s = Left(req, buf, "loop")
  BY DEF At, Left
<1>2. i \in Nat
  BY FindCRLFIs
<1> HIDE DEF s
<1>3. ParseStep(s) = OnHeaders(s)
  BY <1>1 DEF ParseStep
<1>4. ASSUME i = 0 \/ (i > 1 /\ ~IsHeader(line)) PROVE OnHeaders(s) = Left(req, buf, "false")
  <2>1. OnHeaders(s) = [s EXCEPT !.ret = "false"]
    BY <1>1, <1>2, <1>4 DEF OnHeaders
  <2>2. QED BY <1>1, <2>1 DEF Left
<1>5. ASSUME i > 1, IsHeader(line)
      PROVE  OnHeaders(s) = Left(ParseHeader(req, line), Retrieve(buf, i + 1), "loop")
  <2>1. OnHeaders(s) = [s EXCEPT !.req = ParseHeader(req, line), !.buf = Retrieve(buf, i + 1)]
    BY <1>1, <1>2, <1>5 DEF OnHeaders
  <2>2. QED BY <1>1, <2>1 DEF Left
<1>6. i = 1 => OnHeaders(s) = OnBlankLine(s)
  BY <1>1 DEF OnHeaders
<1>7. Absent # NotANumber
  BY DEF Absent, NotANumber
<1>8. ASSUME req.length = Absent
      PROVE  OnBlankLine(s) = Left([req EXCEPT !.state = "FINISH"], Retrieve(buf, 2), "true")
  BY <1>1, <1>7, <1>8 DEF OnBlankLine, Left
<1>9. ASSUME req.length = NotANumber
      PROVE  OnBlankLine(s) = Left(req, Retrieve(buf, 2), "throw")
  BY <1>1, <1>7, <1>9 DEF OnBlankLine, Left
<1>10. ASSUME req.length \notin {Absent, NotANumber}
       PROVE  OnBlankLine(s) =
                Left([req EXCEPT !.contentLength = req.length, !.state = "BODY"],
                     Retrieve(buf, 2), "loop")
  BY <1>1, <1>10 DEF OnBlankLine, Left
<1>11. line = LineOf(buf)
  BY DEF LineOf
<1> HIDE DEF i, line
<1>12. QED BY <1>2, <1>3, <1>4, <1>5, <1>6, <1>8, <1>9, <1>10, <1>11 DEF s, i

LEMMA OnBodyIs ==
    ASSUME NEW req, NEW buf, req.state = "BODY", NEW n, n = req.contentLength
    PROVE  /\ Len(buf) >= n =>
                ParseStep(At(req, buf)) =
                  Left([req EXCEPT !.body = SubSeq(buf, 1, n), !.state = "FINISH"],
                       Retrieve(buf, n), "true")
           /\ ~(Len(buf) >= n) => ParseStep(At(req, buf)) = Left(req, buf, "false")
<1> DEFINE s == At(req, buf)
<1>1. s.req = req /\ s.buf = buf /\ s.ret = "loop" /\ s = Left(req, buf, "loop")
  BY DEF At, Left
<1> HIDE DEF s
<1>2. ParseStep(s) = OnBody(s)
  BY <1>1 DEF ParseStep
<1>3. Len(buf) >= n => OnBody(s) = Left([req EXCEPT !.body = SubSeq(buf, 1, n),
                                                    !.state = "FINISH"],
                                        Retrieve(buf, n), "true")
  BY <1>1 DEF OnBody, Left
<1>4. ~(Len(buf) >= n) => OnBody(s) = Left(req, buf, "false")
  BY <1>1 DEF OnBody, Left
<1>5. QED BY <1>2, <1>3, <1>4 DEF s

LEMMA OnBodyTakes ==
    ASSUME NEW req, NEW buf, req.state = "BODY", Len(buf) >= req.contentLength
    PROVE  ParseStep(At(req, buf)) =
             Left([req EXCEPT !.body = SubSeq(buf, 1, req.contentLength), !.state = "FINISH"],
                  Retrieve(buf, req.contentLength), "true")
<1>1. QED BY OnBodyIs

\* A line that was found is found again.
LEMMA MoreLine ==
    ASSUME NEW buf \in Seq(Tokens), NEW x \in Seq(Tokens), FindCRLF(buf) > 0
    PROVE  /\ FindCRLF(buf \o x) = FindCRLF(buf) /\ LineOf(buf \o x) = LineOf(buf)
           /\ Retrieve(buf \o x, FindCRLF(buf) + 1) = Retrieve(buf, FindCRLF(buf) + 1) \o x
<1> DEFINE i == FindCRLF(buf)
<1>1. i \in Nat /\ i + 1 \in 0 .. Len(buf) /\ i - 1 \in 0 .. Len(buf)
  BY LineEnd
<1>2. i # 0
  BY <1>1
<1>3. FindCRLF(buf \o x) = i
  BY <1>2, FindCRLFConcat
<1>4. /\ SubSeq(buf \o x, 1, i - 1) = SubSeq(buf, 1, i - 1)
      /\ Retrieve(buf \o x, i + 1) = Retrieve(buf, i + 1) \o x
  BY <1>1, MoreRetrieve
<1>5. QED BY <1>1, <1>3, <1>4 DEF LineOf

(* With more bytes an iteration does the same; one that had to wait does   *)
(* now what it would have done at once.                                    *)
SameWithMore(req, buf, x, t) ==
    /\ t.ret # "false" => ParseStep(At(req, buf \o x)) = Left(t.req, t.buf \o x, t.ret)
    /\ t.ret = "false" => ParseStep(At(req, buf \o x)) = ParseStep(At(t.req, t.buf \o x))

\* The two ways in which this comes about.
LEMMA Waits ==
    ASSUME NEW req, NEW buf, NEW x, ParseStep(At(req, buf)) = Left(req, buf, "false")
    PROVE  SameWithMore(req, buf, x, ParseStep(At(req, buf)))
<1>1. QED BY DEF SameWithMore, Left

LEMMA GoesOn ==
    ASSUME NEW req, NEW buf, NEW x, NEW r, NEW b, NEW c, NEW ret, ret # "false",
           ParseStep(At(req, buf)) = Left(r, b, ret),
           ParseStep(At(req, buf \o x)) = Left(r, c, ret), c = b \o x
    PROVE  SameWithMore(req, buf, x, ParseStep(At(req, buf)))
<1>1. Left(r, b, ret).req = r /\ Left(r, b, ret).buf = b /\ Left(r, b, ret).ret = ret
  BY DEF Left
<1>2. QED BY <1>1 DEF SameWithMore

LEMMA RequestLineMore ==
    ASSUME NEW req \in Requests, NEW buf \in Seq(Tokens), NEW x \in Seq(Tokens),
           req.state = "REQUEST_LINE"
    PROVE  SameWithMore(req, buf, x, ParseStep(At(req, buf)))
<1> DEFINE i == FindCRLF(buf)
           line == LineOf(buf)
           more == buf \o x
<1>1. i \in Nat /\ more \in Seq(Tokens)
  BY FindCRLFIs, ConcatFront
<1>2. CASE i = 0
  BY <1>2, OnRequestLineIs, Waits
<1>3. CASE i > 0
  <2>1. /\ FindCRLF(more) = i /\ LineOf(more) = line
        /\ Retrieve(more, i + 1) = Retrieve(buf, i + 1) \o x
    BY <1>3, MoreLine
  <2>2. CASE IsRequestLine(line)
    <3> DEFINE r == [ParseRequestLine(req, line) EXCEPT !.state = "HEADERS"]
    <3>1. ParseStep(At(req, buf)) = Left(r, Retrieve(buf, i + 1), "loop")
      BY <1>3, <2>2, OnRequestLineIs
    <3>2. ParseStep(At(req, more)) = Left(r, Retrieve(more, i + 1), "loop")
      <4> HIDE DEF i, line, more
      <4>1. QED BY <1>1, <1>3, <2>1, <2>2, OnRequestLineIs
    <3> HIDE DEF r, i
    <3>3. QED BY <2>1, <3>1, <3>2, GoesOn
  <2>3. CASE ~IsRequestLine(line)
    <3> DEFINE r == ParseRequestLine(req, line)
    <3>1. ParseStep(At(req, buf)) = Left(r, buf, "false")
      BY <1>3, <2>3, OnRequestLineIs
    <3>2. r.state = "REQUEST_LINE" /\ r \in Requests
      BY <1>3, LineEnd, LineIs DEF LineOf
    <3>3. ParseRequestLine(r, line) = r
      <4>1. \A q : ParseRequestLine(q, line) =
                     [q EXCEPT !.method = IF HasMethod(line) THEN line[1].method ELSE "INVALID",
                               !.path = q.path]
        BY <2>3 DEF ParseRequestLine
      <4>2. r = [req EXCEPT !.method = IF HasMethod(line) THEN line[1].method ELSE "INVALID",
                            !.path = req.path]
        BY <4>1
      <4>3. ParseRequestLine(r, line) =
              [r EXCEPT !.method = IF HasMethod(line) THEN line[1].method ELSE "INVALID",
                        !.path = r.path]
        BY <4>1
      <4> HIDE DEF r, line
      <4>4. QED BY <3>2, <4>2, <4>3 DEF Requests
    <3> HIDE DEF r
    <3>4. /\ ParseStep(At(req, more)) = Left(r, more, "false")
          /\ ParseStep(At(r, more)) = Left(r, more, "false")
      <4>1. ParseRequestLine(req, line) = r
        BY DEF r
      <4> HIDE DEF i, line, more
      <4>2. QED BY <1>1, <1>3, <2>1, <2>3, <3>2, <3>3, <4>1, OnRequestLineIs
    <3>5. Left(r, buf, "false").req = r /\ Left(r, buf, "false").buf = buf
          /\ Left(r, buf, "false").ret = "false"
      BY DEF Left
    <3>6. QED BY <3>1, <3>4, <3>5 DEF SameWithMore
  <2>4. QED BY <2>2, <2>3
<1>4. QED BY <1>1, <1>2, <1>3

LEMMA HeadersMore ==
    ASSUME NEW req \in Requests, NEW buf \in Seq(Tokens), NEW x \in Seq(Tokens),
           req.state = "HEADERS"
    PROVE  SameWithMore(req, buf, x, ParseStep(At(req, buf)))
<1> DEFINE i == FindCRLF(buf)
           line == LineOf(buf)
           more == buf \o x
<1>1. i \in Nat /\ more \in Seq(Tokens)
  BY FindCRLFIs, ConcatFront
<1>2. CASE i = 0 \/ (i > 1 /\ ~IsHeader(line))
  BY <1>2, OnHeadersIs, Waits
<1>3. CASE i = 1 \/ (i > 1 /\ IsHeader(line))
  <2>1. /\ FindCRLF(more) = i /\ LineOf(more) = line
        /\ Retrieve(more, i + 1) = Retrieve(buf, i + 1) \o x
    BY <1>1, <1>3, MoreLine
  <2>2. i = 1 => i + 1 = 2
    OBVIOUS
  <2> HIDE DEF i, line, more
  <2>3. CASE i > 1 /\ IsHeader(line)
    <3>1. ParseStep(At(req, buf)) = Left(ParseHeader(req, line), Retrieve(buf, i + 1), "loop")
      BY <2>3, OnHeadersIs DEF i, line
    <3>2. ParseStep(At(req, more)) = Left(ParseHeader(req, line), Retrieve(more, i + 1), "loop")
      BY <1>1, <2>1, <2>3, OnHeadersIs
    <3>3. QED BY <2>1, <3>1, <3>2, GoesOn DEF more
  <2>4. CASE i = 1 /\ req.length = Absent
    <3> DEFINE r == [req EXCEPT !.state = "FINISH"]
    <3>1. ParseStep(At(req, buf)) = Left(r, Retrieve(buf, 2), "true")
      BY <2>4, OnHeadersIs DEF i
    <3>2. ParseStep(At(req, more)) = Left(r, Retrieve(more, 2), "true")
      BY <1>1, <2>1, <2>4, OnHeadersIs
    <3> HIDE DEF r
    <3>3. QED BY <2>1, <2>2, <2>4, <3>1, <3>2, GoesOn DEF more
  <2>5. CASE i = 1 /\ req.length = NotANumber
    <3>1. ParseStep(At(req, buf)) = Left(req, Retrieve(buf, 2), "throw")
      BY <2>5, OnHeadersIs DEF i
    <3>2. ParseStep(At(req, more)) = Left(req, Retrieve(more, 2), "throw")
      BY <1>1, <2>1, <2>5, OnHeadersIs
    <3>3. QED BY <2>1, <2>2, <2>5, <3>1, <3>2, GoesOn DEF more
  <2>6. CASE i = 1 /\ req.length \notin {Absent, NotANumber}
    <3> DEFINE r == [req EXCEPT !.contentLength = req.length, !.state = "BODY"]
    <3>1. ParseStep(At(req, buf)) = Left(r, Retrieve(buf, 2), "loop")
      BY <2>6, OnHeadersIs DEF i
    <3>2. ParseStep(At(req, more)) = Left(r, Retrieve(more, 2), "loop")
      BY <1>1, <2>1, <2>6, OnHeadersIs
    <3> HIDE DEF r
    <3>3. QED BY <2>1, <2>2, <2>6, <3>1, <3>2, GoesOn DEF more
  <2>7. QED BY <1>3, <2>3, <2>4, <2>5, <2>6
<1>4. QED BY <1>1, <1>2, <1>3

LEMMA BodyMore ==
    ASSUME NEW req \in Requests, NEW buf \in Seq(Tokens), NEW x \in Seq(Tokens),
           req.state = "BODY"
    PROVE  SameWithMore(req, buf, x, ParseStep(At(req, buf)))
<1> DEFINE n == req.contentLength
<1>1. /\ n \in Nat /\ Len(buf) \in Nat /\ Len(x) \in Nat
      /\ Len(buf \o x) = Len(buf) + Len(x)
  BY ConcatFront DEF Requests
<1>2. CASE ~(Len(buf) >= n)
  BY <1>2, OnBodyIs, Waits
<1>3. CASE Len(buf) >= n
  <2> DEFINE r == [req EXCEPT !.body = SubSeq(buf, 1, n), !.state = "FINISH"]
  <2>1. n \in 0 .. Len(buf) /\ Len(buf \o x) >= n
    BY <1>1, <1>3
  <2>2. /\ SubSeq(buf \o x, 1, n) = SubSeq(buf, 1, n)
        /\ Retrieve(buf \o x, n) = Retrieve(buf, n) \o x
    BY <2>1, MoreRetrieve
  <2>3. ParseStep(At(req, buf)) = Left(r, Retrieve(buf, n), "true")
    BY <1>3, OnBodyIs
  <2>4. ParseStep(At(req, buf \o x)) = Left(r, Retrieve(buf \o x, n), "true")
    <3>1. ParseStep(At(req, buf \o x)) =
            Left([req EXCEPT !.body = SubSeq(buf \o x, 1, n), !.state = "FINISH"],
                 Retrieve(buf \o x, n), "true")
      BY <2>1, OnBodyIs
    <3>2. QED BY <2>2, <3>1
  <2> HIDE DEF r, n
  <2>5. QED BY <2>2, <2>3, <2>4, GoesOn
<1>4. QED BY <1>2, <1>3

LEMMA StepMore ==
    ASSUME NEW req \in Requests, NEW buf \in Seq(Tokens), NEW x \in Seq(Tokens)
    PROVE  SameWithMore(req, buf, x, ParseStep(At(req, buf)))
<1>1. req.state \in {"REQUEST_LINE", "HEADERS", "BODY", "FINISH"}
  BY DEF Requests
<1>2. CASE req.state = "FINISH"
  <2>1. ASSUME NEW b PROVE ParseStep(At(req, b)) = Left(req, b, "true")
    <3>1. At(req, b).req = req /\ At(req, b).ret = "loop" /\ At(req, b).buf = b
      BY DEF At
    <3>2. ParseStep(At(req, b)) = [At(req, b) EXCEPT !.ret = "true"]
      BY <1>2, <3>1 DEF ParseStep
    <3>3. QED BY <3>2 DEF At, Left
  <2>2. QED BY <2>1, GoesOn
<1>3. QED BY <1>1, <1>2, RequestLineMore, HeadersMore, BodyMore

(* The loop over all the bytes does what the loop over the first of them   *)
(* did, as far as that one went.                                           *)
Follows(req, buf, x, s) ==
    /\ s.ret = "false" =>
         \E j \in Nat : Loop(req, buf \o x)[j] = ParseStep(At(s.req, s.buf \o x))
    /\ s.ret \in {"true", "throw"} =>
         \E j \in Nat : Loop(req, buf \o x)[j] = Left(s.req, s.buf \o x, s.ret)

LEMMA LoopMore ==
    ASSUME NEW req \in Requests, NEW buf \in Seq(Tokens), NEW x \in Seq(Tokens), NEW n \in Nat
    PROVE  Follows(req, buf, x, Loop(req, buf)[n])
<1> DEFINE L == Loop(req, buf)
           C == Loop(req, buf \o x)
           In == {m \in Nat : /\ Follows(req, buf, x, L[m])
                              /\ L[m].ret = "loop" => C[m] = At(L[m].req, L[m].buf \o x)}
<1>1. /\ L[0] = At(req, buf) /\ C[0] = At(req, buf \o x)
      /\ \A m \in Nat : L[m] \in ParserStates /\ L[m + 1] = ParseStep(L[m])
      /\ \A m \in Nat : C[m + 1] = ParseStep(C[m])
  BY LoopIs, LoopType
<1>2. \A s : Follows(req, buf, x, s) <=>
        /\ s.ret = "false" => \E j \in Nat : C[j] = ParseStep(At(s.req, s.buf \o x))
        /\ s.ret \in {"true", "throw"} => \E j \in Nat : C[j] = Left(s.req, s.buf \o x, s.ret)
  BY DEF Follows
<1> HIDE DEF L, C
<1>3. 0 \in In
  <2>1. At(req, buf).req = req /\ At(req, buf).buf = buf /\ At(req, buf).ret = "loop"
    BY DEF At
  <2>2. QED BY <1>1, <1>2, <2>1
<1>4. ASSUME NEW m \in Nat, m \in In PROVE m + 1 \in In
  <2> DEFINE s == L[m]
             t == L[m + 1]
  <2>1. /\ s \in ParserStates /\ t \in ParserStates /\ t = ParseStep(s)
        /\ C[m + 1] = ParseStep(C[m]) /\ m + 1 \in Nat
        /\ Follows(req, buf, x, s)
        /\ s.ret = "loop" => C[m] = At(s.req, s.buf \o x)
    <3> HIDE DEF In
    <3>m. m + 1 \in Nat
      OBVIOUS
    <3>1. /\ s \in ParserStates /\ t = ParseStep(s) /\ m + 1 \in Nat
          /\ C[m + 1] = ParseStep(C[m])
      BY <1>1, <3>m, Zenon
    <3>2. t \in ParserStates
      BY <1>1, <3>m, Zenon
    <3>3. /\ Follows(req, buf, x, s)
          /\ s.ret = "loop" => C[m] = At(s.req, s.buf \o x)
      BY <1>4 DEF In
    <3> HIDE DEF s, t
    <3>4. QED BY <3>1, <3>2, <3>3
  <2> HIDE DEF s, t
  <2>2. CASE s.ret # "loop"
    <3>1. t = s
      BY <2>1, <2>2, StepType
    <3>2. QED BY <2>1, <2>2, <3>1 DEF t
  <2>3. CASE s.ret = "loop"
    <3>1. s = At(s.req, s.buf) /\ s.req \in Requests /\ s.buf \in Seq(Tokens)
      BY <2>1, <2>3 DEF ParserStates, At
    <3>2. SameWithMore(s.req, s.buf, x, t)
      BY <2>1, <3>1, StepMore
    <3>3. C[m + 1] = ParseStep(At(s.req, s.buf \o x))
      BY <2>1, <2>3
    <3>4. t.ret # "false" => C[m + 1] = Left(t.req, t.buf \o x, t.ret)
      BY <3>2, <3>3 DEF SameWithMore
    <3>5. t.ret = "false" => C[m + 1] = ParseStep(At(t.req, t.buf \o x))
      BY <3>2, <3>3 DEF SameWithMore
    <3>6. Follows(req, buf, x, t)
      BY <1>2, <2>1, <3>4, <3>5
    <3>7. t.ret = "loop" => C[m + 1] = At(t.req, t.buf \o x)
      BY <3>4 DEF Left, At
    <3>8. QED BY <2>1, <3>6, <3>7 DEF t
  <2>4. QED BY <2>2, <2>3
<1> HIDE DEF In
<1>5. Nat \subseteq In
  BY <1>3, <1>4, NatInduct
<1>6. QED BY <1>5 DEF In, L

\* Two loops that meet go on together.
LEMMA LoopsMeet ==
    ASSUME NEW q, NEW b, NEW r, NEW c, NEW i \in Nat, NEW j \in Nat,
           Loop(q, b)[i] = Loop(r, c)[j]
    PROVE  \A n \in Nat : Loop(q, b)[i + n] = Loop(r, c)[j + n]
<1> DEFINE D == Loop(q, b)
           C == Loop(r, c)
           In == {n \in Nat : D[i + n] = C[j + n]}
<1>1. /\ \A n \in Nat : D[n + 1] = ParseStep(D[n])
      /\ \A n \in Nat : C[n + 1] = ParseStep(C[n])
      /\ D[i] = C[j]
  BY LoopIs
<1> HIDE DEF D, C
<1>2. 0 \in In
  BY <1>1
<1>3. ASSUME NEW n \in Nat, n \in In PROVE n + 1 \in In
  <2>1. /\ i + n \in Nat /\ j + n \in Nat /\ D[i + n] = C[j + n]
        /\ i + (n + 1) = (i + n) + 1 /\ j + (n + 1) = (j + n) + 1
    BY <1>3
  <2>2. D[(i + n) + 1] = ParseStep(D[i + n]) /\ C[(j + n) + 1] = ParseStep(C[j + n])
    BY <1>1, <2>1
  <2>3. QED BY <2>1, <2>2
<1> HIDE DEF In
<1>4. Nat \subseteq In
  BY <1>2, <1>3, NatInduct
<1>5. QED BY <1>4 DEF In, D, C

(* Parse may be given its bytes in pieces (Session::DoRead calls it after *)
(* every read): what it makes of the first piece and then of the rest is   *)
(* what it makes of them together, wherever the cut falls.  When it is     *)
(* done with the first piece, the rest stays behind in the buffer.         *)
THEOREM ParseInPieces ==
    ASSUME NEW req \in Requests, NEW buf \in Seq(Tokens), NEW x \in Seq(Tokens),
           NEW p, p = Parse(req, buf)
    PROVE  /\ p.ret = "false" => Parse(p.req, p.buf \o x) = Parse(req, buf \o x)
           /\ p.ret # "false" => Parse(req, buf \o x) = Left(p.req, p.buf \o x, p.ret)
<1> DEFINE N == Len(buf) + 1
           all == buf \o x
<1>1. N \in Nat /\ all \in Seq(Tokens) /\ p = Loop(req, buf)[N]
  <2>1. N \in Nat /\ all \in Seq(Tokens)
    BY ConcatFront
  <2>2. Parse(req, buf) = Loop(req, buf)[N]
    BY LoopIs
  <2>3. QED BY <2>1, <2>2
<1>2. p \in ParserStates /\ p.ret \in Returns
  BY ParseReturns
<1>3. p.req \in Requests /\ p.buf \in Seq(Tokens)
  BY <1>2 DEF ParserStates
<1>4. Follows(req, buf, x, p)
  BY <1>1, LoopMore
<1>5. CASE p.ret = "false"
  <2> DEFINE rest == p.buf \o x
             M == Len(rest)
  <2>1. PICK j \in Nat : Loop(req, all)[j] = ParseStep(At(p.req, rest))
    BY <1>4, <1>5 DEF Follows
  <2>2. rest \in Seq(Tokens) /\ M \in Nat
    BY <1>3, ConcatFront
  <2> HIDE DEF rest
  <2>3. /\ Loop(p.req, rest)[0] = At(p.req, rest)
        /\ Loop(p.req, rest)[0 + 1] = ParseStep(Loop(p.req, rest)[0])
        /\ Parse(p.req, rest) = Loop(p.req, rest)[M + 1]
    <3>1. /\ Loop(p.req, rest)[0] = At(p.req, rest)
          /\ \A n \in Nat : Loop(p.req, rest)[n + 1] = ParseStep(Loop(p.req, rest)[n])
          /\ Parse(p.req, rest) = Loop(p.req, rest)[Len(rest) + 1]
      BY LoopIs
    <3>2. 0 \in Nat
      OBVIOUS
    <3>3. QED BY <3>1, <3>2
  <2>4. Loop(p.req, rest)[1] = Loop(req, all)[j]
    BY <2>1, <2>3
  <2>5. Loop(p.req, rest)[1 + M] = Loop(req, all)[j + M]
    <3>1. 1 \in Nat
      OBVIOUS
    <3> HIDE DEF M, all
    <3>2. QED BY <2>2, <2>4, <3>1, LoopsMeet
  <2>6. Parse(p.req, rest).ret \in Returns
    BY <1>3, <2>2, ParseReturns
  <2>7. Parse(p.req, rest) = Loop(req, all)[j + M] /\ j + M \in Nat
    <3>1. 1 + M = M + 1 /\ j + M \in Nat
      BY <2>1, <2>2
    <3>2. QED BY <2>3, <2>5, <3>1
  <2>8. Loop(req, all)[j + M].ret # "loop"
    BY <2>6, <2>7 DEF Returns
  <2>9. Loop(req, all)[j + M] = Parse(req, all)
    <3> HIDE DEF M, all
    <3>1. QED BY <1>1, <2>7, <2>8, LoopSettles
  <2>10. QED BY <1>5, <2>7, <2>9 DEF rest
<1>6. CASE p.ret # "false"
  <2>1. p.ret \in {"true", "throw"}
    BY <1>2, <1>6 DEF Returns
  <2>2. PICK j \in Nat : Loop(req, all)[j] = Left(p.req, p.buf \o x, p.ret)
    BY <1>4, <2>1 DEF Follows
  <2>3. Left(p.req, p.buf \o x, p.ret).ret # "loop"
    BY <2>1 DEF Left
  <2>4. Loop(req, all)[j] = Parse(req, all)
    <3>1. Loop(req, all)[j].ret # "loop"
      BY <2>2, <2>3
    <3> HIDE DEF all
    <3>2. QED BY <1>1, <2>2, <3>1, LoopSettles
  <2>5. QED BY <1>6, <2>2, <2>4
<1>7. QED BY <1>5, <1>6

-----------------------------------------------------------------------------
(* Parse says "true" exactly when it leaves the request finished.          *)
Finishes(s) == (s.ret = "true") <=> (s.req.state = "FINISH")

LEMMA StepFinishes ==
    ASSUME NEW s \in ParserStates, Finishes(s)
    PROVE  Finishes(ParseStep(s))
<1> DEFINE req == s.req
           buf == s.buf
           i == FindCRLF(buf)
           line == LineOf(buf)
<1>1. /\ req \in Requests /\ buf \in Seq(Tokens)
      /\ req.state \in {"REQUEST_LINE", "HEADERS", "BODY", "FINISH"}
  BY DEF ParserStates, Requests
<1>2. i \in Nat /\ (i > 0 => line \in Seq(Tokens) /\ Len(line) = i - 1)
  BY <1>1, FindCRLFIs, LineEnd DEF LineOf
<1>3. \A r, b, t : Finishes(Left(r, b, t)) <=> ((t = "true") <=> (r.state = "FINISH"))
  BY DEF Finishes, Left
<1>4. CASE s.ret # "loop"
  BY <1>4, StepType
<1>5. CASE s.ret = "loop"
  <2>1. s = At(req, buf) /\ req.state # "FINISH"
    BY <1>5 DEF ParserStates, At, Finishes
  <2> HIDE DEF req, buf
  <2>2. CASE req.state = "REQUEST_LINE"
    <3> DEFINE r == ParseRequestLine(req, line)
    <3>1. i > 0 => r \in Requests /\ r.state = "REQUEST_LINE"
      BY <1>1, <1>2, <2>2, LineIs
    <3>2. i > 0 => [r EXCEPT !.state = "HEADERS"].state = "HEADERS"
      BY <3>1 DEF Requests
    <3>3. \/ ParseStep(s) = Left(req, buf, "false")
          \/ i > 0 /\ ParseStep(s) = Left(r, buf, "false")
          \/ i > 0 /\ ParseStep(s) = Left([r EXCEPT !.state = "HEADERS"],
                                          Retrieve(buf, i + 1), "loop")
      <4>1. i = 0 \/ (i > 0 /\ ~IsRequestLine(line)) \/ (i > 0 /\ IsRequestLine(line))
        BY <1>2
      <4>2. QED BY <1>1, <2>1, <2>2, <4>1, OnRequestLineIs
    <3> HIDE DEF r, i
    <3>4. QED BY <1>3, <2>2, <3>1, <3>2, <3>3
  <2>3. CASE req.state = "HEADERS"
    <3> DEFINE r == ParseHeader(req, line)
    <3>1. r.state = "HEADERS"
      BY <1>1, <2>3 DEF ParseHeader, Requests
    <3>2. /\ [req EXCEPT !.state = "FINISH"].state = "FINISH"
          /\ [req EXCEPT !.contentLength = req.length, !.state = "BODY"].state = "BODY"
      BY <1>1 DEF Requests
    <3>3. \/ ParseStep(s) = Left(req, buf, "false")
          \/ ParseStep(s) = Left(r, Retrieve(buf, i + 1), "loop")
          \/ ParseStep(s) = Left([req EXCEPT !.state = "FINISH"], Retrieve(buf, 2), "true")
          \/ ParseStep(s) = Left(req, Retrieve(buf, 2), "throw")
          \/ ParseStep(s) = Left([req EXCEPT !.contentLength = req.length, !.state = "BODY"],
                                 Retrieve(buf, 2), "loop")
      <4>1. \/ i = 0 \/ (i > 1 /\ ~IsHeader(line)) \/ (i > 1 /\ IsHeader(line))
            \/ (i = 1 /\ req.length = Absent) \/ (i = 1 /\ req.length = NotANumber)
            \/ (i = 1 /\ req.length \notin {Absent, NotANumber})
        <5>1. i = 0 \/ i = 1 \/ i > 1
          BY <1>2
        <5> HIDE DEF i, line
        <5>2. QED BY <5>1
      <4>2. QED BY <1>1, <2>1, <2>3, <4>1, OnHeadersIs
    <3> HIDE DEF r, i
    <3>4. QED BY <1>3, <2>3, <3>1, <3>2, <3>3
  <2>4. CASE req.state = "BODY"
    <3> DEFINE n == req.contentLength
    <3>1. [req EXCEPT !.body = SubSeq(buf, 1, n), !.state = "FINISH"].state = "FINISH"
      BY <1>1 DEF Requests
    <3>2. \/ ParseStep(s) = Left(req, buf, "false")
          \/ ParseStep(s) = Left([req EXCEPT !.body = SubSeq(buf, 1, n), !.state = "FINISH"],
                                 Retrieve(buf, n), "true")
      BY <2>1, <2>4, OnBodyIs
    <3> HIDE DEF n
    <3>3. QED BY <1>3, <2>4, <3>1, <3>2
  <2>5. QED BY <1>1, <2>1, <2>2, <2>3, <2>4 DEF req
<1>6. QED BY <1>4, <1>5

LEMMA ParseFinishes ==
    ASSUME NEW req \in Requests, NEW buf \in Seq(Tokens), req.state # "FINISH"
    PROVE  Finishes(Parse(req, buf))
<1> DEFINE I == {s \in ParserStates : Finishes(s)}
<1>1. At(req, buf) \in I
  BY DEF At, ParserStates, Finishes
<1>2. \A s \in I : ParseStep(s) \in I
  BY StepType, StepFinishes
<1> HIDE DEF I
<1>3. \A n \in Nat : Loop(req, buf)[n] \in I
  BY <1>1, <1>2, LoopInduct
<1>4. Len(buf) + 1 \in Nat /\ Parse(req, buf) = Loop(req, buf)[Len(buf) + 1]
  BY LoopIs
<1>5. QED BY <1>3, <1>4 DEF I

-----------------------------------------------------------------------------
(* What FlattenSeq makes of pieces: growing sequences, of which the n-th   *)
(* holds the first n of them.                                              *)
Joins(T, ss, n, g) ==
    /\ g \in [0 .. n -> Seq(T)] /\ g[0] = <<>>
    /\ \A k \in 1 .. n : g[k] = g[k - 1] \o ss[k]

LEMMA JoinsExist ==
    ASSUME NEW T, NEW ss \in Seq(Seq(T))
    PROVE  \E g : Joins(T, ss, Len(ss), g)
<1> DEFINE N == Len(ss)
           Have == {n \in Nat : n <= N => \E g : Joins(T, ss, n, g)}
<1>1. N \in Nat /\ \A k \in 1 .. N : ss[k] \in Seq(T)
  OBVIOUS
<1> HIDE DEF N
<1>2. 0 \in Have
  <2> DEFINE g == [i \in 0 .. 0 |-> <<>>]
  <2>1. Joins(T, ss, 0, g)
    BY DEF Joins
  <2> HIDE DEF g
  <2>2. QED BY <2>1
<1>3. ASSUME NEW n \in Nat, n \in Have PROVE n + 1 \in Have
  <2>1. SUFFICES ASSUME n + 1 <= N PROVE \E g : Joins(T, ss, n + 1, g)
    OBVIOUS
  <2>2. n <= N
    BY <1>1, <2>1
  <2>3. PICK g : Joins(T, ss, n, g)
    BY <1>3, <2>2
  <2> DEFINE e == g[n] \o ss[n + 1]
             h == [i \in 0 .. n + 1 |-> IF i = n + 1 THEN e ELSE g[i]]
  <2> HIDE DEF e
  <2>4. /\ \A i \in 0 .. n : g[i] \in Seq(T)
        /\ g[0] = <<>> /\ \A k \in 1 .. n : g[k] = g[k - 1] \o ss[k]
    BY <2>3 DEF Joins
  <2>5. n + 1 \in 1 .. N /\ n \in 0 .. n /\ ss[n + 1] \in Seq(T)
    BY <1>1, <2>1
  <2>6. \A i \in 0 .. n : h[i] = g[i]
    OBVIOUS
  <2>7. h[n + 1] = g[n] \o ss[n + 1] /\ h[n + 1] \in Seq(T)
    <3>1. h[n + 1] = e
      OBVIOUS
    <3> HIDE DEF h
    <3>2. e \in Seq(T)
      BY <2>4, <2>5 DEF e
    <3>3. QED BY <3>1, <3>2 DEF e
  <2>8. DOMAIN h = 0 .. n + 1 /\ h = [i \in 0 .. n + 1 |-> h[i]]
    OBVIOUS
  <2>9. /\ \A i \in 0 .. n + 1 : i \in 0 .. n \/ i = n + 1
        /\ \A k \in 1 .. n + 1 : k - 1 \in 0 .. n /\ (k \in 1 .. n \/ k = n + 1)
        /\ \A k \in 1 .. n : k \in 0 .. n /\ k - 1 \in 0 .. n
        /\ 0 \in 0 .. n /\ (n + 1) - 1 = n
    OBVIOUS
  <2> HIDE DEF h
  <2>10. h \in [0 .. n + 1 -> Seq(T)]
    <3>1. \A i \in 0 .. n + 1 : h[i] \in Seq(T)
      BY <2>4, <2>6, <2>7, <2>9
    <3>2. QED BY <2>8, <3>1
  <2>11. \A k \in 1 .. n + 1 : h[k] = h[k - 1] \o ss[k]
    BY <2>4, <2>6, <2>7, <2>9
  <2>12. h[0] = <<>>
    BY <2>4, <2>6, <2>9
  <2>13. QED BY <2>10, <2>11, <2>12 DEF Joins
<1> HIDE DEF Have
<1>4. Nat \subseteq Have
  BY <1>2, <1>3, NatInduct
<1>5. QED BY <1>1, <1>4 DEF Have, N

LEMMA FlattenIs ==
    ASSUME NEW T, NEW ss \in Seq(Seq(T)), NEW g, Joins(T, ss, Len(ss), g)
    PROVE  FlattenSeq(ss) = g[Len(ss)] /\ FlattenSeq(ss) \in Seq(T)
<1> DEFINE N == Len(ss)
           F == [i \in 1 .. N |-> g[i]]
<1>1. N \in Nat /\ \A k \in 1 .. N : ss[k] \in Seq(T)
  OBVIOUS
<1>2. /\ \A i \in 0 .. N : g[i] \in Seq(T)
      /\ g[0] = <<>> /\ \A k \in 1 .. N : g[k] = g[k - 1] \o ss[k]
  BY DEF Joins
<1>3. CASE N = 0
  <2>1. ss = <<>> /\ FlattenSeq(ss) = ss /\ g[Len(ss)] = <<>>
    BY <1>2, <1>3 DEF FlattenSeq
  <2>2. <<>> \in Seq(T)
    OBVIOUS
  <2>3. QED BY <2>1, <2>2
<1>4. CASE N # 0
  <2> HIDE DEF N
  <2>1. 1 \in 1 .. N /\ 0 \in 0 .. N /\ N \in 1 .. N /\ N \in 0 .. N
        /\ \A i \in 1 .. N : i \in 0 .. N /\ i - 1 \in 0 .. N /\ (i # 1 => i - 1 \in 1 .. N)
    BY <1>1, <1>4
  <2>2. \A i \in 1 .. N : F[i] = IF i = 1 THEN ss[i] ELSE F[i - 1] \o ss[i]
    <3>1. ASSUME NEW i \in 1 .. N PROVE F[i] = IF i = 1 THEN ss[i] ELSE F[i - 1] \o ss[i]
      <4>1. F[i] = g[i - 1] \o ss[i]
        BY <1>2
      <4>2. CASE i = 1
        <5>1. g[i - 1] = <<>> /\ ss[i] \in Seq(T)
          BY <1>1, <1>2, <4>2
        <5>2. <<>> \o ss[i] = ss[i]
          BY <5>1
        <5>3. QED BY <4>1, <4>2, <5>1, <5>2
      <4>3. CASE i # 1
        <5>1. F[i - 1] = g[i - 1]
          BY <2>1, <4>3
        <5>2. QED BY <4>1, <4>3, <5>1
      <4>4. QED BY <4>2, <4>3
    <3>2. QED BY <3>1
  <2>3. F = [i \in 1 .. N |-> IF i = 1 THEN ss[i] ELSE F[i - 1] \o ss[i]]
    <3>1. DOMAIN F = 1 .. N /\ F = [i \in DOMAIN F |-> F[i]]
      OBVIOUS
    <3> HIDE DEF F
    <3>2. QED BY <2>2, <3>1
  <2>4. F[N] = g[N]
    BY <2>1
  <2> HIDE DEF F
  <2> DEFINE flatten[i \in 1 .. N] == IF i = 1 THEN ss[i] ELSE flatten[i - 1] \o ss[i]
  <2>5. flatten = [i \in 1 .. N |-> IF i = 1 THEN ss[i] ELSE flatten[i - 1] \o ss[i]]
    BY <2>3
  <2>6. FlattenSeq(ss) = flatten[N]
    BY <1>4 DEF FlattenSeq, N
  <2> HIDE DEF flatten
  <2> DEFINE Same == {n \in Nat : n + 1 <= N => flatten[n + 1] = F[n + 1]}
  <2>7. 0 \in Same
    <3>1. flatten[1] = ss[1] /\ F[1] = ss[1]
      BY <2>1, <2>2, <2>5
    <3>2. QED BY <3>1
  <2>8. ASSUME NEW n \in Nat, n \in Same PROVE n + 1 \in Same
    <3>1. SUFFICES ASSUME (n + 1) + 1 <= N PROVE flatten[(n + 1) + 1] = F[(n + 1) + 1]
      OBVIOUS
    <3> DEFINE i == (n + 1) + 1
    <3>2. i \in 1 .. N /\ i # 1 /\ i - 1 = n + 1 /\ n + 1 <= N
      BY <1>1, <3>1
    <3>3. flatten[n + 1] = F[n + 1]
      BY <2>8, <3>2
    <3> HIDE DEF i
    <3>4. flatten[i] = flatten[n + 1] \o ss[i] /\ F[i] = F[n + 1] \o ss[i]
      BY <2>2, <2>5, <3>2
    <3>5. QED BY <3>3, <3>4 DEF i
  <2> HIDE DEF Same
  <2>9. Nat \subseteq Same
    BY <2>7, <2>8, NatInduct
  <2>10. N - 1 \in Nat /\ (N - 1) + 1 = N
    BY <1>1, <1>4
  <2>11. flatten[N] = F[N]
    BY <2>9, <2>10 DEF Same
  <2>12. QED BY <1>2, <2>1, <2>4, <2>6, <2>11 DEF N
<1>5. QED BY <1>3, <1>4

LEMMA JoinsPrefix ==
    ASSUME NEW T, NEW ss \in Seq(Seq(T)), NEW N, N = Len(ss), NEW g, Joins(T, ss, N, g),
           NEW k \in 0 .. N
    PROVE  /\ g[k] \in Seq(T) /\ Len(g[k]) <= Len(g[N])
           /\ \A j \in 1 .. Len(g[k]) : g[N][j] = g[k][j]
<1> DEFINE Prefix(i) == /\ Len(g[i]) <= Len(g[N])
                        /\ \A j \in 1 .. Len(g[i]) : g[N][j] = g[i][j]
           In == {d \in Nat : d <= N => Prefix(N - d)}
<1>1. /\ N \in Nat /\ \A i \in 1 .. N : ss[i] \in Seq(T)
      /\ \A i \in 0 .. N : g[i] \in Seq(T)
      /\ \A i \in 1 .. N : g[i] = g[i - 1] \o ss[i]
  <2>1. N \in Nat /\ \A i \in 1 .. N : ss[i] \in Seq(T)
    OBVIOUS
  <2>2. QED BY <2>1 DEF Joins
<1>2. 0 \in In
  <2>1. N - 0 = N /\ N \in 0 .. N
    BY <1>1
  <2>2. Len(g[N]) \in Nat
    BY <1>1, <2>1
  <2>3. QED BY <2>1, <2>2
<1>3. ASSUME NEW d \in Nat, d \in In PROVE d + 1 \in In
  <2>1. SUFFICES ASSUME d + 1 <= N PROVE Prefix(N - (d + 1))
    OBVIOUS
  <2> DEFINE i == N - d
  <2>2. i \in 1 .. N /\ i \in 0 .. N /\ i - 1 \in 0 .. N /\ N - (d + 1) = i - 1 /\ d <= N
    BY <1>1, <2>1
  <2>3. Prefix(i)
    BY <1>3, <2>2
  <2> HIDE DEF i
  <2>4. g[i - 1] \in Seq(T) /\ ss[i] \in Seq(T) /\ g[i] = g[i - 1] \o ss[i]
    BY <1>1, <2>2
  <2>5. /\ Len(g[i]) = Len(g[i - 1]) + Len(ss[i]) /\ Len(g[i - 1]) \in Nat /\ Len(ss[i]) \in Nat
        /\ \A j \in 1 .. Len(g[i - 1]) : g[i][j] = g[i - 1][j]
    <3> DEFINE a == g[i - 1]
               b == ss[i]
               c == g[i]
    <3>1. a \in Seq(T) /\ b \in Seq(T) /\ c = a \o b
      BY <2>4
    <3> HIDE DEF a, b, c
    <3>2. /\ Len(c) = Len(a) + Len(b) /\ Len(a) \in Nat /\ Len(b) \in Nat
          /\ \A j \in 1 .. Len(a) : c[j] = a[j]
      BY <3>1, JoinedIs
    <3>3. QED BY <3>2 DEF a, b, c
  <2>6. Len(g[N]) \in Nat
    BY <1>1, <2>2
  <2>7. Prefix(i - 1)
    <3>0. \A a, b, c, e \in Nat : c = a + b /\ c <= e =>
            a <= e /\ \A j \in 1 .. a : j \in 1 .. c
      OBVIOUS
    <3>1. Len(g[i - 1]) <= Len(g[N]) /\ \A j \in 1 .. Len(g[i - 1]) : j \in 1 .. Len(g[i])
      <4>1. Len(g[i]) \in Nat /\ Len(g[i]) <= Len(g[N])
        BY <1>1, <2>2, <2>3
      <4>2. QED BY <2>5, <2>6, <3>0, <4>1
    <3>2. \A j \in 1 .. Len(g[i - 1]) : j \in 1 .. Len(g[i])
      BY <3>1
    <3>3. \A j \in 1 .. Len(g[i - 1]) : g[N][j] = g[i - 1][j]
      BY <2>3, <2>5, <3>2
    <3>4. QED BY <3>1, <3>3
  <2>8. QED BY <2>2, <2>7
<1> HIDE DEF In
<1>4. Nat \subseteq In
  BY <1>2, <1>3, NatInduct
<1>5. N - k \in Nat /\ N - k <= N /\ N - (N - k) = k
  BY <1>1
<1>6. Prefix(k)
  BY <1>4, <1>5 DEF In
<1>7. QED BY <1>1, <1>6

=============================================================================
