------------------------- MODULE PostgrePool_proof -------------------------
(***************************************************************************)
(* The safety of the connection pool for any number of threads, any size   *)
(* of the pool and any number of calls.                                    *)
(***************************************************************************)
EXTENDS PostgrePool, FiniteSetTheorems, TLAPS

(* Before Init nobody can have got into the pool.                          *)
BeforeInit == ~tried => /\ ~initialized /\ ~closing /\ pool = <<>>
                        /\ pc = [t \in Threads |-> "idle"]

ClosedForGood == closing => ~initialized

Inv == /\ TypeOK /\ BeforeInit /\ ClosedForGood
       /\ Exclusive /\ Conserved /\ NoLostWakeup /\ NobodySleepsOnClosed

-----------------------------------------------------------------------------
(* The sets of sleeping, woken and holding threads are finite.             *)
LEMMA FiniteThreads == /\ IsFiniteSet(Holders) /\ IsFiniteSet(Woken)
                       /\ Cardinality(Holders) \in Nat /\ Cardinality(Woken) \in Nat
<1>1. Holders \subseteq Threads /\ Woken \subseteq Threads
  BY DEF Holders, Woken
<1>2. QED BY <1>1, PoolAssumption, FS_Subset, FS_CardinalityType

(* What one thread's move from a place it is in to another does to them.   *)
LEMMA Move ==
    ASSUME TypeOK, NEW t \in Threads, NEW s, pc' = [pc EXCEPT ![t] = s]
    PROVE  /\ s = "holding" => Holders' = Holders \cup {t}
           /\ s # "holding" /\ t \in Holders => Holders' = Holders \ {t}
           /\ s # "holding" /\ t \notin Holders => Holders' = Holders
           /\ s = "woken" => Woken' = Woken \cup {t}
           /\ s # "woken" => Woken' = Woken \ {t}
           /\ s = "waiting" => Waiting' = Waiting \cup {t}
           /\ s # "waiting" => Waiting' = Waiting \ {t}
           /\ s # "waiting" /\ t \notin Waiting => Waiting' = Waiting
<1>1. \A u \in Threads : pc'[u] = IF u = t THEN s ELSE pc[u]
  BY DEF TypeOK
<1>2. QED BY <1>1 DEF Holders, Woken, Waiting

(* The head of a queue of distinct connections is not in its tail.         *)
LEMMA TailDistinct ==
    ASSUME NEW q \in Seq(Conns), q # <<>>, Distinct(q)
    PROVE  /\ Head(q) \in Conns /\ Tail(q) \in Seq(Conns) /\ Distinct(Tail(q))
           /\ Len(Tail(q)) = Len(q) - 1 /\ Len(q) \in Nat
           /\ Head(q) \in {q[i] : i \in 1 .. Len(q)}
           /\ {Tail(q)[i] : i \in 1 .. Len(Tail(q))} = {q[i] : i \in 1 .. Len(q)} \ {Head(q)}
<1>1. /\ Tail(q) \in Seq(Conns) /\ Head(q) \in Conns
      /\ Head(q) = q[1]
      /\ Len(q) \in Nat /\ Len(q) > 0
      /\ Len(Tail(q)) = Len(q) - 1
      /\ \A i \in 1 .. Len(Tail(q)) : Tail(q)[i] = q[i + 1]
  OBVIOUS
<1>2. ASSUME NEW i \in 1 .. Len(Tail(q)), NEW j \in 1 .. Len(Tail(q)), Tail(q)[i] = Tail(q)[j]
      PROVE  i = j
  <2>1. i + 1 \in 1 .. Len(q) /\ j + 1 \in 1 .. Len(q) /\ q[i + 1] = q[j + 1]
    BY <1>1, <1>2
  <2>2. i + 1 = j + 1
    BY <2>1 DEF Distinct
  <2>3. QED BY <2>2, <1>1
<1>3. ASSUME NEW i \in 1 .. Len(Tail(q))
      PROVE  i + 1 \in 1 .. Len(q) /\ Tail(q)[i] = q[i + 1] /\ q[i + 1] # Head(q)
  <2>1. i + 1 \in 1 .. Len(q) /\ 1 \in 1 .. Len(q) /\ i + 1 # 1
    BY <1>1
  <2>2. QED BY <1>1, <2>1 DEF Distinct
<1>4. ASSUME NEW i \in 1 .. Len(q), q[i] # Head(q)
      PROVE  i - 1 \in 1 .. Len(Tail(q)) /\ Tail(q)[i - 1] = q[i]
  <2>1. i # 1
    BY <1>1, <1>4
  <2>2. i - 1 \in 1 .. Len(Tail(q))
    BY <1>1, <2>1
  <2>3. QED BY <1>1, <2>2
<1>5. {Tail(q)[i] : i \in 1 .. Len(Tail(q))} = {q[i] : i \in 1 .. Len(q)} \ {Head(q)}
  BY <1>3, <1>4
<1>6. Head(q) \in {q[i] : i \in 1 .. Len(q)}
  BY <1>1
<1>7. QED BY <1>1, <1>2, <1>5, <1>6 DEF Distinct

(* Appending a connection that is not in the queue.                        *)
LEMMA AppendDistinct ==
    ASSUME NEW q \in Seq(Conns), Distinct(q), NEW c \in Conns,
           c \notin {q[i] : i \in 1 .. Len(q)}
    PROVE  /\ Append(q, c) \in Seq(Conns) /\ Distinct(Append(q, c))
           /\ Len(Append(q, c)) = Len(q) + 1 /\ Len(q) \in Nat
           /\ {Append(q, c)[i] : i \in 1 .. Len(Append(q, c))} =
                {q[i] : i \in 1 .. Len(q)} \cup {c}
<1>1. /\ Append(q, c) \in Seq(Conns)
      /\ Len(Append(q, c)) = Len(q) + 1 /\ Len(q) \in Nat
      /\ \A i \in 1 .. Len(q) : Append(q, c)[i] = q[i]
      /\ Append(q, c)[Len(q) + 1] = c
  OBVIOUS
<1>2. QED BY <1>1 DEF Distinct

-----------------------------------------------------------------------------
(* A thread that neither holds a connection nor sleeps takes the head of   *)
(* the queue, sleeps, or leaves with an exception.                         *)
LEMMA WaitPredicateKeepsInv ==
    ASSUME Inv, NEW t \in Threads, pc[t] \in {"checked", "woken"}, WaitPredicate(t),
           UNCHANGED <<initialized, closing, calls, broken, tried, terminated>>
    PROVE  Inv'
<1> USE DEF Inv
<1>1. /\ tried /\ t \notin Holders /\ t \notin Waiting
      /\ held[t] = NoConn /\ pool \in Seq(Conns) /\ Len(pool) \in Nat
  BY DEF BeforeInit, TypeOK, Holders, Waiting
<1>2. CASE closing
  <2>1. pc' = [pc EXCEPT ![t] = "idle"] /\ UNCHANGED <<pool, held>>
    BY <1>2 DEF WaitPredicate, AcquireThrows
  <2>2. Holders' = Holders /\ Waiting' = Waiting /\ Waiting = {}
    <3>1. "idle" # "holding" /\ "idle" # "waiting" /\ TypeOK
      OBVIOUS
    <3>2. Holders' = Holders
      BY <1>1, <2>1, <3>1, Move
    <3>3. Waiting' = Waiting
      BY <1>1, <2>1, <3>1, Move
    <3>4. QED BY <1>2, <3>2, <3>3 DEF NobodySleepsOnClosed
  <2>3. TypeOK'
    BY <1>1, <2>1 DEF TypeOK
  <2>4. Exclusive'
    BY <2>1 DEF Exclusive, Distinct, Pooled
  <2>5. Conserved' /\ NoLostWakeup' /\ NobodySleepsOnClosed'
    BY <2>1, <2>2 DEF Conserved, NoLostWakeup, NobodySleepsOnClosed
  <2>6. QED BY <1>1, <2>3, <2>4, <2>5 DEF BeforeInit, ClosedForGood
<1>3. CASE ~closing /\ pool # <<>>
  <2>1. /\ held' = [held EXCEPT ![t] = Head(pool)]
        /\ pool' = Tail(pool)
        /\ pc' = [pc EXCEPT ![t] = "holding"]
    BY <1>3 DEF WaitPredicate, Take
  <2>2. /\ Head(pool) \in Conns /\ pool' \in Seq(Conns) /\ Distinct(pool')
        /\ Len(pool') = Len(pool) - 1
        /\ Head(pool) \in Pooled /\ Pooled' = Pooled \ {Head(pool)}
    <3>1. Distinct(pool)
      BY DEF Exclusive
    <3>2. /\ Head(pool) \in Conns /\ Tail(pool) \in Seq(Conns) /\ Distinct(Tail(pool))
          /\ Len(Tail(pool)) = Len(pool) - 1
          /\ Head(pool) \in {pool[i] : i \in 1 .. Len(pool)}
          /\ {Tail(pool)[i] : i \in 1 .. Len(Tail(pool))} =
               {pool[i] : i \in 1 .. Len(pool)} \ {Head(pool)}
      BY <1>1, <1>3, <3>1, TailDistinct
    <3>3. QED BY <2>1, <3>2 DEF Pooled
  <2>3. Head(pool) # NoConn
    BY <2>2, PoolAssumption
  <2>4. TypeOK'
    BY <2>1, <2>2, <2>3 DEF TypeOK
  <2>5. Exclusive'
    <3>1. \A u \in Threads : held'[u] = IF u = t THEN Head(pool) ELSE held[u]
      BY <2>1 DEF TypeOK
    <3>2. \A u \in Threads : held[u] # Head(pool)
      BY <2>2 DEF Exclusive
    <3>3. QED BY <2>2, <3>1, <3>2 DEF Exclusive, Distinct
  <2>6. Conserved'
    <3>1. Holders' = Holders \cup {t}
      BY <2>1, Move
    <3>2. Cardinality(Holders') = Cardinality(Holders) + 1 /\ Cardinality(Holders) \in Nat
      BY <1>1, <3>1, FiniteThreads, FS_AddElement
    <3>3. QED BY <1>1, <2>2, <3>2 DEF Conserved
  <2>7. NoLostWakeup'
    <3>1. Woken' = Woken \ {t} /\ Waiting' = Waiting
      BY <1>1, <2>1, Move
    <3>2. Cardinality(Woken') \in {Cardinality(Woken), Cardinality(Woken) - 1}
      BY <3>1, FiniteThreads, FS_RemoveElement
    <3>3. QED BY <1>1, <2>2, <3>1, <3>2, FiniteThreads DEF NoLostWakeup
  <2>8. QED BY <1>1, <1>3, <2>4, <2>5, <2>6, <2>7
            DEF BeforeInit, ClosedForGood, NobodySleepsOnClosed
<1>4. CASE ~closing /\ pool = <<>>
  <2>1. pc' = [pc EXCEPT ![t] = "waiting"] /\ UNCHANGED <<pool, held>>
    BY <1>4 DEF WaitPredicate
  <2>2. Holders' = Holders /\ Woken' = Woken \ {t}
    BY <1>1, <2>1, Move
  <2>3. Cardinality(Woken') \in Nat
    BY <2>2, FiniteThreads, FS_RemoveElement, FS_CardinalityType
  <2>4. TypeOK'
    BY <1>1, <2>1 DEF TypeOK
  <2>5. Exclusive'
    BY <2>1 DEF Exclusive, Distinct, Pooled
  <2>6. Len(pool') = 0
    BY <1>4, <2>1
  <2>7. Conserved' /\ NoLostWakeup'
    BY <2>1, <2>2, <2>3, <2>6 DEF Conserved, NoLostWakeup
  <2>8. QED BY <1>1, <1>4, <2>4, <2>5, <2>7
            DEF BeforeInit, ClosedForGood, NobodySleepsOnClosed
<1>5. QED BY <1>2, <1>3, <1>4

(* A thread gives a connection that nobody else has back, and wakes one of *)
(* the sleepers if there are any.                                          *)
LEMMA PushKeepsInv ==
    ASSUME Inv, NEW t \in Threads, pc[t] = "holding", initialized, ~closing,
           NEW c \in Conns, c \notin Pooled,
           \A u \in Threads : u # t => held[u] # c,
           Push(c, t), broken' \subseteq broken,
           UNCHANGED <<initialized, closing, calls, tried, terminated>>
    PROVE  Inv'
<1> USE DEF Inv
<1> DEFINE p == [pc EXCEPT ![t] = "idle"]
<1>1. /\ pool' = Append(pool, c) /\ held' = [held EXCEPT ![t] = NoConn]
      /\ NotifyOne(p)
  BY DEF Push
<1>2. /\ tried /\ t \in Holders /\ t \notin Waiting /\ t \notin Woken
      /\ pool \in Seq(Conns) /\ Len(pool) \in Nat /\ Distinct(pool)
      /\ pc \in [Threads -> {"idle", "checked", "waiting", "woken", "holding"}]
  BY DEF BeforeInit, TypeOK, Holders, Waiting, Woken, Exclusive
<1>3. /\ pool' \in Seq(Conns) /\ Distinct(pool')
      /\ Len(pool') = Len(pool) + 1
      /\ Pooled' = Pooled \cup {c}
  BY <1>1, <1>2, AppendDistinct DEF Pooled
<1>4. {w \in Threads : p[w] = "waiting"} = Waiting
  BY <1>2 DEF Waiting
<1>5. /\ pc' \in [Threads -> {"idle", "checked", "waiting", "woken", "holding"}]
      /\ Holders' = Holders \ {t}
      /\ Waiting' \subseteq Waiting
      /\ Waiting # {} => \E w \in Waiting : Woken' = Woken \cup {w}
  <2>1. CASE Waiting = {}
    <3>1. pc' = p
      BY <1>1, <1>4, <2>1 DEF NotifyOne
    <3>2. QED BY <1>2, <2>1, <3>1 DEF Holders, Waiting
  <2>2. CASE Waiting # {}
    <3>1. PICK w \in Waiting : pc' = [p EXCEPT ![w] = "woken"]
      BY <1>1, <1>4, <2>2 DEF NotifyOne
    <3>2. w \in Threads /\ w # t /\ pc[w] = "waiting"
      BY <1>2 DEF Waiting
    <3>3. \A u \in Threads : pc'[u] = IF u = w THEN "woken"
                                       ELSE IF u = t THEN "idle" ELSE pc[u]
      BY <1>2, <3>1, <3>2
    <3>4. pc' \in [Threads -> {"idle", "checked", "waiting", "woken", "holding"}]
      BY <1>2, <3>1, <3>2
    <3>5. Woken' = Woken \cup {w}
      BY <1>2, <3>2, <3>3 DEF Woken
    <3>6. Holders' = Holders \ {t} /\ Waiting' \subseteq Waiting
      BY <3>2, <3>3 DEF Holders, Waiting
    <3>7. QED BY <3>4, <3>5, <3>6
  <2>3. QED BY <2>1, <2>2
<1> HIDE DEF p
<1>6. TypeOK'
  <2>1. held' \in [Threads -> Conns \cup {NoConn}]
    BY <1>1 DEF TypeOK
  <2>2. \A u \in Threads : pc'[u] = "holding" <=> held'[u] # NoConn
    <3>1. \A u \in Threads : pc'[u] = "holding" <=> (u # t /\ pc[u] = "holding")
      BY <1>5 DEF Holders
    <3>2. \A u \in Threads : held'[u] = IF u = t THEN NoConn ELSE held[u]
      BY <1>1 DEF TypeOK
    <3>3. QED BY <3>1, <3>2 DEF TypeOK
  <2>3. QED BY <1>3, <1>5, <2>1, <2>2 DEF TypeOK
<1>7. Exclusive'
  <2>1. \A u \in Threads : held'[u] = IF u = t THEN NoConn ELSE held[u]
    BY <1>1 DEF TypeOK
  <2>2. NoConn \notin Pooled'
    BY <1>2, <1>3, PoolAssumption DEF Pooled
  <2>3. QED BY <1>3, <2>1, <2>2 DEF Exclusive, Distinct
<1>8. Conserved'
  <2>1. Cardinality(Holders') = Cardinality(Holders) - 1 /\ Cardinality(Holders) \in Nat
    BY <1>2, <1>5, FiniteThreads, FS_RemoveElement
  <2>2. QED BY <1>2, <1>3, <2>1 DEF Conserved
<1>9. NoLostWakeup'
  <2>1. SUFFICES ASSUME Waiting' # {} PROVE Len(pool') <= Cardinality(Woken')
    BY DEF NoLostWakeup
  <2>2. PICK w \in Waiting : Woken' = Woken \cup {w}
    BY <1>5, <2>1
  <2>3. w \notin Woken
    BY DEF Waiting, Woken
  <2>4. Cardinality(Woken') = Cardinality(Woken) + 1 /\ Cardinality(Woken) \in Nat
    BY <2>2, <2>3, FiniteThreads, FS_AddElement
  <2>5. Len(pool) <= Cardinality(Woken)
    BY <1>5, <2>1 DEF NoLostWakeup
  <2>6. QED BY <1>2, <1>3, <2>4, <2>5
<1>10. QED BY <1>2, <1>6, <1>7, <1>8, <1>9
           DEF BeforeInit, ClosedForGood, NobodySleepsOnClosed

-----------------------------------------------------------------------------
LEMMA InitInv == Init => Inv
<1> SUFFICES ASSUME Init PROVE Inv
  OBVIOUS
<1>1. /\ pool = <<>> /\ pool \in Seq(Conns) /\ Len(pool) = 0 /\ Pooled = {}
      /\ \A t \in Threads : pc[t] = "idle" /\ held[t] = NoConn
  BY DEF Init, Pooled
<1>2. TypeOK
  BY <1>1 DEF Init, TypeOK
<1>3. Waiting = {}
  BY <1>1 DEF Waiting
<1>4. QED BY <1>1, <1>2, <1>3 DEF Init, Inv, BeforeInit, ClosedForGood, Exclusive, Distinct,
                                  Conserved, NoLostWakeup, NobodySleepsOnClosed

(* Init opens as many connections as the pool is to have, or leaves it     *)
(* uninitialized.                                                          *)
LEMMA InitPoolKeepsInv == ASSUME Inv, NEW n \in 0 .. PoolSize, InitPool(n) PROVE Inv'
<1> USE DEF Inv
<1>1. /\ ~tried /\ tried' /\ closing' = FALSE /\ initialized' = (n = PoolSize)
      /\ pool' \in [1 .. n -> Conns] /\ Distinct(pool') /\ n \in Nat
      /\ UNCHANGED <<pc, held, calls, broken, terminated>>
  BY PoolAssumption DEF InitPool
<1>2. pool' \in Seq(Conns) /\ Len(pool') = n
  BY <1>1
<1>3. \A t \in Threads : pc[t] = "idle" /\ held[t] = NoConn
  BY <1>1 DEF BeforeInit, TypeOK
<1>4. Holders' = {} /\ Waiting' = {}
  BY <1>1, <1>3 DEF Holders, Waiting
<1>5. Cardinality(Holders') = 0
  BY <1>4, FS_EmptySet
<1>6. TypeOK'
  BY <1>1, <1>2, <1>3 DEF TypeOK
<1>7. Exclusive'
  <2>1. NoConn \notin Pooled'
    BY <1>1, <1>2, PoolAssumption DEF Pooled
  <2>2. QED BY <1>1, <1>3, <2>1 DEF Exclusive, Distinct
<1>8. Conserved'
  <2>1. initialized' => n = PoolSize
    BY <1>1
  <2>2. Len(pool') + Cardinality(Holders') = n
    BY <1>1, <1>2, <1>5
  <2>3. QED BY <2>1, <2>2 DEF Conserved
<1>9. NoLostWakeup' /\ NobodySleepsOnClosed'
  BY <1>4 DEF NoLostWakeup, NobodySleepsOnClosed
<1>10. BeforeInit' /\ ClosedForGood'
  BY <1>1 DEF BeforeInit, ClosedForGood
<1>11. QED BY <1>6, <1>7, <1>8, <1>9, <1>10

LEMMA CloseKeepsInv == ASSUME Inv, Close PROVE Inv'
<1> USE DEF Inv
<1>1. /\ tried' /\ closing' = TRUE /\ initialized' = FALSE /\ pool' = <<>>
      /\ broken' \subseteq broken /\ UNCHANGED <<held, calls, tried, terminated>>
      /\ \A t \in Threads : pc'[t] = IF pc[t] = "waiting" THEN "woken" ELSE pc[t]
  BY DEF Close
<1>2. pool' \in Seq(Conns) /\ Len(pool') = 0 /\ Pooled' = {}
  BY <1>1 DEF Pooled
<1>3. pc' \in [Threads -> {"idle", "checked", "waiting", "woken", "holding"}]
  BY DEF Close, TypeOK
<1>4. TypeOK'
  BY <1>1, <1>2, <1>3 DEF TypeOK
<1>5. Waiting' = {}
  BY <1>1 DEF Waiting
<1>6. Exclusive'
  BY <1>1, <1>2 DEF Exclusive, Distinct
<1>7. QED BY <1>1, <1>4, <1>5, <1>6
          DEF BeforeInit, ClosedForGood, Conserved, NoLostWakeup, NobodySleepsOnClosed

(* Moves of a thread that touch neither the queue nor a guard.             *)
LEMMA BeginCallKeepsInv == ASSUME Inv, NEW t \in Threads, BeginCall(t) PROVE Inv'
<1> USE DEF Inv
<1>1. PICK s \in {"checked", "idle"} : pc' = [pc EXCEPT ![t] = s]
  BY DEF BeginCall
<1>2. /\ tried /\ pc[t] = "idle" /\ calls' = [calls EXCEPT ![t] = @ + 1]
      /\ UNCHANGED <<pool, initialized, closing, held, broken, tried, terminated>>
  BY DEF BeginCall
<1>3. \A u \in Threads : pc'[u] = IF u = t THEN s ELSE pc[u]
  BY <1>1 DEF TypeOK
<1>4. Holders' = Holders /\ Woken' = Woken /\ Waiting' = Waiting
  BY <1>2, <1>3 DEF Holders, Woken, Waiting
<1>5. TypeOK'
  BY <1>1, <1>2, <1>3 DEF TypeOK
<1>6. Exclusive'
  BY <1>2 DEF Exclusive, Distinct, Pooled
<1>7. QED BY <1>2, <1>4, <1>5, <1>6
          DEF BeforeInit, ClosedForGood, Conserved, NoLostWakeup, NobodySleepsOnClosed

LEMMA SpuriousWakeUpKeepsInv == ASSUME Inv, NEW t \in Threads, SpuriousWakeUp(t) PROVE Inv'
<1> USE DEF Inv
<1>1. /\ pc[t] = "waiting" /\ pc' = [pc EXCEPT ![t] = "woken"]
      /\ UNCHANGED <<pool, initialized, closing, held, calls, broken, tried, terminated>>
  BY DEF SpuriousWakeUp
<1>2. \A u \in Threads : pc'[u] = IF u = t THEN "woken" ELSE pc[u]
  BY <1>1 DEF TypeOK
<1>3. /\ Holders' = Holders /\ Woken' = Woken \cup {t} /\ Waiting' \subseteq Waiting
      /\ t \notin Woken /\ tried
  BY <1>1, <1>2 DEF Holders, Woken, Waiting, BeforeInit
<1>4. Cardinality(Woken') = Cardinality(Woken) + 1 /\ Cardinality(Woken) \in Nat
  BY <1>3, FiniteThreads, FS_AddElement
<1>5. TypeOK'
  BY <1>1, <1>2 DEF TypeOK
<1>6. Exclusive'
  BY <1>1 DEF Exclusive, Distinct, Pooled
<1>7. NoLostWakeup'
  <2>1. Len(pool) \in Nat
    BY DEF TypeOK
  <2>2. QED BY <1>1, <1>3, <1>4, <2>1 DEF NoLostWakeup
<1>8. QED BY <1>1, <1>3, <1>5, <1>6, <1>7
          DEF BeforeInit, ClosedForGood, Conserved, NobodySleepsOnClosed

LEMMA ReturnDroppedKeepsInv == ASSUME Inv, NEW t \in Threads, ReturnDropped(t) PROVE Inv'
<1> USE DEF Inv
<1>1. /\ pc[t] = "holding" /\ (~initialized \/ closing)
      /\ held' = [held EXCEPT ![t] = NoConn] /\ pc' = [pc EXCEPT ![t] = "idle"]
      /\ broken' \subseteq broken
      /\ UNCHANGED <<pool, initialized, closing, calls, tried, terminated>>
  BY DEF ReturnDropped
<1>2. /\ \A u \in Threads : pc'[u] = IF u = t THEN "idle" ELSE pc[u]
      /\ \A u \in Threads : held'[u] = IF u = t THEN NoConn ELSE held[u]
  BY <1>1 DEF TypeOK
<1>3. Woken' = Woken /\ Waiting' = Waiting /\ tried
  BY <1>1, <1>2 DEF Woken, Waiting, BeforeInit
<1>4. ~initialized
  BY <1>1 DEF ClosedForGood
<1>5. TypeOK'
  BY <1>1, <1>2 DEF TypeOK
<1>6. Exclusive'
  <2>1. NoConn \notin Pooled
    BY PoolAssumption DEF TypeOK, Pooled
  <2>2. QED BY <1>1, <1>2, <2>1 DEF Exclusive, Distinct, Pooled
<1>7. QED BY <1>1, <1>3, <1>4, <1>5, <1>6
          DEF BeforeInit, ClosedForGood, Conserved, NoLostWakeup, NobodySleepsOnClosed

-----------------------------------------------------------------------------
LEMMA StepInv == Inv /\ [Next]_vars => Inv'
<1> SUFFICES ASSUME Inv, [Next]_vars PROVE Inv'
  OBVIOUS
<1>1. ASSUME NEW n \in 0 .. PoolSize, InitPool(n) PROVE Inv'
  BY <1>1, InitPoolKeepsInv
<1>2. CASE Close
  BY <1>2, CloseKeepsInv
<1>3. ASSUME NEW t \in Threads, BeginCall(t) PROVE Inv'
  BY <1>3, BeginCallKeepsInv
<1>4. ASSUME NEW t \in Threads, Acquire(t) PROVE Inv'
  <2>1. CASE initialized
    BY <1>4, <2>1, WaitPredicateKeepsInv DEF Acquire
  <2>2. CASE ~initialized
    <3>1. /\ pc[t] = "checked" /\ pc' = [pc EXCEPT ![t] = "idle"]
          /\ UNCHANGED <<pool, held, initialized, closing, calls, broken, tried, terminated>>
      BY <1>4, <2>2 DEF Acquire, AcquireThrows
    <3>2. \A u \in Threads : pc'[u] = IF u = t THEN "idle" ELSE pc[u]
      BY <3>1 DEF Inv, TypeOK
    <3>3. Woken' = Woken /\ Waiting' = Waiting /\ tried
      BY <3>1, <3>2 DEF Woken, Waiting, Inv, BeforeInit
    <3>4. TypeOK'
      BY <3>1, <3>2 DEF Inv, TypeOK
    <3>5. Exclusive'
      BY <3>1 DEF Inv, Exclusive, Distinct, Pooled
    <3>6. QED BY <2>2, <3>1, <3>3, <3>4, <3>5
              DEF Inv, BeforeInit, ClosedForGood, Conserved, NoLostWakeup,
                  NobodySleepsOnClosed
  <2>3. QED BY <2>1, <2>2
<1>5. ASSUME NEW t \in Threads, WakeUp(t) PROVE Inv'
  BY <1>5, WaitPredicateKeepsInv DEF WakeUp
<1>6. ASSUME NEW t \in Threads, SpuriousWakeUp(t) PROVE Inv'
  BY <1>6, SpuriousWakeUpKeepsInv
<1>7. ASSUME NEW t \in Threads, ReturnDropped(t) PROVE Inv'
  BY <1>7, ReturnDroppedKeepsInv
<1>8. ASSUME NEW t \in Threads, ReturnOpen(t) PROVE Inv'
  <2>1. /\ pc[t] = "holding" /\ initialized /\ ~closing /\ Push(held[t], t)
        /\ UNCHANGED <<initialized, closing, calls, broken, tried, terminated>>
    BY <1>8 DEF ReturnOpen
  <2>2. /\ held[t] \in Conns /\ held[t] \notin Pooled
        /\ \A u \in Threads : u # t => held[u] # held[t]
    BY <2>1 DEF Inv, TypeOK, Exclusive
  <2>3. QED BY <2>1, <2>2, PushKeepsInv
<1>9. ASSUME NEW t \in Threads, NEW c \in Conns, ReturnReconnected(t, c) PROVE Inv'
  <2>1. /\ pc[t] = "holding" /\ initialized /\ ~closing /\ Push(c, t)
        /\ c \in Fresh /\ broken' \subseteq broken
        /\ UNCHANGED <<initialized, closing, calls, tried, terminated>>
    BY <1>9 DEF ReturnReconnected
  <2>2. c \notin Pooled /\ \A u \in Threads : held[u] # c
    BY <2>1, PoolAssumption DEF Fresh, Held
  <2>3. QED BY <2>1, <2>2, PushKeepsInv
<1>10. ASSUME NEW t \in Threads, ReturnFails(t) PROVE Inv'
  BY <1>10 DEF ReturnFails, Inv, TypeOK, BeforeInit, ClosedForGood, Exclusive, Distinct, Pooled,
               Conserved, NoLostWakeup, NobodySleepsOnClosed, Holders, Woken, Waiting
<1>11. ASSUME NEW c \in Conns, ConnectionLost(c) PROVE Inv'
  BY <1>11 DEF ConnectionLost, Inv, TypeOK, BeforeInit, ClosedForGood, Exclusive, Distinct,
               Pooled, Conserved, NoLostWakeup, NobodySleepsOnClosed, Holders, Woken, Waiting
<1>12. CASE UNCHANGED vars
  BY <1>12 DEF vars, Inv, TypeOK, BeforeInit, ClosedForGood, Exclusive, Distinct, Pooled,
               Conserved, NoLostWakeup, NobodySleepsOnClosed, Holders, Woken, Waiting
<1>13. QED
  BY <1>1, <1>2, <1>3, <1>4, <1>5, <1>6, <1>7, <1>8, <1>9, <1>10, <1>11, <1>12
     DEF Next, Return

LEMMA AlwaysInv == Spec => []Inv
<1>1. QED BY InitInv, StepInv, PTL DEF Spec

(* The variables of the pool keep their types.                             *)
THEOREM TypeCorrect == Spec => []TypeOK
<1>1. Inv => TypeOK
  BY DEF Inv
<1>2. QED BY <1>1, AlwaysInv, PTL

(* However many threads call Acquire and let guards go, with connections   *)
(* lost and reopened and the pool closed meanwhile, no pqxx::connection is *)
(* in two hands.                                                           *)
THEOREM ConnectionsAreExclusive == Spec => []Exclusive
<1>1. Inv => Exclusive
  BY DEF Inv
<1>2. QED BY <1>1, AlwaysInv, PTL

(* No connection leaks or is opened beyond db_pool_size while the pool is  *)
(* initialized: every Return gives back one for each Acquire.              *)
THEOREM ConnectionsAreConserved == Spec => []Conserved
<1>1. Inv => Conserved
  BY DEF Inv
<1>2. QED BY <1>1, AlwaysInv, PTL

(* The notify_one of Return is enough: an idle connection is never left    *)
(* with a sleeper that nobody has woken for it, for any number of both.    *)
THEOREM WakeupsAreNotLost == Spec => []NoLostWakeup
<1>1. Inv => NoLostWakeup
  BY DEF Inv
<1>2. QED BY <1>1, AlwaysInv, PTL

(* After Close no thread sleeps in Acquire.                                *)
THEOREM CloseWakesAll == Spec => []NobodySleepsOnClosed
<1>1. Inv => NobodySleepsOnClosed
  BY DEF Inv
<1>2. QED BY <1>1, AlwaysInv, PTL

-----------------------------------------------------------------------------
(* A pool that was never opened, or not in full, is used by nobody.        *)
OutOfUse == ~initialized /\ ~closing => \A t \in Threads : pc[t] = "idle"

LEMMA StepOutOfUse == Inv /\ OutOfUse /\ [Next]_vars => OutOfUse'
<1> SUFFICES ASSUME Inv, OutOfUse, [Next]_vars, ~initialized', ~closing', NEW t \in Threads
             PROVE  pc'[t] = "idle"
  BY DEF OutOfUse
<1>1. ASSUME NEW n \in 0 .. PoolSize, InitPool(n) PROVE pc'[t] = "idle"
  BY <1>1 DEF InitPool, Inv, BeforeInit
<1>2. CASE Close
  BY <1>2 DEF Close
<1>3. ~Close /\ (\A n \in 0 .. PoolSize : ~InitPool(n)) =>
        /\ ~initialized /\ ~closing /\ \A u \in Threads : pc[u] = "idle"
  BY DEF Next, vars, BeginCall, Acquire, WakeUp, SpuriousWakeUp, Return, ReturnDropped,
         ReturnOpen, ReturnFails, ReturnReconnected, ConnectionLost, OutOfUse
<1>4. ASSUME NEW u \in Threads, BeginCall(u), ~initialized PROVE pc'[t] = pc[t]
  <2>1. pc[u] = "idle" /\ pc' = [pc EXCEPT ![u] = "idle"]
    BY <1>4 DEF BeginCall
  <2>2. pc \in [Threads -> {"idle", "checked", "waiting", "woken", "holding"}]
    BY DEF Inv, TypeOK
  <2>3. QED BY <2>1, <2>2
<1>5. ASSUME NEW u \in Threads, Acquire(u) \/ WakeUp(u) \/ SpuriousWakeUp(u) \/ Return(u)
      PROVE  pc[u] # "idle"
  BY <1>5 DEF Acquire, WakeUp, SpuriousWakeUp, Return, ReturnDropped, ReturnOpen, ReturnFails,
              ReturnReconnected
<1>6. \A c \in Conns : ConnectionLost(c) => pc' = pc
  BY DEF ConnectionLost
<1>7. UNCHANGED vars => pc' = pc
  BY DEF vars
<1>8. QED BY <1>1, <1>2, <1>3, <1>4, <1>5, <1>6, <1>7 DEF Next

(* A thread that sleeps in Acquire does so because others have the         *)
(* connections, or because one that was woken before it is about to take   *)
(* one: there is always a thread whose step may end the wait.              *)
SleepersAreServed == Waiting # {} => Holders # {} \/ Woken # {}

LEMMA Served == Inv /\ OutOfUse => SleepersAreServed
<1> SUFFICES ASSUME Inv, OutOfUse, Waiting # {}, Holders = {}, Woken = {} PROVE FALSE
  BY DEF SleepersAreServed
<1>1. PICK t \in Threads : pc[t] = "waiting"
  BY DEF Waiting
<1>2. ~closing
  BY DEF Inv, NobodySleepsOnClosed
<1>3. initialized
  BY <1>1, <1>2 DEF OutOfUse
<1>4. Cardinality(Holders) = 0 /\ Cardinality(Woken) = 0
  BY FS_EmptySet
<1>5. Len(pool) = PoolSize
  <2>1. Len(pool) + 0 = PoolSize
    BY <1>3, <1>4 DEF Inv, Conserved
  <2>2. Len(pool) \in Nat
    BY DEF Inv, TypeOK
  <2>3. QED BY <2>1, <2>2
<1>6. Len(pool) <= 0
  BY <1>4 DEF Inv, NoLostWakeup
<1>7. QED BY <1>5, <1>6, PoolAssumption DEF PoolAssumption

(* In every behaviour of the pool a thread that sleeps in Acquire has one   *)
(* that will end its wait, or wakes for it, also when connections are lost *)
(* and reopened: nobody waits on an empty pool that nobody has used.       *)
THEOREM SomebodyServes == Spec => []SleepersAreServed
<1>1. Init => OutOfUse
  BY DEF Init, OutOfUse
<1>2. QED BY <1>1, StepOutOfUse, Served, AlwaysInv, PTL DEF Spec

-----------------------------------------------------------------------------
(* PostgrePool as its callers see it.                                      *)
LEMMA PhaseIs ==
    /\ ~tried => Phase = "new"
    /\ tried /\ initialized => Phase = "open"
    /\ tried /\ ~initialized /\ closing => Phase = "closed"
    /\ tried /\ ~initialized /\ ~closing => Phase = "failed"
<1>1. QED BY DEF Phase

LEMMA PhaseNextIs ==
    /\ tried' /\ initialized' => Phase' = "open"
    /\ tried' /\ ~initialized' /\ closing' => Phase' = "closed"
    /\ tried' /\ ~initialized' /\ ~closing' => Phase' = "failed"
<1>1. QED BY DEF Phase

LEMMA PhaseKept == UNCHANGED <<initialized, closing, tried>> => Phase' = Phase
<1>1. QED BY DEF Phase

LEMMA AliveKept == UNCHANGED terminated => (~terminated)' = ~terminated
<1>1. QED OBVIOUS

LEMMA SameCount == \A S : Promise!Cardinality(S) = Cardinality(S)
<1>1. QED BY DEF Promise!Cardinality, Cardinality

LEMMA BorrowersAre == ASSUME TypeOK PROVE Promise!Borrowers = Holders
<1>1. QED BY DEF Promise!Borrowers, Holders, TypeOK

(* A thread asks from IsInitialized until Acquire returns or throws.       *)
Within == {"checked", "waiting", "woken"}

LEMMA AskingMoves ==
    ASSUME TypeOK, NEW t \in Threads, NEW s, pc' = [pc EXCEPT ![t] = s]
    PROVE  /\ s \in Within => Asking' = Asking \cup {t}
           /\ s \notin Within => Asking' = Asking \ {t}
<1>1. \A u \in Threads : pc'[u] = IF u = t THEN s ELSE pc[u]
  BY DEF TypeOK
<1>2. QED BY <1>1 DEF Asking, Within

(* Nobody asks a pool that is not open, or was not until it was closed.    *)
LEMMA AskedOfOpen ==
    ASSUME Inv, OutOfUse, NEW t \in Threads, pc[t] # "idle"
    PROVE  tried /\ (~closing => initialized) /\ (closing => ~initialized)
<1>1. tried
  BY DEF Inv, BeforeInit
<1>2. QED BY <1>1 DEF Inv, ClosedForGood, OutOfUse

(* A step on which nothing the callers see changes.                        *)
LEMMA Unseen ==
    ASSUME Phase' = Phase, Asking' = Asking, UNCHANGED <<held, terminated>>
    PROVE  UNCHANGED Promise!vars
<1>1. QED BY AliveKept DEF Promise!vars

LEMMA LendRefines ==
    ASSUME Inv, NEW t \in Threads, pc[t] \in Within, ~terminated, Phase = "open", initialized,
           pool # <<>>, Take(t), Phase' = Phase, UNCHANGED terminated
    PROVE  Promise!Next
<1> DEFINE c == Head(pool)
<1>1. pool \in Seq(Conns) /\ Len(pool) \in Nat /\ Len(pool) # 0
  BY DEF Inv, TypeOK
<1>2. c = pool[1] /\ c \in Conns /\ c \in Pooled
  BY <1>1 DEF Pooled
<1>3. \A u \in Threads : held[u] # c
  BY <1>2 DEF Inv, Exclusive
<1> HIDE DEF c
<1>4. Cardinality(Promise!Borrowers) < PoolSize
  <2>1. Promise!Borrowers = Holders
    BY BorrowersAre DEF Inv
  <2>2. Len(pool) + Cardinality(Holders) = PoolSize
    BY DEF Inv, Conserved
  <2>3. QED BY <1>1, <2>1, <2>2, FiniteThreads, PoolAssumption DEF PoolAssumption
<1>5. Asking' = Asking \ {t} /\ t \in Asking
  <2>1. pc' = [pc EXCEPT ![t] = "holding"] /\ "holding" \notin Within
    BY DEF Take, Within
  <2>2. QED BY <2>1, AskingMoves DEF Inv, Asking, Within
<1>6. held' = [held EXCEPT ![t] = c]
  BY DEF Take, c
<1>7. Promise!Lend(t, c)
  BY <1>3, <1>4, <1>5, <1>6, SameCount, AliveKept DEF Promise!Lend
<1>8. QED BY <1>2, <1>7 DEF Promise!Next

LEMMA TurnAwayRefines ==
    ASSUME Inv, NEW t \in Threads, pc[t] \in Within, ~terminated, Phase = "closed",
           AcquireThrows(t), Phase' = Phase, UNCHANGED terminated
    PROVE  Promise!Next
<1>1. Asking' = Asking \ {t} /\ t \in Asking
  <2>1. pc' = [pc EXCEPT ![t] = "idle"] /\ "idle" \notin Within
    BY DEF AcquireThrows, Within
  <2>2. QED BY <2>1, AskingMoves DEF Inv, Asking, Within
<1>2. Promise!TurnAway(t)
  BY <1>1, AliveKept DEF Promise!TurnAway, AcquireThrows
<1>3. QED BY <1>2 DEF Promise!Next

LEMMA WaitPredicateRefines ==
    ASSUME Inv, OutOfUse, NEW t \in Threads, pc[t] \in {"checked", "woken"}, ~terminated,
           WaitPredicate(t), UNCHANGED <<initialized, closing, calls, broken, tried, terminated>>
    PROVE  Promise!Next \/ UNCHANGED Promise!vars
<1>1. tried /\ (~closing => initialized) /\ (closing => ~initialized) /\ pc[t] \in Within
  BY AskedOfOpen DEF Within
<1>2. Phase' = Phase
  BY PhaseKept
<1>3. CASE closing
  BY <1>1, <1>2, <1>3, PhaseIs, TurnAwayRefines DEF WaitPredicate
<1>4. CASE ~closing /\ pool # <<>>
  BY <1>1, <1>2, <1>4, PhaseIs, LendRefines DEF WaitPredicate
<1>5. CASE ~closing /\ pool = <<>>
  <2>1. pc' = [pc EXCEPT ![t] = "waiting"] /\ UNCHANGED <<pool, held>> /\ "waiting" \in Within
    BY <1>5 DEF WaitPredicate, Within
  <2>2. Asking' = Asking \cup {t} /\ t \in Asking
    BY <1>1, <2>1, AskingMoves DEF Inv, Asking, Within
  <2>3. QED BY <1>2, <2>1, <2>2, Unseen
<1>6. QED BY <1>3, <1>4, <1>5

LEMMA AskRefines ==
    ASSUME Inv, NEW t \in Threads, BeginCall(t) PROVE Promise!Next \/ UNCHANGED Promise!vars
<1>1. /\ tried /\ pc[t] = "idle" /\ ~terminated
      /\ UNCHANGED <<initialized, closing, held, tried, terminated>>
  BY DEF BeginCall
<1>2. Phase' = Phase /\ t \notin Asking
  BY <1>1, PhaseKept DEF Asking
<1>3. CASE initialized /\ ~closing
  <2>1. pc' = [pc EXCEPT ![t] = "checked"] /\ "checked" \in Within
    BY <1>3 DEF BeginCall, Within
  <2>2. Asking' = Asking \cup {t}
    BY <2>1, AskingMoves DEF Inv
  <2>3. t \notin Promise!Borrowers
    BY <1>1 DEF Inv, TypeOK, Promise!Borrowers
  <2>4. Phase = "open"
    BY <1>1, <1>3, PhaseIs
  <2>5. Promise!Ask(t)
    BY <1>1, <1>2, <2>2, <2>3, <2>4, AliveKept DEF Promise!Ask
  <2>6. QED BY <2>5 DEF Promise!Next
<1>4. CASE ~(initialized /\ ~closing)
  <2>1. pc' = [pc EXCEPT ![t] = "idle"] /\ "idle" \notin Within
    BY <1>4 DEF BeginCall, Within
  <2>2. Asking' = Asking
    BY <1>2, <2>1, AskingMoves DEF Inv
  <2>3. QED BY <1>1, <1>2, <2>2, Unseen
<1>5. QED BY <1>3, <1>4

LEMMA AcquireRefines ==
    ASSUME Inv, OutOfUse, NEW t \in Threads, Acquire(t)
    PROVE  Promise!Next \/ UNCHANGED Promise!vars
<1>1. /\ pc[t] = "checked" /\ ~terminated
      /\ UNCHANGED <<initialized, closing, calls, broken, tried, terminated>>
  BY DEF Acquire
<1>2. CASE initialized
  BY <1>1, <1>2, WaitPredicateRefines DEF Acquire
<1>3. CASE ~initialized
  <2>1. tried /\ closing
    BY <1>1, <1>3, AskedOfOpen
  <2>2. Phase = "closed" /\ Phase' = Phase /\ AcquireThrows(t) /\ pc[t] \in Within
    BY <1>1, <1>3, <2>1, PhaseIs, PhaseKept DEF Acquire, Within
  <2>3. QED BY <1>1, <2>2, TurnAwayRefines
<1>4. QED BY <1>2, <1>3

(* Whatever becomes of the connection, and whoever is woken for it: the    *)
(* loan is over.                                                           *)
LEMMA GiveBackRefines ==
    ASSUME Inv, NEW t \in Threads, pc[t] = "holding", ~terminated,
           held' = [held EXCEPT ![t] = NoConn], Asking' = Asking, Phase' = Phase,
           UNCHANGED terminated
    PROVE  Promise!Next
<1>1. t \in Promise!Borrowers
  BY DEF Inv, TypeOK, Promise!Borrowers
<1>2. Promise!GiveBack(t)
  BY <1>1, AliveKept DEF Promise!GiveBack
<1>3. QED BY <1>2 DEF Promise!Next

LEMMA PushKeepsAsking ==
    ASSUME Inv, NEW t \in Threads, pc[t] = "holding", NEW c, Push(c, t) PROVE Asking' = Asking
<1> DEFINE p == [pc EXCEPT ![t] = "idle"]
<1>1. /\ \A u \in Threads : p[u] = IF u = t THEN "idle" ELSE pc[u]
      /\ p \in [Threads -> {"idle", "checked", "waiting", "woken", "holding"}]
  BY DEF Inv, TypeOK
<1>2. NotifyOne(p)
  BY DEF Push
<1> HIDE DEF p
<1>3. \/ pc' = p
      \/ \E w \in Threads : p[w] = "waiting" /\ pc' = [p EXCEPT ![w] = "woken"]
  BY <1>2 DEF NotifyOne
<1>4. \A u \in Threads : pc'[u] \in Within <=> p[u] \in Within
  BY <1>1, <1>3 DEF Within
<1>5. \A u \in Threads : p[u] \in Within <=> pc[u] \in Within
  BY <1>1 DEF Within
<1>6. QED BY <1>4, <1>5 DEF Asking, Within

LEMMA ReturnRefines ==
    ASSUME Inv, OutOfUse, NEW t \in Threads, Return(t) PROVE Promise!Next
<1>1. CASE ReturnDropped(t)
  <2>1. /\ pc[t] = "holding" /\ ~terminated /\ pc' = [pc EXCEPT ![t] = "idle"]
        /\ held' = [held EXCEPT ![t] = NoConn] /\ "idle" \notin Within
        /\ UNCHANGED <<initialized, closing, tried, terminated>>
    BY <1>1 DEF ReturnDropped, Within
  <2>2. Asking' = Asking /\ Phase' = Phase
    BY <2>1, AskingMoves, PhaseKept DEF Inv, Asking
  <2>3. QED BY <2>1, <2>2, GiveBackRefines
<1>2. CASE ReturnOpen(t) \/ \E c \in Conns : ReturnReconnected(t, c)
  <2>1. /\ pc[t] = "holding" /\ ~terminated /\ \E c : Push(c, t)
        /\ UNCHANGED <<initialized, closing, tried, terminated>>
    BY <1>2 DEF ReturnOpen, ReturnReconnected
  <2>2. held' = [held EXCEPT ![t] = NoConn]
    BY <2>1 DEF Push
  <2>3. Asking' = Asking /\ Phase' = Phase
    BY <2>1, PushKeepsAsking, PhaseKept
  <2>4. QED BY <2>1, <2>2, <2>3, GiveBackRefines
<1>3. CASE ReturnFails(t)
  <2>1. /\ pc[t] = "holding" /\ initialized /\ ~terminated /\ terminated' = TRUE
        /\ UNCHANGED <<pc, held, initialized, closing, tried>>
    BY <1>3 DEF ReturnFails
  <2>2. tried /\ t \in Promise!Borrowers
    BY <2>1 DEF Inv, BeforeInit, TypeOK, Promise!Borrowers
  <2>3. Phase = "open" /\ Phase' = Phase /\ Asking' = Asking
    BY <2>1, <2>2, PhaseIs, PhaseKept DEF Asking
  <2>4. (~terminated)' = FALSE
    BY <2>1
  <2>5. Promise!Die
    BY <2>1, <2>2, <2>3, <2>4 DEF Promise!Die
  <2>6. QED BY <2>5 DEF Promise!Next
<1>4. QED BY <1>1, <1>2, <1>3 DEF Return

(* Nothing is given back, and the process does not die, before Init.       *)
NotYetDead == ~tried => ~terminated

LEMMA StepNotYetDead == Inv /\ NotYetDead /\ [Next]_vars => NotYetDead'
<1> SUFFICES ASSUME Inv, NotYetDead, [Next]_vars PROVE tried' \/ ~terminated'
  BY DEF NotYetDead
<1>1. CASE \E t \in Threads : ReturnFails(t)
  BY <1>1 DEF ReturnFails, Inv, BeforeInit
<1>2. CASE ~\E t \in Threads : ReturnFails(t)
  <2>1. (tried' = tried \/ tried' = TRUE) /\ terminated' = terminated
    BY <1>2 DEF Next, vars, InitPool, Close, BeginCall, Acquire, WakeUp, SpuriousWakeUp, Return,
                ReturnDropped, ReturnOpen, ReturnReconnected, ConnectionLost
  <2>2. QED BY <2>1 DEF NotYetDead
<1>3. QED BY <1>1, <1>2

LEMMA OpenRefines ==
    ASSUME Inv, NotYetDead, NEW n \in 0 .. PoolSize, InitPool(n)
    PROVE  Promise!Next
<1>1. /\ ~tried /\ tried' = TRUE /\ closing' = FALSE /\ UNCHANGED <<pc, held, terminated>>
  BY DEF InitPool
<1>2. Phase = "new" /\ Phase' \in {"open", "failed"} /\ Asking' = Asking
  BY <1>1, PhaseIs, PhaseNextIs DEF Asking
<1>3. ~terminated
  BY <1>1 DEF NotYetDead
<1>4. Promise!Open
  BY <1>1, <1>2, <1>3, AliveKept DEF Promise!Open
<1>5. QED BY <1>4 DEF Promise!Next

LEMMA CloseRefines ==
    ASSUME Inv, Close PROVE Promise!Next \/ UNCHANGED Promise!vars
<1>1. /\ tried /\ ~terminated /\ (initialized \/ closing)
      /\ closing' = TRUE /\ initialized' = FALSE /\ UNCHANGED <<held, tried, terminated>>
      /\ pc' = [t \in Threads |-> IF pc[t] = "waiting" THEN "woken" ELSE pc[t]]
  BY DEF Close
<1>2. Phase' = "closed" /\ Asking' = Asking
  <2>1. Phase' = "closed"
    BY <1>1, PhaseNextIs
  <2>2. \A t \in Threads : pc'[t] = IF pc[t] = "waiting" THEN "woken" ELSE pc[t]
    BY <1>1
  <2>3. QED BY <2>1, <2>2 DEF Asking
<1>3. CASE initialized
  <2>1. Phase = "open"
    BY <1>1, <1>3, PhaseIs
  <2>2. Promise!Close
    BY <1>1, <1>2, <2>1, AliveKept DEF Promise!Close
  <2>3. QED BY <2>2 DEF Promise!Next
<1>4. CASE ~initialized
  <2>1. Phase = "closed"
    BY <1>1, <1>4, PhaseIs
  <2>2. QED BY <1>1, <1>2, <2>1, Unseen
<1>5. QED BY <1>3, <1>4

LEMMA StepRefines == Inv /\ OutOfUse /\ NotYetDead /\ [Next]_vars => [Promise!Next]_(Promise!vars)
<1> SUFFICES ASSUME Inv, OutOfUse, NotYetDead, [Next]_vars PROVE Promise!Next \/ UNCHANGED Promise!vars
  OBVIOUS
<1>1. ASSUME NEW n \in 0 .. PoolSize, InitPool(n) PROVE Promise!Next \/ UNCHANGED Promise!vars
  BY <1>1, OpenRefines
<1>2. CASE Close
  BY <1>2, CloseRefines
<1>3. ASSUME NEW t \in Threads, BeginCall(t) PROVE Promise!Next \/ UNCHANGED Promise!vars
  BY <1>3, AskRefines
<1>4. ASSUME NEW t \in Threads, Acquire(t) PROVE Promise!Next \/ UNCHANGED Promise!vars
  BY <1>4, AcquireRefines
<1>5. ASSUME NEW t \in Threads, WakeUp(t) PROVE Promise!Next \/ UNCHANGED Promise!vars
  BY <1>5, WaitPredicateRefines DEF WakeUp
<1>6. ASSUME NEW t \in Threads, SpuriousWakeUp(t)
      PROVE  Promise!Next \/ UNCHANGED Promise!vars
  <2>1. /\ pc[t] = "waiting" /\ pc' = [pc EXCEPT ![t] = "woken"] /\ "woken" \in Within
        /\ UNCHANGED <<initialized, closing, held, tried, terminated>>
    BY <1>6 DEF SpuriousWakeUp, Within
  <2>2. Asking' = Asking /\ Phase' = Phase
    BY <2>1, AskingMoves, PhaseKept DEF Inv, Asking
  <2>3. QED BY <2>1, <2>2, Unseen
<1>7. ASSUME NEW t \in Threads, Return(t) PROVE Promise!Next \/ UNCHANGED Promise!vars
  BY <1>7, ReturnRefines
<1>8. ASSUME NEW c \in Conns, ConnectionLost(c) PROVE Promise!Next \/ UNCHANGED Promise!vars
  <2>1. UNCHANGED <<pc, held, initialized, closing, tried, terminated>>
    BY <1>8 DEF ConnectionLost
  <2>2. Asking' = Asking /\ Phase' = Phase
    BY <2>1, PhaseKept DEF Asking
  <2>3. QED BY <2>1, <2>2, Unseen
<1>9. CASE UNCHANGED vars
  <2>1. UNCHANGED <<pc, held, initialized, closing, tried, terminated>>
    BY <1>9 DEF vars
  <2>2. Asking' = Asking /\ Phase' = Phase
    BY <2>1, PhaseKept DEF Asking
  <2>3. QED BY <2>1, <2>2, Unseen
<1>10. QED BY <1>1, <1>2, <1>3, <1>4, <1>5, <1>6, <1>7, <1>8, <1>9 DEF Next

(* Every behaviour of the pool, with its queue, its waits and wake-ups,    *)
(* connections lost and reopened and a Close at any point, is one of       *)
(* ConnectionPool: at most PoolSize loans, none of them shared, and nobody *)
(* is turned away by a pool that is open.                                  *)
THEOREM PoolImplementsPromise == Spec => ImplementsConnectionPool
<1>1. Init => Promise!Init /\ OutOfUse /\ NotYetDead
  <2>1. SUFFICES ASSUME Init PROVE Promise!Init /\ OutOfUse /\ NotYetDead
    OBVIOUS
  <2>2. Asking = {} /\ Phase = "new" /\ OutOfUse /\ NotYetDead
    BY <2>1, PhaseIs DEF Init, Asking, OutOfUse, NotYetDead
  <2>3. (~terminated) = TRUE
    BY <2>1 DEF Init
  <2>4. QED BY <2>1, <2>2, <2>3 DEF Init, Promise!Init
<1>2. QED BY <1>1, StepRefines, StepOutOfUse, StepNotYetDead, AlwaysInv, PTL
          DEF Spec, ImplementsConnectionPool, Promise!Spec
=============================================================================
