-------------------------- MODULE DirectTurnWords --------------------------
(***************************************************************************)
(* What becomes of a person's messages in DirectTurn, for every set of     *)
(* tasks, turns and messages: none is given to two turns, and one that     *)
(* waits does so in one place.                                             *)
(***************************************************************************)
EXTENDS DirectTurnProofs, SequenceTheorems

(* A word waits in one place of one queue, and as long as it waits, or its *)
(* steering is awaited, no turn has taken it out of the queue.             *)
QueuedOnce ==
  \A th, h \in Threads : \A i \in DOMAIN queue[th], j \in DOMAIN queue[h] :
    queue[th][i] = queue[h][j] => th = h /\ i = j

QueuedFate == \A th \in Threads : \A i \in DOMAIN queue[th] : fate[queue[th][i]] = "queued"

WaitingIsUntaken == \A w \in Words : fate[w] \in {"unsent", "queued"} => into[w] = None

SteeredOnce ==
  /\ \A x \in steering : fate[x[1]] = "steering"
  /\ \A x, y \in steering : x[1] = y[1] => x = y

WordsInv == QueuedOnce /\ QueuedFate /\ WaitingIsUntaken /\ SteeredOnce

OneTurn == \A w \in Words : into[w] # None => into'[w] = into[w]

(* Appending a word that waits nowhere, and taking a waiting one out. *)
LEMMA AppendQueues ==
  ASSUME TypeInv, QueuedOnce, QueuedFate, NEW th \in Threads, NEW w \in Words,
         fate[w] # "queued", queue' = [queue EXCEPT ![th] = Append(@, w)],
         fate' = [fate EXCEPT ![w] = "queued"]
  PROVE  QueuedOnce' /\ QueuedFate'
<1>1. /\ queue'[th] = Append(queue[th], w) /\ queue[th] \in Seq(Words)
      /\ \A h \in Threads \ {th} : queue'[h] = queue[h]
  BY DEF TypeInv, TypeOK
<1>2. /\ DOMAIN queue'[th] = 1..Len(queue[th]) + 1
      /\ \A i \in 1..Len(queue[th]) : queue'[th][i] = queue[th][i]
      /\ queue'[th][Len(queue[th]) + 1] = w
      /\ DOMAIN queue[th] = 1..Len(queue[th])
  BY <1>1
<1>3. \A h \in Threads : \A i \in DOMAIN queue[h] : queue[h][i] # w
  BY DEF QueuedFate
<1>4. QueuedOnce'
  BY <1>1, <1>2, <1>3 DEF QueuedOnce
<1>5. \A v \in Words : fate'[v] = "queued" <=> fate[v] = "queued" \/ v = w
  BY DEF TypeInv, TypeOK
<1>6. \A h \in Threads : \A i \in DOMAIN queue[h] : queue[h][i] \in Words
  BY DEF TypeInv, TypeOK
<1>7. QueuedFate'
  BY <1>1, <1>2, <1>5, <1>6 DEF QueuedFate
<1> QED
  BY <1>4, <1>7

LEMMA RemovedWord ==
  ASSUME NEW q \in Seq(Words), NEW i \in 1..Len(q),
         NEW r, r = SubSeq(q, 1, i - 1) \o SubSeq(q, i + 1, Len(q))
  PROVE  /\ DOMAIN r = 1..Len(q) - 1
         /\ \A j \in 1..Len(q) - 1 : r[j] = IF j < i THEN q[j] ELSE q[j + 1]
<1> DEFINE n == Len(q)
           front == SubSeq(q, 1, i - 1)
           back == SubSeq(q, i + 1, n)
<1>1. /\ n \in Nat /\ i \in Int /\ 1 <= i /\ i <= n
      /\ \A j \in 1..n : q[j] \in Words
  OBVIOUS
<1>2. /\ front \in Seq(Words) /\ Len(front) = (IF 1 <= i - 1 THEN (i - 1) - 1 + 1 ELSE 0)
      /\ \A j \in 1..(i - 1) - 1 + 1 : front[j] = q[1 + j - 1]
  <2>1. \A j \in 1..i - 1 : q[j] \in Words
    BY <1>1
  <2>2. 1 \in Int /\ i - 1 \in Int
    BY <1>1
  <2> QED
    BY <2>1, <2>2, SubSeqProperties
<1>3. /\ back \in Seq(Words) /\ Len(back) = (IF i + 1 <= n THEN n - (i + 1) + 1 ELSE 0)
      /\ \A j \in 1..n - (i + 1) + 1 : back[j] = q[(i + 1) + j - 1]
  <2>1. \A j \in i + 1..n : q[j] \in Words
    BY <1>1
  <2>2. i + 1 \in Int /\ n \in Int
    BY <1>1
  <2> HIDE DEF n
  <2> QED
    BY <2>1, <2>2, SubSeqProperties
<1>4. r = front \o back
  OBVIOUS
<1> HIDE DEF n, front, back
<1>5. Len(front) = i - 1 /\ Len(back) = n - i
  BY <1>1, <1>2, <1>3
<1>6. /\ r \in Seq(Words) /\ Len(r) = (i - 1) + (n - i)
      /\ \A j \in 1..(i - 1) + (n - i) :
           r[j] = IF j <= i - 1 THEN front[j] ELSE back[j - (i - 1)]
  <2>1. /\ front \o back \in Seq(Words)
        /\ Len(front \o back) = Len(front) + Len(back)
        /\ \A j \in 1..Len(front) + Len(back) :
             (front \o back)[j] = IF j <= Len(front) THEN front[j] ELSE back[j - Len(front)]
    BY <1>2, <1>3, ConcatProperties, Zenon
  <2> QED
    BY <1>4, <1>5, <2>1
<1>7. (i - 1) + (n - i) = n - 1
  BY <1>1
<1>8. DOMAIN r = 1..n - 1
  <2>1. r \in Seq(Words)
    BY <1>6
  <2>2. DOMAIN r = 1..Len(r)
    BY <2>1, LenProperties
  <2>3. Len(r) = n - 1
    BY <1>6, <1>7
  <2> QED
    BY <2>2, <2>3
<1>9. ASSUME NEW j \in 1..n - 1
      PROVE  r[j] = IF j < i THEN q[j] ELSE q[j + 1]
  <2>1. r[j] = IF j <= i - 1 THEN front[j] ELSE back[j - (i - 1)]
    BY <1>6, <1>7
  <2>2. CASE j < i
    <3>1. j \in 1..(i - 1) - 1 + 1 /\ 1 + j - 1 = j /\ j <= i - 1
      BY <1>1, <2>2
    <3> QED
      BY <1>2, <2>1, <2>2, <3>1
  <2>3. CASE ~(j < i)
    <3> DEFINE k == j - (i - 1)
    <3>1. k \in 1..n - (i + 1) + 1 /\ (i + 1) + k - 1 = j + 1 /\ ~(j <= i - 1)
      BY <1>1, <2>3
    <3>2. r[j] = back[k]
      BY <2>1, <3>1
    <3> HIDE DEF k
    <3>3. back[k] = q[(i + 1) + k - 1]
      BY <1>3, <3>1
    <3>4. back[k] = q[j + 1]
      BY <3>1, <3>3
    <3> QED
      BY <2>3, <3>2, <3>4
  <2> QED
    BY <2>2, <2>3
<1> QED
  BY <1>8, <1>9 DEF n

LEMMA RemovalKeepsQueues ==
  ASSUME TypeInv, WordsInv, NEW w \in Words, CancelQueued(w)
  PROVE  WordsInv' /\ OneTurn
<1>0. PICK th \in Threads : \E i \in DOMAIN queue[th] :
        /\ queue[th][i] = w
        /\ queue' = [queue EXCEPT ![th] = SubSeq(@, 1, i - 1) \o SubSeq(@, i + 1, Len(@))]
  BY DEF CancelQueued
<1>1. PICK i \in DOMAIN queue[th] :
        /\ queue[th][i] = w
        /\ queue' = [queue EXCEPT ![th] = SubSeq(@, 1, i - 1) \o SubSeq(@, i + 1, Len(@))]
  BY <1>0
<1> DEFINE q == queue[th]
           n == Len(queue[th])
<1>2. /\ q \in Seq(Words) /\ DOMAIN q = 1..n /\ n \in Nat
      /\ \A h \in Threads \ {th} : queue'[h] = queue[h]
      /\ queue'[th] = SubSeq(q, 1, i - 1) \o SubSeq(q, i + 1, n)
  <2>1. q \in Seq(Words)
    BY DEF TypeInv, TypeOK
  <2>2. DOMAIN q = 1..n /\ n \in Nat
    BY <2>1
  <2> QED
    BY <1>1, <2>1, <2>2 DEF TypeInv, TypeOK
<1>3. /\ DOMAIN queue'[th] = 1..n - 1
      /\ \A j \in 1..n - 1 : queue'[th][j] = IF j < i THEN q[j] ELSE q[j + 1]
  <2>1. i \in 1..Len(q)
    BY <1>1, <1>2
  <2>2. queue'[th] = SubSeq(q, 1, i - 1) \o SubSeq(q, i + 1, Len(q))
    BY <1>2
  <2>3. q \in Seq(Words)
    BY <1>2
  <2> HIDE DEF q
  <2> QED
    BY <2>1, <2>2, <2>3, RemovedWord DEF q
<1> HIDE DEF q, n
(* What is left of the queue stood there before, in another place than w. *)
<1>4. \A h \in Threads : \A j \in DOMAIN queue'[h] :
        \E k \in DOMAIN queue[h] :
          /\ queue[h][k] = queue'[h][j] /\ (h = th => k # i)
          /\ k = IF h = th /\ ~(j < i) THEN j + 1 ELSE j
  <2>1. ASSUME NEW j \in DOMAIN queue'[th]
        PROVE  \E k \in DOMAIN queue[th] :
                 /\ queue[th][k] = queue'[th][j] /\ k # i
                 /\ k = IF ~(j < i) THEN j + 1 ELSE j
    <3>1. j \in 1..n - 1 /\ i \in 1..n /\ queue[th] = q
      BY <1>1, <1>2, <1>3 DEF q
    <3>2. CASE j < i
      <4> j \in DOMAIN queue[th] /\ queue[th][j] = queue'[th][j] /\ j # i
        BY <1>2, <1>3, <3>1, <3>2
      <4> QED
        BY <3>2
    <3>3. CASE ~(j < i)
      <4>1. j + 1 \in 1..n /\ j + 1 # i
        BY <1>2, <3>1, <3>3
      <4>2. queue'[th][j] = q[j + 1]
        BY <1>3, <3>1, <3>3
      <4> j + 1 \in DOMAIN queue[th] /\ queue[th][j + 1] = queue'[th][j] /\ j + 1 # i
        BY <1>2, <3>1, <4>1, <4>2
      <4> QED
        BY <3>3
    <3> QED
      BY <3>2, <3>3
  <2> QED
    BY <1>2, <2>1
<1>5. QueuedOnce'
  <2> SUFFICES ASSUME NEW h1 \in Threads, NEW h2 \in Threads,
                      NEW j1 \in DOMAIN queue'[h1], NEW j2 \in DOMAIN queue'[h2],
                      queue'[h1][j1] = queue'[h2][j2]
               PROVE  h1 = h2 /\ j1 = j2
    BY DEF QueuedOnce
  <2>1. PICK k1 \in DOMAIN queue[h1] :
          /\ queue[h1][k1] = queue'[h1][j1]
          /\ k1 = IF h1 = th /\ ~(j1 < i) THEN j1 + 1 ELSE j1
    BY <1>4
  <2>2. PICK k2 \in DOMAIN queue[h2] :
          /\ queue[h2][k2] = queue'[h2][j2]
          /\ k2 = IF h2 = th /\ ~(j2 < i) THEN j2 + 1 ELSE j2
    BY <1>4
  <2>3. h1 = h2 /\ k1 = k2
    BY <2>1, <2>2 DEF WordsInv, QueuedOnce
  <2>4. CASE h1 = th
    <3> j1 \in Int /\ j2 \in Int /\ i \in Int
      BY <1>1, <1>2, <1>3, <2>3, <2>4 DEF q
    <3> QED
      BY <2>1, <2>2, <2>3, <2>4
  <2>5. CASE h1 # th
    BY <2>1, <2>2, <2>3, <2>5
  <2> QED
    BY <2>3, <2>4, <2>5
<1>6. \A h \in Threads : \A j \in DOMAIN queue'[h] :
         /\ queue'[h][j] # w /\ queue'[h][j] \in Words
         /\ fate[queue'[h][j]] = "queued"
  <2> SUFFICES ASSUME NEW h \in Threads, NEW j \in DOMAIN queue'[h]
               PROVE  /\ queue'[h][j] # w /\ queue'[h][j] \in Words
                      /\ fate[queue'[h][j]] = "queued"
    OBVIOUS
  <2>1. PICK k \in DOMAIN queue[h] : queue[h][k] = queue'[h][j] /\ (h = th => k # i)
    BY <1>4
  <2>2. queue[h][k] # w
    BY <1>1, <2>1 DEF WordsInv, QueuedOnce
  <2>3. queue[h][k] \in Words
    BY DEF TypeInv, TypeOK
  <2> QED
    BY <2>1, <2>2, <2>3 DEF WordsInv, QueuedFate
<1>7. fate' = [fate EXCEPT ![w] = "returned"] /\ UNCHANGED <<into, steering>>
  BY DEF CancelQueued
<1>8. fate[w] = "queued"
  BY <1>1 DEF WordsInv, QueuedFate
<1>9. QueuedFate'
  BY <1>6, <1>7 DEF QueuedFate, TypeInv, TypeOK
<1>10. WaitingIsUntaken' /\ SteeredOnce' /\ OneTurn
  BY <1>7, <1>8 DEF WordsInv, WaitingIsUntaken, SteeredOnce, OneTurn, TypeInv, TypeOK
<1> QED
  BY <1>5, <1>9, <1>10 DEF WordsInv

(* What a drain hands out was waiting, so no turn had it. *)
LEMMA DrainKeepsWords ==
  ASSUME TypeInv, WordsInv, NEW kinds, NEW p, NEW cl, NEW gens, NEW bnd, NEW act,
         Drain(kinds, p, cl, gens, bnd, act), UNCHANGED steering
  PROVE  WordsInv' /\ OneTurn
<1>1. CASE UNCHANGED <<queue, fate, into>>
  BY <1>1 DEF WordsInv, QueuedOnce, QueuedFate, WaitingIsUntaken, SteeredOnce, OneTurn
<1>2. \A w \in QueuedWords : fate[w] = "queued" /\ w \in Words
  BY DEF QueuedWords, ItemsOf, WordsInv, QueuedFate, TypeInv, TypeOK
<1>3. ASSUME queue' = [th \in Threads |-> <<>>], UNCHANGED into,
             fate' = [w \in Words |-> IF w \in QueuedWords THEN "refused" ELSE fate[w]]
      PROVE  WordsInv' /\ OneTurn
  <2>1. QueuedOnce' /\ QueuedFate'
    BY <1>3 DEF QueuedOnce, QueuedFate
  <2>2. WaitingIsUntaken' /\ OneTurn
    BY <1>3 DEF WordsInv, WaitingIsUntaken, OneTurn
  <2>3. \A w \in Words : fate[w] = "steering" => fate'[w] = "steering"
    BY <1>2, <1>3
  <2>4. SteeredOnce'
    BY <2>3 DEF WordsInv, SteeredOnce, TypeInv, TypeOK
  <2> QED
    BY <2>1, <2>2, <2>4 DEF WordsInv
<1>4. ASSUME NEW th \in QueuedThreads, NEW t \in Turns, Hand(ItemsOf(queue[th]), t),
             TakeQueue(th)
      PROVE  WordsInv' /\ OneTurn
  <2> DEFINE ws == ItemsOf(queue[th])
  <2>1. th \in Threads /\ \A w \in ws : fate[w] = "queued" /\ w \in Words /\ into[w] = None
    BY <1>4 DEF QueuedThreads, ItemsOf, WordsInv, QueuedFate, WaitingIsUntaken, TypeInv, TypeOK
  <2>2. \A h \in Threads \ {th} : queue'[h] = queue[h] /\ \A j \in DOMAIN queue[h] : queue[h][j] \notin ws
    BY <1>4, <2>1 DEF TakeQueue, ItemsOf, WordsInv, QueuedOnce, TypeInv, TypeOK
  <2>3. queue'[th] = <<>>
    BY <1>4, <2>1 DEF TakeQueue, TypeInv, TypeOK
  <2> HIDE DEF ws
  <2>4. /\ fate' = [w \in Words |-> IF w \in ws THEN "handed" ELSE fate[w]]
        /\ into' = [w \in Words |-> IF w \in ws THEN t ELSE into[w]]
    BY <1>4 DEF Hand, ws
  <2>5. QueuedOnce'
    BY <2>2, <2>3 DEF WordsInv, QueuedOnce
  <2>6. \A h \in Threads \ {th} : \A j \in DOMAIN queue[h] :
          queue[h][j] \in Words /\ fate'[queue[h][j]] = "queued"
    BY <2>2, <2>4 DEF WordsInv, QueuedFate, TypeInv, TypeOK
  <2>7. QueuedFate'
    BY <2>2, <2>3, <2>6 DEF QueuedFate
  <2>8. WaitingIsUntaken' /\ OneTurn
    BY <2>1, <2>4 DEF WordsInv, WaitingIsUntaken, OneTurn
  <2>9. \A w \in Words : fate[w] = "steering" => fate'[w] = "steering"
    BY <2>1, <2>4
  <2>10. SteeredOnce'
    BY <2>9 DEF WordsInv, SteeredOnce, TypeInv, TypeOK
  <2> QED
    BY <2>5, <2>7, <2>8, <2>10 DEF WordsInv
<1> QED
  BY <1>1, <1>3, <1>4 DEF Drain, waitingVars

(* A word that is taken now was not waiting in a queue. *)
LEMMA TakenKeepsWords ==
  ASSUME TypeInv, WordsInv, NEW w \in Words, NEW f \in Fates \ {"unsent", "queued", "steering"},
         NEW o, into[w] = None \/ o = into[w], fate[w] # "queued",
         fate' = [fate EXCEPT ![w] = f], into' = [into EXCEPT ![w] = o],
         UNCHANGED queue, steering' \subseteq steering, \A x \in steering' : x[1] # w
  PROVE  WordsInv' /\ OneTurn
<1>1. \A th \in Threads : \A i \in DOMAIN queue[th] : queue[th][i] \in Words /\ queue[th][i] # w
  BY DEF WordsInv, QueuedFate, TypeInv, TypeOK
<1>2. QueuedOnce' /\ QueuedFate'
  BY <1>1 DEF WordsInv, QueuedOnce, QueuedFate, TypeInv, TypeOK
<1>3. WaitingIsUntaken' /\ OneTurn
  BY DEF WordsInv, WaitingIsUntaken, OneTurn, TypeInv, TypeOK
<1>4. SteeredOnce'
  BY DEF WordsInv, SteeredOnce, TypeInv, TypeOK
<1> QED
  BY <1>2, <1>3, <1>4 DEF WordsInv

LEMMA SendKeepsWords ==
  ASSUME TypeInv, WordsInv, NEW w \in Words, Send(w)
  PROVE  WordsInv' /\ OneTurn
<1>1. fate[w] = "unsent" /\ into[w] = None
  BY DEF Send, WordsInv, WaitingIsUntaken
<1>2. \A x \in steering : x[1] # w
  BY <1>1 DEF WordsInv, SteeredOnce
<1>3. ASSUME NEW t \in Turns, Hand({w}, t), UNCHANGED <<queue, steering>>
      PROVE  WordsInv' /\ OneTurn
  <2>1. fate' = [fate EXCEPT ![w] = "handed"] /\ into' = [into EXCEPT ![w] = t]
    BY <1>3 DEF Hand, TypeInv, TypeOK
  <2> QED
    BY <1>1, <1>2, <1>3, <2>1, TakenKeepsWords DEF Fates
<1>4. ASSUME fate' = [fate EXCEPT ![w] = "returned"], UNCHANGED <<queue, into, steering>>
      PROVE  WordsInv' /\ OneTurn
  <2>1. into' = [into EXCEPT ![w] = into[w]]
    BY <1>4 DEF TypeInv, TypeOK
  <2> QED
    BY <1>1, <1>2, <1>4, <2>1, TakenKeepsWords DEF Fates
<1>5. ASSUME queue' = [queue EXCEPT ![current] = Append(@, w)],
             fate' = [fate EXCEPT ![w] = "queued"], UNCHANGED <<into, steering>>
      PROVE  WordsInv' /\ OneTurn
  <2>1. QueuedOnce' /\ QueuedFate'
    BY <1>1, <1>5, AppendQueues DEF WordsInv, TypeInv, TypeOK
  <2>2. WaitingIsUntaken' /\ OneTurn /\ SteeredOnce'
    BY <1>1, <1>2, <1>5
    DEF WordsInv, WaitingIsUntaken, OneTurn, SteeredOnce, TypeInv, TypeOK
  <2> QED
    BY <2>1, <2>2 DEF WordsInv
<1>6. ASSUME NEW o, fate' = [fate EXCEPT ![w] = "steering"], into' = [into EXCEPT ![w] = o],
             UNCHANGED queue, steering' = steering \cup {<<w, current>>}
      PROVE  WordsInv' /\ OneTurn
  <2>1. \A th \in Threads : \A i \in DOMAIN queue[th] : queue[th][i] \in Words /\ queue[th][i] # w
    BY <1>1 DEF WordsInv, QueuedFate, TypeInv, TypeOK
  <2>2. QueuedOnce' /\ QueuedFate'
    BY <1>6, <2>1 DEF WordsInv, QueuedOnce, QueuedFate, TypeInv, TypeOK
  <2>3. WaitingIsUntaken' /\ OneTurn
    BY <1>1, <1>6 DEF WordsInv, WaitingIsUntaken, OneTurn, TypeInv, TypeOK
  <2>4. SteeredOnce'
    BY <1>1, <1>2, <1>6 DEF WordsInv, SteeredOnce, TypeInv, TypeOK
  <2> QED
    BY <2>2, <2>3, <2>4 DEF WordsInv
<1>7. fate'[w] # "steering" => UNCHANGED steering
  BY DEF Send
<1> QED
  BY <1>3, <1>4, <1>5, <1>6, <1>7 DEF Send, TypeInv, TypeOK, Hand

LEMMA SteerKeepsWords ==
  ASSUME TypeInv, WordsInv, NEW w \in Words, NEW th \in Threads, SteerReturns(w, th)
  PROVE  WordsInv' /\ OneTurn
<1>1. fate[w] = "steering" /\ steering' = steering \ {<<w, th>>}
  BY DEF SteerReturns, WordsInv, SteeredOnce
<1>2. steering' \subseteq steering /\ \A x \in steering' : x[1] # w
  BY <1>1 DEF SteerReturns, WordsInv, SteeredOnce
<1>3. ASSUME NEW f \in {"returned", "steered"}, fate' = [fate EXCEPT ![w] = f],
             UNCHANGED <<queue, into>>
      PROVE  WordsInv' /\ OneTurn
  <2>1. into' = [into EXCEPT ![w] = into[w]]
    BY <1>3 DEF TypeInv, TypeOK
  <2> QED
    BY <1>1, <1>2, <1>3, <2>1, TakenKeepsWords DEF Fates
<1>4. ASSUME ~Accepted(w), queue' = [queue EXCEPT ![th] = Append(@, w)],
             fate' = [fate EXCEPT ![w] = "queued"], UNCHANGED into
      PROVE  WordsInv' /\ OneTurn
  <2>1. QueuedOnce' /\ QueuedFate'
    BY <1>1, <1>4, AppendQueues DEF WordsInv, TypeInv, TypeOK
  <2>2. WaitingIsUntaken' /\ OneTurn
    BY <1>4 DEF Accepted, WordsInv, WaitingIsUntaken, OneTurn, TypeInv, TypeOK
  <2>3. SteeredOnce'
    BY <1>2, <1>4 DEF WordsInv, SteeredOnce, TypeInv, TypeOK
  <2> QED
    BY <2>1, <2>2, <2>3 DEF WordsInv
<1>5. ASSUME ~Accepted(w), NEW t \in Turns, Hand({w}, t), UNCHANGED queue
      PROVE  WordsInv' /\ OneTurn
  <2>1. fate' = [fate EXCEPT ![w] = "handed"] /\ into' = [into EXCEPT ![w] = t]
    BY <1>5 DEF Hand, TypeInv, TypeOK
  <2> QED
    BY <1>1, <1>2, <1>5, <2>1, TakenKeepsWords DEF Fates, Accepted
<1> QED
  BY <1>3, <1>4, <1>5 DEF SteerReturns

LEMMA WordsStep == TypeInv /\ WordsInv /\ [Next]_vars => WordsInv' /\ OneTurn
<1> SUFFICES ASSUME TypeInv, WordsInv, [Next]_vars
             PROVE  WordsInv' /\ OneTurn
  OBVIOUS
<1>1. ASSUME UNCHANGED <<queue, fate, into, steering>> PROVE WordsInv' /\ OneTurn
  BY <1>1 DEF WordsInv, QueuedOnce, QueuedFate, WaitingIsUntaken, SteeredOnce, OneTurn
<1>2. ASSUME NEW t \in Turns, CatchEnds(t) PROVE WordsInv' /\ OneTurn
  BY <1>1, <1>2, DrainKeepsWords DEF CatchEnds, waitingVars
<1>3. ASSUME NEW t \in Turns, NEW e \in BOOLEAN, Settle(t, e) PROVE WordsInv' /\ OneTurn
  BY <1>1, <1>3, DrainKeepsWords DEF Settle, waitingVars
<1>4. ASSUME NEW g \in grace, GraceEnds(g) PROVE WordsInv' /\ OneTurn
  BY <1>1, <1>4, DrainKeepsWords DEF GraceEnds, waitingVars
<1>5. ASSUME NEW t \in Turns,
             \/ SetupEnds(t) \/ SetupFails(t) \/ Dispatch(t) \/ SendResolves(t)
             \/ SendRejects(t) \/ GuardStopReturns(t) \/ ProviderStarts(t) \/ Relaunch(t)
             \/ Ask(t) \/ Answer(t) \/ ExpireHandshake(t)
      PROVE  WordsInv' /\ OneTurn
  BY <1>1, <1>5
  DEF SetupEnds, SetupFails, Dispatch, SendResolves, SendRejects, GuardStopReturns,
      ProviderStarts, Relaunch, Ask, Answer, ExpireHandshake, waitingVars
<1>6. ASSUME \/ \E th \in Threads : SwitchTask(th) \/ Stall(th)
             \/ \E th \in Threads, k \in ResumeKinds : ResumeArrives(th, k)
             \/ ToggleGate
             \/ \E e \in Threads \cup {None} : Stop(e)
             \/ \E s \in stops : StopReaches(s)
             \/ UNCHANGED vars
      PROVE  WordsInv' /\ OneTurn
  BY <1>1, <1>6
  DEF SwitchTask, Stall, ResumeArrives, ToggleGate, Stop, StopReaches, vars, waitingVars
<1> QED
  BY <1>2, <1>3, <1>4, <1>5, <1>6, SendKeepsWords, SteerKeepsWords, RemovalKeepsQueues
  DEF Next, TurnStep, ProviderStep

(* However Stop, live steering and the drains of the queue are interleaved, *)
(* the words of one message never reach two turns.                         *)
THEOREM WordsAreTakenOnce == Spec => WordsReachOneTurn
<1>1. Init => WordsInv
  BY DEF Init, WordsInv, QueuedOnce, QueuedFate, WaitingIsUntaken, SteeredOnce
<1>2. TypeInv /\ WordsInv /\ [Next]_vars =>
        [\A w \in Words : into[w] # None => into'[w] = into[w]]_vars
  BY WordsStep DEF OneTurn
<1> QED
  BY <1>1, <1>2, WordsStep, TypeInvariant, PTL DEF Spec, WordsReachOneTurn
------------------------------------------------------------------------------
(* The converse of QueuedFate: a word that is said to wait does.           *)
Waits(w) == \E th \in Threads : \E i \in DOMAIN queue[th] : queue[th][i] = w

QueuedWaits == \A w \in Words : fate[w] = "queued" => Waits(w)

LEMMA WaitsInQueue == \A w : Waits(w) <=> w \in QueuedWords
BY DEF Waits, QueuedWords, ItemsOf

LEMMA AppendWaits ==
  ASSUME TypeInv, QueuedWaits, NEW th \in Threads, NEW w \in Words,
         queue' = [queue EXCEPT ![th] = Append(@, w)], fate' = [fate EXCEPT ![w] = "queued"]
  PROVE  QueuedWaits'
<1>1. /\ queue'[th] = Append(queue[th], w) /\ queue[th] \in Seq(Words)
      /\ \A h \in Threads \ {th} : queue'[h] = queue[h]
  BY DEF TypeInv, TypeOK
<1>2. /\ Len(queue[th]) + 1 \in DOMAIN queue'[th] /\ queue'[th][Len(queue[th]) + 1] = w
      /\ \A i \in DOMAIN queue[th] : i \in DOMAIN queue'[th] /\ queue'[th][i] = queue[th][i]
  BY <1>1
<1>3. Waits(w)'
  BY <1>2 DEF Waits
<1>4. \A v \in Words : Waits(v) => Waits(v)'
  BY <1>1, <1>2 DEF Waits
<1>5. \A v \in Words : fate'[v] = "queued" => fate[v] = "queued" \/ v = w
  BY DEF TypeInv, TypeOK
<1> QED
  BY <1>3, <1>4, <1>5 DEF QueuedWaits

LEMMA RemovalWaits ==
  ASSUME TypeInv, WordsInv, QueuedWaits, NEW w \in Words, CancelQueued(w)
  PROVE  QueuedWaits'
<1>0. PICK th \in Threads : \E i \in DOMAIN queue[th] :
        /\ queue[th][i] = w
        /\ queue' = [queue EXCEPT ![th] = SubSeq(@, 1, i - 1) \o SubSeq(@, i + 1, Len(@))]
  BY DEF CancelQueued
<1>1. PICK i \in DOMAIN queue[th] :
        /\ queue[th][i] = w
        /\ queue' = [queue EXCEPT ![th] = SubSeq(@, 1, i - 1) \o SubSeq(@, i + 1, Len(@))]
  BY <1>0
<1> DEFINE q == queue[th]
           n == Len(q)
<1>2. q \in Seq(Words) /\ DOMAIN q = 1..n /\ n \in Nat /\ i \in 1..n
  <2>1. q \in Seq(Words)
    BY DEF TypeInv, TypeOK
  <2> QED
    BY <1>1, <2>1
<1>3. /\ \A h \in Threads \ {th} : queue'[h] = queue[h]
      /\ queue'[th] = SubSeq(q, 1, i - 1) \o SubSeq(q, i + 1, n)
  BY <1>1 DEF TypeInv, TypeOK
<1> HIDE DEF q
<1>4. /\ DOMAIN queue'[th] = 1..n - 1
      /\ \A j \in 1..n - 1 : queue'[th][j] = IF j < i THEN q[j] ELSE q[j + 1]
  BY <1>2, <1>3, RemovedWord
<1> HIDE DEF n
<1>5. ASSUME NEW k \in DOMAIN queue[th], k # i
      PROVE  \E j \in DOMAIN queue'[th] : queue'[th][j] = queue[th][k]
  <2>1. k \in 1..n /\ queue[th][k] = q[k]
    BY <1>2 DEF q
  <2>2. CASE k < i
    <3>1. k \in 1..n - 1
      BY <1>2, <2>1, <2>2
    <3> QED
      BY <1>4, <2>1, <2>2, <3>1
  <2>3. CASE ~(k < i)
    <3>1. k - 1 \in 1..n - 1 /\ ~(k - 1 < i) /\ (k - 1) + 1 = k
      BY <1>2, <1>5, <2>1, <2>3
    <3>2. queue'[th][k - 1] = q[(k - 1) + 1]
      BY <1>4, <3>1
    <3> QED
      BY <1>4, <2>1, <3>1, <3>2
  <2> QED
    BY <2>2, <2>3
<1>6. fate' = [fate EXCEPT ![w] = "returned"]
  BY DEF CancelQueued
<1> SUFFICES ASSUME NEW v \in Words, fate'[v] = "queued" PROVE Waits(v)'
  BY DEF QueuedWaits
<1>7. v # w /\ fate[v] = "queued"
  BY <1>6 DEF TypeInv, TypeOK
<1>8. PICK h \in Threads : \E k \in DOMAIN queue[h] : queue[h][k] = v
  BY <1>7 DEF QueuedWaits, Waits
<1>9. PICK k \in DOMAIN queue[h] : queue[h][k] = v
  BY <1>8
<1>10. CASE h = th
  BY <1>1, <1>5, <1>7, <1>9, <1>10 DEF Waits
<1>11. CASE h # th
  BY <1>3, <1>9, <1>11 DEF Waits
<1> QED
  BY <1>10, <1>11

LEMMA DrainWaits ==
  ASSUME TypeInv, QueuedWaits, NEW kinds, NEW p, NEW cl, NEW gens, NEW bnd, NEW act,
         Drain(kinds, p, cl, gens, bnd, act)
  PROVE  QueuedWaits'
<1>1. CASE UNCHANGED <<queue, fate>>
  BY <1>1 DEF QueuedWaits, Waits
<1>2. CASE fate' = [w \in Words |-> IF w \in QueuedWords THEN "refused" ELSE fate[w]]
  BY <1>2, WaitsInQueue DEF QueuedWaits
<1>3. ASSUME NEW th \in QueuedThreads, NEW t \in Turns, Hand(ItemsOf(queue[th]), t),
             TakeQueue(th)
      PROVE  QueuedWaits'
  <2> SUFFICES ASSUME NEW w \in Words, fate'[w] = "queued" PROVE Waits(w)'
    BY DEF QueuedWaits
  <2>1. w \notin ItemsOf(queue[th]) /\ fate[w] = "queued"
    BY <1>3 DEF Hand
  <2>2. PICK h \in Threads : \E i \in DOMAIN queue[h] : queue[h][i] = w
    BY <2>1 DEF QueuedWaits, Waits
  <2>3. h # th
    BY <2>1, <2>2 DEF ItemsOf
  <2>4. queue'[h] = queue[h]
    BY <1>3, <2>3 DEF TakeQueue, TypeInv, TypeOK
  <2> QED
    BY <2>2, <2>4 DEF Waits
<1> QED
  BY <1>1, <1>2, <1>3 DEF Drain, waitingVars

LEMMA PersonWaits ==
  ASSUME TypeInv, QueuedWaits, NEW w \in Words,
         Send(w) \/ \E th \in Threads : SteerReturns(w, th)
  PROVE  QueuedWaits'
<1>1. ASSUME UNCHANGED queue, \A v \in Words : fate'[v] = "queued" => fate[v] = "queued"
      PROVE  QueuedWaits'
  BY <1>1 DEF QueuedWaits, Waits
<1>2. ASSUME NEW f \in {"returned", "steering", "steered"}, UNCHANGED queue,
             fate' = [fate EXCEPT ![w] = f]
      PROVE  QueuedWaits'
  BY <1>1, <1>2 DEF TypeInv, TypeOK
<1>3. ASSUME NEW t, Hand({w}, t), UNCHANGED queue PROVE QueuedWaits'
  BY <1>1, <1>3 DEF Hand
<1>4. ASSUME NEW th \in Threads, queue' = [queue EXCEPT ![th] = Append(@, w)],
             fate' = [fate EXCEPT ![w] = "queued"]
      PROVE  QueuedWaits'
  BY <1>4, AppendWaits
<1>5. CASE Send(w)
  BY <1>2, <1>3, <1>4, <1>5 DEF Send, TypeInv, TypeOK
<1>6. ASSUME NEW th \in Threads, SteerReturns(w, th) PROVE QueuedWaits'
  BY <1>2, <1>3, <1>4, <1>6 DEF SteerReturns
<1> QED
  BY <1>5, <1>6

LEMMA WaitsStep == TypeInv /\ WordsInv /\ QueuedWaits /\ [Next]_vars => QueuedWaits'
<1> SUFFICES ASSUME TypeInv, WordsInv, QueuedWaits, [Next]_vars PROVE QueuedWaits'
  OBVIOUS
<1>1. ASSUME UNCHANGED <<queue, fate>> PROVE QueuedWaits'
  BY <1>1 DEF QueuedWaits, Waits
<1>2. ASSUME NEW t \in Turns, TurnStep(t) PROVE QueuedWaits'
  BY <1>1, <1>2, DrainWaits
  DEF TurnStep, SetupEnds, SetupFails, Dispatch, SendResolves, SendRejects, GuardStopReturns,
      CatchEnds, waitingVars
<1>3. ASSUME NEW t \in Turns, ProviderStep(t) \/ ExpireHandshake(t) PROVE QueuedWaits'
  BY <1>1, <1>3, DrainWaits
  DEF ProviderStep, ProviderStarts, Relaunch, Ask, Answer, Settle, ExpireHandshake, waitingVars
<1>4. ASSUME NEW g \in grace, GraceEnds(g) PROVE QueuedWaits'
  BY <1>1, <1>4, DrainWaits DEF GraceEnds, waitingVars
<1>5. ASSUME \/ \E th \in Threads : SwitchTask(th) \/ Stall(th)
             \/ \E th \in Threads, k \in ResumeKinds : ResumeArrives(th, k)
             \/ ToggleGate
             \/ \E e \in Threads \cup {None} : Stop(e)
             \/ \E s \in stops : StopReaches(s)
             \/ UNCHANGED vars
      PROVE  QueuedWaits'
  BY <1>1, <1>5
  DEF SwitchTask, Stall, ResumeArrives, ToggleGate, Stop, StopReaches, vars, waitingVars
<1> QED
  BY <1>2, <1>3, <1>4, <1>5, PersonWaits, RemovalWaits DEF Next

(* However settles, cancellations of queued messages and drains race, a    *)
(* message that waits stands in one place of one task's queue, and one     *)
(* that left it stands in none.                                            *)
THEOREM WordsWaitOnce == Spec => []WordsAreInOnePlace
<1>1. Init => WordsInv /\ QueuedWaits
  BY DEF Init, WordsInv, QueuedOnce, QueuedFate, WaitingIsUntaken, SteeredOnce, QueuedWaits
<1>2. TypeInv /\ WordsInv /\ QueuedWaits => WordsAreInOnePlace
  <2> SUFFICES ASSUME TypeInv, WordsInv, QueuedWaits PROVE WordsAreInOnePlace
    OBVIOUS
  <2>1. \A w \in QueuedWords : w \in Words /\ fate[w] = "queued"
    BY DEF QueuedWords, ItemsOf, WordsInv, QueuedFate, TypeInv, TypeOK
  <2>2. \A w \in Words : fate[w] = "queued" => w \in QueuedWords
    BY WaitsInQueue DEF QueuedWaits
  <2> QED
    BY <2>1, <2>2 DEF WordsAreInOnePlace, WordsInv, QueuedOnce
<1> QED
  BY <1>1, <1>2, WordsStep, WaitsStep, TypeInvariant, PTL DEF Spec
------------------------------------------------------------------------------
(***************************************************************************)
(* The bot implements TurnQueue.  Each step that starts a turn takes words *)
(* out of one lane or out of nobody's hands, each release empties the      *)
(* lanes, and the rest of the machinery is a stutter.                      *)
(***************************************************************************)
BusyIsHeld == Busy => latest \in Turns

MapInv == TypeInv /\ WordsInv /\ QueuedWaits /\ IdleBotHasEmptyQueues /\ BusyIsHeld

LEMMA NobodyWaits ==
  ASSUME MapInv, QueuedThreads = {} PROVE \A w \in Words : fate[w] # "queued"
BY DEF MapInv, QueuedWaits, Waits, QueuedThreads, TypeInv, TypeOK

LEMMA BeginTakes ==
  ASSUME TypeInv, NEW t \in Turns, NEW th, NEW p, SameProgress(p), NEW gens, NEW bnd,
         Begin(t, th, p, gens, bnd), NEW ws \in SUBSET Words,
         Hand(ws, t) \/ (ws = {} /\ UNCHANGED <<fate, into>>)
  PROVE  Queue!Takes(t, ws) /\ BusyIsHeld'
<1>1. pc' = [p EXCEPT ![t] = "setup"] /\ pc[t] = "none" /\ p \in [Turns -> Pcs]
  BY DEF Begin, SameProgress
<1>2. t \notin Began /\ Began' = Began \cup {t}
  BY <1>1 DEF Began, SameProgress
<1>3. Busy' /\ latest' = t
  BY DEF Begin, Busy
<1>4. [w \in Words |-> PlaceOf(fate[w])]' =
        [w \in Words |-> IF w \in ws THEN "taken" ELSE [v \in Words |-> PlaceOf(fate[v])][w]]
  <2>1. \A w \in Words : fate'[w] = IF w \in ws THEN "handed" ELSE fate[w]
    BY DEF Hand, TypeInv, TypeOK
  <2>2. \A w \in Words : PlaceOf(fate'[w]) = IF w \in ws THEN "taken" ELSE PlaceOf(fate[w])
    BY <2>1 DEF PlaceOf
  <2> QED
    BY <2>2
<1>5. into' = [w \in Words |-> IF w \in ws THEN t ELSE into[w]]
  BY DEF Hand, TypeInv, TypeOK
<1> QED
  BY <1>2, <1>3, <1>4, <1>5 DEF Queue!Takes, BusyIsHeld

LEMMA DrainReleases ==
  ASSUME MapInv, NEW kinds, NEW p, SameProgress(p), NEW cl, NEW gens, NEW bnd,
         NEW act \in {"idle", "dead"}, Drain(kinds, p, cl, gens, bnd, act)
  PROVE  Queue!Release /\ BusyIsHeld'
<1> USE DEF MapInv
<1>1. ASSUME Rest(p, cl, gens, bnd, act)
      PROVE  /\ (IF Busy THEN latest ELSE None)' = None /\ Began' = Began /\ BusyIsHeld'
  BY <1>1 DEF Rest, Busy, Began, SameProgress, BusyIsHeld
<1>2. Queue!Waiting = {w \in Words : fate[w] = "queued"}
  BY DEF Queue!Waiting, PlaceOf, TypeInv, TypeOK, Fates
<1>3. QueuedWords = {w \in Words : fate[w] = "queued"}
  BY WaitsInQueue DEF QueuedWaits, WordsInv, QueuedFate, QueuedWords, ItemsOf, TypeInv, TypeOK
<1>4. ASSUME Rest(p, cl, gens, bnd, act), queue' = [th \in Threads |-> <<>>], UNCHANGED into,
             fate' = [w \in Words |-> IF w \in QueuedWords THEN "refused" ELSE fate[w]]
      PROVE  Queue!Release /\ BusyIsHeld'
  <2>1. [w \in Words |-> PlaceOf(fate[w])]' =
          [w \in Words |-> IF w \in Queue!Waiting THEN "refused"
                           ELSE [v \in Words |-> PlaceOf(fate[v])][w]]
    BY <1>2, <1>3, <1>4 DEF PlaceOf
  <2> QED
    BY <1>1, <1>4, <2>1 DEF Queue!Release
<1>5. ASSUME Rest(p, cl, gens, bnd, act), QueuedThreads = {}, UNCHANGED waitingVars
      PROVE  Queue!Release /\ BusyIsHeld'
  <2>1. Queue!Waiting = {}
    BY <1>2, <1>5, NobodyWaits
  <2>2. UNCHANGED <<queue, into>> /\ UNCHANGED [w \in Words |-> PlaceOf(fate[w])]
    BY <1>5 DEF waitingVars
  <2> QED
    BY <1>1, <1>5, <2>1, <2>2 DEF Queue!Release
<1>6. ASSUME NEW th \in QueuedThreads, NEW t \in Turns, Begin(t, th, p, gens, bnd),
             Hand(ItemsOf(queue[th]), t), TakeQueue(th)
      PROVE  Queue!Release /\ BusyIsHeld'
  <2>1. th \in Threads /\ queue[th] # <<>> /\ ItemsOf(queue[th]) \subseteq Words
    BY <1>6 DEF QueuedThreads, ItemsOf, TypeInv, TypeOK
  <2>2. Queue!InLane(th) = ItemsOf(queue[th])
    BY DEF Queue!InLane, ItemsOf
  <2>3. Queue!Takes(t, ItemsOf(queue[th])) /\ BusyIsHeld'
    BY <1>6, <2>1, BeginTakes
  <2> QED
    BY <1>6, <2>1, <2>2, <2>3 DEF Queue!Release, TakeQueue
<1>7. ASSUME NEW t \in Turns, NEW th, Begin(t, th, p, gens, bnd), QueuedThreads = {},
             UNCHANGED <<queue, fate, into>>
      PROVE  Queue!Release /\ BusyIsHeld'
  <2>1. Queue!Waiting = {}
    BY <1>2, <1>7, NobodyWaits
  <2>2. Queue!Takes(t, {}) /\ BusyIsHeld'
    BY <1>7, BeginTakes
  <2> QED
    BY <1>7, <2>1, <2>2 DEF Queue!Release
<1> QED
  BY <1>4, <1>5, <1>6, <1>7 DEF Drain

LEMMA SendMaps ==
  ASSUME MapInv, NEW w \in Words, Send(w)
  PROVE  Queue!Submit(w, current) /\ BusyIsHeld'
<1> DEFINE place == [v \in Words |-> PlaceOf(fate[v])]
<1>0. TypeInv /\ SameProgress(pc)
  BY DEF MapInv, TypeInv, TypeOK, SameProgress
<1>1. fate[w] = "unsent" /\ place[w] = "new"
  BY DEF Send, PlaceOf
<1>2. Busy => latest # None
  BY NoneAssumption DEF MapInv, BusyIsHeld
<1>3. ASSUME NEW f \in Fates, fate' = [fate EXCEPT ![w] = f]
      PROVE  place' = [place EXCEPT ![w] = PlaceOf(f)]
  BY <1>0, <1>3 DEF TypeInv, TypeOK
<1>4. UNCHANGED dispatchVars => UNCHANGED <<IF Busy THEN latest ELSE None, Began>> /\ BusyIsHeld'
  BY DEF dispatchVars, Busy, Began, MapInv, BusyIsHeld
<1>5. CASE ~Busy /\ \E t \in Turns : Begin(t, current, pc, activeGen, bound) /\ Hand({w}, t)
  BY <1>0, <1>1, <1>5, BeginTakes DEF Send, Queue!Submit
<1>6. CASE ~Busy /\ fate' = [fate EXCEPT ![w] = "returned"] /\ UNCHANGED <<dispatchVars, queue, into>>
  BY <1>1, <1>3, <1>4, <1>6 DEF Queue!Submit, Fates, PlaceOf
<1>7. CASE /\ Busy /\ queue' = [queue EXCEPT ![current] = Append(@, w)]
           /\ fate' = [fate EXCEPT ![w] = "queued"] /\ UNCHANGED <<dispatchVars, into>>
  BY <1>1, <1>2, <1>3, <1>4, <1>7 DEF Queue!Submit, Fates, PlaceOf
<1>8. ASSUME NEW o \in Turns \cup {None}, Busy, fate' = [fate EXCEPT ![w] = "steering"],
             into' = [into EXCEPT ![w] = o], UNCHANGED <<dispatchVars, queue>>
      PROVE  Queue!Submit(w, current) /\ BusyIsHeld'
  BY <1>1, <1>2, <1>3, <1>4, <1>8 DEF Queue!Submit, Fates, PlaceOf
<1>9. adapter[current] \in Turns \cup {None}
  BY <1>0 DEF TypeInv, TypeOK
<1> QED
  BY <1>5, <1>6, <1>7, <1>8, <1>9 DEF Send

LEMMA SteerMaps ==
  ASSUME MapInv, NEW w \in Words, NEW th \in Threads, SteerReturns(w, th)
  PROVE  Queue!OfferEnds(w, th) /\ BusyIsHeld'
<1> DEFINE place == [v \in Words |-> PlaceOf(fate[v])]
<1>0. TypeInv /\ SameProgress(pc)
  BY DEF MapInv, TypeInv, TypeOK, SameProgress
<1>1. fate[w] = "steering" /\ place[w] = "offered"
  BY DEF SteerReturns, PlaceOf, MapInv, WordsInv, SteeredOnce
<1>2. Busy => latest # None
  BY NoneAssumption DEF MapInv, BusyIsHeld
<1>3. ASSUME NEW f \in Fates, fate' = [fate EXCEPT ![w] = f]
      PROVE  place' = [place EXCEPT ![w] = PlaceOf(f)]
  BY <1>0, <1>3 DEF TypeInv, TypeOK
<1>4. UNCHANGED dispatchVars => UNCHANGED <<IF Busy THEN latest ELSE None, Began>> /\ BusyIsHeld'
  BY DEF dispatchVars, Busy, Began, MapInv, BusyIsHeld
<1>5. CASE fate' = [fate EXCEPT ![w] = "returned"] /\ UNCHANGED <<dispatchVars, queue, into>>
  BY <1>1, <1>3, <1>4, <1>5 DEF Queue!OfferEnds, Fates, PlaceOf
<1>6. CASE /\ Busy /\ Accepted(w)
           /\ fate' = [fate EXCEPT ![w] = "steered"] /\ UNCHANGED <<dispatchVars, queue, into>>
  BY <1>1, <1>2, <1>3, <1>4, <1>6 DEF Queue!OfferEnds, Fates, PlaceOf, Accepted
<1>7. CASE /\ Busy /\ ~Accepted(w) /\ queue' = [queue EXCEPT ![th] = Append(@, w)]
           /\ fate' = [fate EXCEPT ![w] = "queued"] /\ UNCHANGED <<dispatchVars, into>>
  BY <1>1, <1>2, <1>3, <1>4, <1>7 DEF Queue!OfferEnds, Fates, PlaceOf, Accepted
<1>8. CASE /\ ~Busy /\ ~Accepted(w) /\ UNCHANGED queue
           /\ \E t \in Turns : Begin(t, th, pc, activeGen, bound) /\ Hand({w}, t)
  BY <1>0, <1>1, <1>8, BeginTakes DEF Queue!OfferEnds, Accepted
<1> QED
  BY <1>5, <1>6, <1>7, <1>8 DEF SteerReturns

LEMMA CancelMaps ==
  ASSUME MapInv, NEW w \in Words, CancelQueued(w)
  PROVE  Queue!Withdraw(w) /\ BusyIsHeld'
<1> DEFINE place == [v \in Words |-> PlaceOf(fate[v])]
<1>1. fate[w] = "queued" /\ place[w] = "held"
  BY DEF CancelQueued, PlaceOf, MapInv, WordsInv, QueuedFate
<1>2. fate' = [fate EXCEPT ![w] = "returned"]
  BY DEF CancelQueued
<1>3. place' = [place EXCEPT ![w] = "returned"]
  BY <1>2 DEF PlaceOf, MapInv, TypeInv, TypeOK
<1>4. UNCHANGED <<IF Busy THEN latest ELSE None, Began, into>> /\ BusyIsHeld'
  BY DEF CancelQueued, dispatchVars, Busy, Began, MapInv, BusyIsHeld
<1> QED
  BY <1>1, <1>3, <1>4 DEF CancelQueued, Queue!Withdraw

(* A continuation that finds the bot idle takes it with no words. *)
LEMMA ResumeMaps ==
  ASSUME MapInv, NEW th \in Threads, NEW k \in ResumeKinds, ResumeArrives(th, k)
  PROVE  (Queue!Release \/ UNCHANGED Queue!vars) /\ BusyIsHeld'
<1>1. TypeInv /\ SameProgress(pc)
  BY DEF MapInv, TypeInv, TypeOK, SameProgress
<1>2. ASSUME ~Busy, NEW t \in Turns, Begin(t, th, pc, activeGen, bound)
      PROVE  Queue!Release /\ BusyIsHeld'
  <2>1. Queue!Waiting = {}
    BY <1>1, <1>2, NobodyWaits
    DEF Queue!Waiting, PlaceOf, MapInv, IdleBotHasEmptyQueues, TypeInv, TypeOK, Fates
  <2>2. UNCHANGED <<queue, fate, into>>
    BY DEF ResumeArrives
  <2>3. Queue!Takes(t, {}) /\ BusyIsHeld'
    BY <1>1, <1>2, <2>2, BeginTakes
  <2> QED
    BY <2>1, <2>2, <2>3 DEF Queue!Release
<1>3. CASE UNCHANGED dispatchVars
  BY <1>3 DEF ResumeArrives, dispatchVars, Busy, Began, Queue!vars, MapInv, BusyIsHeld
<1> QED
  BY <1>2, <1>3 DEF ResumeArrives

LEMMA MapsStep == MapInv /\ [Next]_vars => [Queue!Next]_(Queue!vars) /\ BusyIsHeld'
<1> SUFFICES ASSUME MapInv, [Next]_vars
             PROVE  (Queue!Next \/ UNCHANGED Queue!vars) /\ BusyIsHeld'
  OBVIOUS
<1>0. TypeInv /\ SameProgress(pc)
  BY DEF MapInv, TypeInv, TypeOK, SameProgress
<1>1. ASSUME UNCHANGED <<latest, queue, fate, into>>, Busy' <=> Busy, UNCHANGED Began
      PROVE  UNCHANGED Queue!vars /\ BusyIsHeld'
  BY <1>1 DEF Queue!vars, MapInv, BusyIsHeld
<1>2. ASSUME NEW t \in Turns, NEW s \in Pcs \ {"none"}, pc' = [pc EXCEPT ![t] = s], pc[t] # "none"
      PROVE  UNCHANGED Began
  BY <1>0, <1>2 DEF Began, TypeInv, TypeOK
<1>3. ASSUME NEW t \in Turns, CatchEnds(t)
      PROVE  (Queue!Next \/ UNCHANGED Queue!vars) /\ BusyIsHeld'
  <2> DEFINE p == [pc EXCEPT ![t] = "done"]
  <2>1. SameProgress(p)
    BY <1>0, <1>3 DEF CatchEnds, SameProgress, TypeInv, TypeOK, Pcs
  <2>2. AfterCatch(t) \in {"idle", "dead"}
    BY <1>0 DEF AfterCatch, Busy, TypeInv, TypeOK, Activities
  <2>3. CASE Drain(CatchKinds, p, claim, activeGen, bound, AfterCatch(t))
    BY <2>1, <2>2, <2>3, DrainReleases DEF Queue!Next
  <2>4. CASE pc' = p /\ UNCHANGED <<activity, latest, waitingVars>>
    BY <1>1, <1>2, <1>3, <2>4 DEF CatchEnds, waitingVars, Busy, Pcs
  <2> QED
    BY <1>3, <2>3, <2>4 DEF CatchEnds
<1>4. ASSUME NEW t \in Turns, NEW e \in BOOLEAN, Settle(t, e)
      PROVE  (Queue!Next \/ UNCHANGED Queue!vars) /\ BusyIsHeld'
  <2>1. CASE UNCHANGED <<dispatchVars, waitingVars>>
    BY <1>1, <2>1 DEF dispatchVars, waitingVars, Busy, Began
  <2>2. ASSUME NEW gens, NEW bnd, NEW act \in {"idle", "dead"},
               Drain(ResumeKinds, pc, claim, gens, bnd, act)
        PROVE  (Queue!Next \/ UNCHANGED Queue!vars) /\ BusyIsHeld'
    BY <1>0, <2>2, DrainReleases DEF Queue!Next
  <2> QED
    BY <1>4, <2>1, <2>2 DEF Settle
<1>5. ASSUME NEW g \in grace, GraceEnds(g)
      PROVE  (Queue!Next \/ UNCHANGED Queue!vars) /\ BusyIsHeld'
  <2>1. CASE UNCHANGED <<dispatchVars, waitingVars>>
    BY <1>1, <2>1 DEF dispatchVars, waitingVars, Busy, Began
  <2>2. CASE Drain(GraceKinds, pc, claim, activeGen, bound, "idle")
    BY <1>0, <2>2, DrainReleases DEF Queue!Next
  <2> QED
    BY <1>5, <2>1, <2>2 DEF GraceEnds
<1>6. ASSUME NEW t \in Turns,
             \/ SetupEnds(t) \/ SetupFails(t) \/ Dispatch(t) \/ SendResolves(t)
             \/ SendRejects(t) \/ GuardStopReturns(t)
      PROVE  (Queue!Next \/ UNCHANGED Queue!vars) /\ BusyIsHeld'
  <2>1. /\ UNCHANGED <<activity, latest, waitingVars>> /\ pc[t] # "none"
        /\ \E s \in Pcs \ {"none"} : pc' = [pc EXCEPT ![t] = s]
    BY <1>6
    DEF SetupEnds, SetupFails, Dispatch, SendResolves, SendRejects, GuardStopReturns,
        CatchEntry, Pcs
  <2> QED
    BY <1>1, <1>2, <2>1 DEF waitingVars, Busy
<1>7. ASSUME NEW t \in Turns,
             ProviderStarts(t) \/ Relaunch(t) \/ Ask(t) \/ Answer(t) \/ ExpireHandshake(t)
      PROVE  (Queue!Next \/ UNCHANGED Queue!vars) /\ BusyIsHeld'
  BY <1>1, <1>7
  DEF ProviderStarts, Relaunch, Ask, Answer, ExpireHandshake, dispatchVars, waitingVars, Busy, Began
<1>8. ASSUME \/ \E th \in Threads : SwitchTask(th) \/ Stall(th)
             \/ ToggleGate
             \/ \E e \in Threads \cup {None} : Stop(e)
             \/ \E s \in stops : StopReaches(s)
             \/ UNCHANGED vars
      PROVE  (Queue!Next \/ UNCHANGED Queue!vars) /\ BusyIsHeld'
  BY <1>1, <1>8
  DEF SwitchTask, Stall, ToggleGate, Stop, StopReaches, vars, dispatchVars, waitingVars, Busy, Began
<1>9. ASSUME NEW w \in Words,
             \/ Send(w) \/ CancelQueued(w) \/ \E th \in Threads : SteerReturns(w, th)
      PROVE  (Queue!Next \/ UNCHANGED Queue!vars) /\ BusyIsHeld'
  <2>1. current \in Threads
    BY <1>0 DEF TypeInv, TypeOK
  <2> QED
    BY <1>9, <2>1, SendMaps, CancelMaps, SteerMaps DEF Queue!Next
<1>10. ASSUME NEW th \in Threads, NEW k \in ResumeKinds, ResumeArrives(th, k)
       PROVE  (Queue!Next \/ UNCHANGED Queue!vars) /\ BusyIsHeld'
  BY <1>10, ResumeMaps DEF Queue!Next
<1> QED
  BY <1>3, <1>4, <1>5, <1>6, <1>7, <1>8, <1>9, <1>10 DEF Next, TurnStep, ProviderStep

(* However turns are stopped, stall, fail or settle out of order, what the *)
(* people who write to a bot see of it is TurnQueue: one turn holds the    *)
(* bot, a new turn takes the words of one task whole and each word once,   *)
(* and whatever frees the bot leaves nobody waiting.                       *)
THEOREM BotIsATurnQueue == Spec => ImplementsTurnQueue
<1>1. Init => Queue!Init /\ WordsInv /\ QueuedWaits /\ IdleBotHasEmptyQueues /\ BusyIsHeld
  <2> SUFFICES ASSUME Init
               PROVE  Queue!Init /\ WordsInv /\ QueuedWaits /\ IdleBotHasEmptyQueues /\ BusyIsHeld
    OBVIOUS
  <2>1. ~Busy /\ Began = {} /\ QueuedThreads = {}
    BY DEF Init, Busy, Began, QueuedThreads
  <2>2. Queue!Init
    BY <2>1 DEF Init, Queue!Init, PlaceOf
  <2> QED
    BY <2>1, <2>2
    DEF Init, WordsInv, QueuedOnce, QueuedFate, WaitingIsUntaken, SteeredOnce, QueuedWaits,
        IdleBotHasEmptyQueues, BusyIsHeld
<1>2. MapInv /\ [Next]_vars => MapInv'
  BY TypeStep, WordsStep, WaitsStep, IdleStep, MapsStep DEF MapInv
<1>3. Init => MapInv
  BY <1>1, TypeInit DEF MapInv
<1>4. MapInv /\ [Next]_vars => [Queue!Next]_(Queue!vars)
  BY MapsStep
<1> QED
  BY <1>1, <1>2, <1>3, <1>4, PTL DEF Spec, ImplementsTurnQueue, Queue!Spec
============================================================================
