-------------------------- MODULE TaskThreadsProofs --------------------------
(***************************************************************************)
(* For any number of tasks, of threads that post them, and of restarts.    *)
(*                                                                         *)
(* The services' threads: a service runs what post takes in order and      *)
(* once, and a stop that got its notification has lost nothing.  A task    *)
(* that was handed to the looper is in one place: it ran, or it is in the  *)
(* queue, or delayed (Sound).  Before that all tasks are in mQueue, as     *)
(* they came; afterwards a task is lost only by the quit of stop (Stages,  *)
(* NoneLost).                                                              *)
(*                                                                         *)
(* The background thread: services that are started when no thread was     *)
(* told to stop keep their engine (Clean: only the newest thread lives,    *)
(* and one that stopServices was not called for never quits), and tasks of *)
(* one thread run in its order (Posting: where the second of two such      *)
(* tasks is, the first is in front of it or has left before; a task that   *)
(* is out of its call is in the list, in the queue, or ran).               *)
(***************************************************************************)
EXTENDS BackgroundThread, ServiceThread, ListFacts

-----------------------------------------------------------------------------
(* The thread of a service. *)

Hows == {"post", "front", "delayed"}

Loops == [queue : Seq(Nat), delayed : SUBSET Nat, quit : BOOLEAN]
Services == [stage : {"new", "handler", "looping", "ended"}, loop : Loops,
             mQueue : Seq(Nat), mStopped : BOOLEAN]

Types ==
    /\ service \in Services
    /\ stopping \in {"no", "waits", "notified", "done", "expired"}
    /\ record \in [how : Seq(Hows), ran : Seq(Nat), before : SUBSET Nat, started : BOOLEAN]

\* No task is in two places, and those of post are in order.
Apart(ran, queue, delayed) ==
    /\ IsInjective(ran) /\ IsInjective(queue)
    /\ Range(ran) \cap Range(queue) = {}
    /\ delayed \cap (Range(ran) \cup Range(queue)) = {}

Known(how, ran, queue, delayed) ==
    /\ Range(ran) \subseteq 1 .. Len(how)
    /\ Range(queue) \subseteq 0 .. Len(how)
    /\ \A t \in delayed : t \in 1 .. Len(how) /\ how[t] = "delayed"

Ordered(how, ran, queue) ==
    \A a, b \in 1 .. Len(how) :
        a < b /\ how[a] = "post" /\ how[b] = "post" =>
            /\ b \in Range(ran) => Before(ran, a, b)
            /\ b \in Range(queue) => a \in Range(ran) \/ Before(queue, a, b)

Sound(how, ran, queue, delayed) ==
    Apart(ran, queue, delayed) /\ Known(how, ran, queue, delayed) /\ Ordered(how, ran, queue)

AllThere(how, ran, queue, delayed) ==
    1 .. Len(how) \subseteq Range(ran) \cup Range(queue) \cup delayed

\* stop's task is behind all tasks that have not run.
Behind(tasks, ran, queue) ==
    \A t \in tasks : t \in Range(ran) \/ Before(queue, t, Notifying)

Numbers(n) == [k \in 1 .. n |-> k]

Handed == Sound(record.how, record.ran, service.loop.queue, service.loop.delayed)

Stages ==
    /\ service.stage \in {"new", "handler"} =>
          /\ service.mStopped /\ service.mQueue = Numbers(Len(record.how))
          /\ record.ran = <<>> /\ service.loop.delayed = {}
          /\ Range(service.loop.queue) \subseteq {Notifying}
    /\ service.stage = "looping" => ~ service.mStopped /\ service.mQueue = <<>>
    /\ service.stage = "ended" => service.loop.quit
    /\ service.loop.quit => service.loop.queue = <<>> /\ service.loop.delayed = {}
    /\ service.loop.quit <=> stopping \in {"done", "expired"}
    /\ stopping = "no" => Notifying \notin Range(service.loop.queue)

NoneLost ==
    service.stage = "looping" /\ ~ service.loop.quit =>
        AllThere(record.how, record.ran, service.loop.queue, service.loop.delayed)

Awaited ==
    /\ record.before \subseteq 1 .. Len(record.how)
    /\ record.started /\ stopping = "waits" =>
          Behind(record.before, record.ran, service.loop.queue)
    /\ record.started /\ stopping \in {"notified", "done"} =>
          record.before \subseteq Range(record.ran)

IInv == Types /\ Handed /\ Stages /\ NoneLost /\ Awaited

-----------------------------------------------------------------------------
(* What the operations of the looper do to the lists. *)

LEMMA RangeBehind ==
    ASSUME NEW s \in Seq(Nat), NEW x \in Nat, NEW t, t = Append(s, x)
    PROVE  t \in Seq(Nat) /\ Range(t) = Range(s) \cup {x}
  BY AppendKeeps, SMT

\* A looper that takes a task, as PostTask says,
Taking(l, t, how) ==
    CASE how = "post" -> Post(l, t)
      [] how = "front" -> PostAtFront(l, t)
      [] how = "delayed" -> PostLater(l, t)

\* and its queue Q and delayed tasks D, when they become P and E.
Taken(how, t, Q, D, P, E) ==
    \/ how = "post" /\ P = Append(Q, t) /\ E = D
    \/ how = "front" /\ P = <<t>> \o Q /\ E = D
    \/ how = "delayed" /\ P = Q /\ E = D \cup {t}

\* A task more that no looper took.
LEMMA PostedElsewhere ==
    ASSUME NEW H \in Seq(Hows), NEW R \in Seq(Nat), NEW Q \in Seq(Nat), NEW D \in SUBSET Nat,
           NEW how \in Hows, Sound(H, R, Q, D)
    PROVE  Sound(Append(H, how), R, Q, D)
  <1> DEFINE G == Append(H, how)
             n == Len(H)
  <1>1. n \in Nat /\ Len(G) = n + 1 /\ \A k \in 1 .. n : G[k] = H[k]
    OBVIOUS
  <1>2. /\ Range(R) \subseteq 1 .. n /\ Range(Q) \subseteq 0 .. n
        /\ \A t \in D : t \in 1 .. n /\ H[t] = "delayed"
        /\ \A a, b \in 1 .. n : a < b /\ H[a] = "post" /\ H[b] = "post" =>
              /\ b \in Range(R) => Before(R, a, b)
              /\ b \in Range(Q) => a \in Range(R) \/ Before(Q, a, b)
    BY DEF Sound, Known, Ordered
  <1> HIDE DEF G, n
  <1>3. 1 .. n \subseteq 1 .. n + 1 /\ 0 .. n \subseteq 0 .. n + 1
    BY <1>1
  <1>4. Known(G, R, Q, D)
    BY <1>1, <1>2, <1>3 DEF Known
  <1>5. \A a, b \in 1 .. n + 1 : a < b => a \in 1 .. n /\ (b \in 1 .. n \/ b = n + 1)
    BY <1>1
  <1>6. n + 1 \notin Range(R) /\ n + 1 \notin Range(Q)
    BY <1>1, <1>2
  <1>7. Ordered(G, R, Q)
    BY <1>1, <1>2, <1>5, <1>6 DEF Ordered
  <1> QED  BY <1>4, <1>7 DEF Sound, G

\* A task more, that the looper takes.
LEMMA PostedToLooper ==
    ASSUME NEW H \in Seq(Hows), NEW R \in Seq(Nat), NEW Q \in Seq(Nat), NEW D \in SUBSET Nat,
           NEW how \in Hows, Sound(H, R, Q, D), AllThere(H, R, Q, D),
           NEW P \in Seq(Nat), NEW E \in SUBSET Nat,
           Taken(how, Len(H) + 1, Q, D, P, E)
    PROVE  /\ Sound(Append(H, how), R, P, E) /\ AllThere(Append(H, how), R, P, E)
           /\ \A a, b : Before(Q, a, b) => Before(P, a, b)
           /\ Range(P) \subseteq Range(Q) \cup {Len(H) + 1}
  <1> DEFINE G == Append(H, how)
             n == Len(H)
  <1>1. /\ n \in Nat /\ Len(G) = n + 1 /\ G[n + 1] = how /\ \A k \in 1 .. n : G[k] = H[k]
        /\ n + 1 \in Nat
    OBVIOUS
  <1>2. /\ Range(R) \subseteq 1 .. n /\ Range(Q) \subseteq 0 .. n
        /\ \A t \in D : t \in 1 .. n /\ H[t] = "delayed"
        /\ \A a, b \in 1 .. n : a < b /\ H[a] = "post" /\ H[b] = "post" =>
              /\ b \in Range(R) => Before(R, a, b)
              /\ b \in Range(Q) => a \in Range(R) \/ Before(Q, a, b)
    BY DEF Sound, Known, Ordered
  <1>3. /\ IsInjective(R) /\ IsInjective(Q) /\ Range(R) \cap Range(Q) = {}
        /\ D \cap (Range(R) \cup Range(Q)) = {}
    BY DEF Sound, Apart
  <1>4. 1 .. n \subseteq Range(R) \cup Range(Q) \cup D
    BY DEF AllThere
  <1>5. \/ how = "post" /\ P = Append(Q, n + 1) /\ E = D
        \/ how = "front" /\ P = <<n + 1>> \o Q /\ E = D
        \/ how = "delayed" /\ P = Q /\ E = D \cup {n + 1}
    BY DEF Taken
  <1> HIDE DEF G, n
  <1>6. n + 1 \notin Range(R) /\ n + 1 \notin Range(Q) /\ n + 1 \notin D
    BY <1>1, <1>2
  <1>7. /\ 1 .. n \subseteq 1 .. n + 1 /\ 0 .. n \subseteq 0 .. n + 1
        /\ 1 .. n + 1 = (1 .. n) \cup {n + 1} /\ n + 1 \in 0 .. n + 1
        /\ \A a, b \in 1 .. n + 1 : a < b => a \in 1 .. n
    BY <1>1
  <1>8. /\ IsInjective(P)
        /\ \A a, b : Before(Q, a, b) => Before(P, a, b)
        /\ \/ Range(P) = Range(Q) \cup {n + 1} /\ E = D /\ how # "delayed"
           \/ Range(P) = Range(Q) /\ E = D \cup {n + 1} /\ how = "delayed"
        /\ how = "post" => \A a \in Range(Q) : Before(P, a, n + 1)
    <2>1. CASE how = "post" /\ P = Append(Q, n + 1) /\ E = D
      <3>1. IsInjective(P)
        BY <1>1, <1>3, <1>6, <2>1, AppendIsInjective
      <3>2. Range(P) = Range(Q) \cup {n + 1}
        BY <1>1, <2>1, RangeBehind
      <3>3. /\ \A a, b : Before(Q, a, b) => Before(P, a, b)
            /\ \A a \in Range(Q) : Before(P, a, n + 1)
        BY <1>1, <2>1, AppendBefore
      <3> QED  BY <2>1, <3>1, <3>2, <3>3
    <2>2. CASE how = "front" /\ P = <<n + 1>> \o Q /\ E = D
      <3> DEFINE f == <<n + 1>>
      <3>1. f \in Seq(Nat) /\ Range(f) = {n + 1} /\ IsInjective(f)
        BY <1>1, OneInFront
      <3>2. P = f \o Q
        BY <2>2
      <3> HIDE DEF f
      <3>3. IsInjective(P)
        BY <1>3, <1>6, <3>1, <3>2, ConcatIsInjective
      <3>4. Range(P) = Range(Q) \cup {n + 1}
        BY <3>1, <3>2, RangeOfConcat
      <3>5. \A a, b : Before(Q, a, b) => Before(P, a, b)
        BY <3>1, <3>2, ConcatBefore
      <3> QED  BY <2>2, <3>3, <3>4, <3>5
    <2>3. CASE how = "delayed" /\ P = Q /\ E = D \cup {n + 1}
      BY <1>3, <2>3
    <2> QED  BY <1>5, <2>1, <2>2, <2>3
  <1>9. Apart(R, P, E)
    BY <1>3, <1>6, <1>8 DEF Apart
  <1>10. Known(G, R, P, E)
    <2>1. Range(R) \subseteq 1 .. n + 1 /\ Range(P) \subseteq 0 .. n + 1
      BY <1>2, <1>7, <1>8
    <2>2. ASSUME NEW t \in E  PROVE t \in 1 .. n + 1 /\ G[t] = "delayed"
      BY <1>1, <1>2, <1>7, <1>8, <2>2
    <2> QED  BY <1>1, <2>1, <2>2 DEF Known
  <1>11. Ordered(G, R, P)
    <2> SUFFICES ASSUME NEW a \in 1 .. n + 1, NEW b \in 1 .. n + 1,
                        a < b, G[a] = "post", G[b] = "post"
                 PROVE  /\ b \in Range(R) => Before(R, a, b)
                        /\ b \in Range(P) => a \in Range(R) \/ Before(P, a, b)
      BY <1>1 DEF Ordered
    <2>1. a \in 1 .. n /\ H[a] = "post"
      BY <1>1, <1>7
    <2>2. CASE b = n + 1
      <3>1. how = "post"
        BY <1>1, <2>2
      <3>2. a \in Range(R) \cup Range(Q)
        BY <1>2, <1>4, <2>1
      <3> QED  BY <1>6, <1>8, <2>2, <3>1, <3>2
    <2>3. CASE b \in 1 .. n
      <3>1. H[b] = "post" /\ b # n + 1
        BY <1>1, <2>3
      <3>2. /\ b \in Range(R) => Before(R, a, b)
            /\ b \in Range(Q) => a \in Range(R) \/ Before(Q, a, b)
        BY <1>2, <2>1, <2>3, <3>1
      <3> QED  BY <1>8, <3>1, <3>2
    <2> QED  BY <1>7, <2>2, <2>3
  <1>12. AllThere(G, R, P, E)
    BY <1>1, <1>4, <1>7, <1>8 DEF AllThere
  <1>13. Range(P) \subseteq Range(Q) \cup {n + 1}
    BY <1>8
  <1> QED  BY <1>8, <1>9, <1>10, <1>11, <1>12, <1>13 DEF Sound, G, n

\* What holds when the loop took t, and what it ran and its lists have become S, P and E.
TakenWell(H, R, Q, D, B, t, S, P, E) ==
    /\ Sound(H, S, P, E)
    /\ AllThere(H, R, Q, D) => AllThere(H, S, P, E)
    /\ Range(R) \subseteq Range(S) /\ Range(P) \subseteq Range(Q)
    /\ Behind(B, R, Q) /\ t = Notifying => B \subseteq Range(S)
    /\ Behind(B, R, Q) /\ t # Notifying => Behind(B, S, P)

\* A loop takes t, and what it ran and its queue become S and P.
TakesFirst(R, Q, t, S, P) ==
    /\ Q # <<>> /\ t = Head(Q) /\ P = Tail(Q)
    /\ S = IF t = Notifying THEN R ELSE Append(R, t)

\* The loop takes the first task.
LEMMA TakenFromQueue ==
    ASSUME NEW H \in Seq(Hows), NEW R \in Seq(Nat), NEW Q \in Seq(Nat), NEW D \in SUBSET Nat,
           NEW h \in Nat, NEW S \in Seq(Nat), NEW P \in Seq(Nat), NEW B \in SUBSET Nat,
           Sound(H, R, Q, D), TakesFirst(R, Q, h, S, P)
    PROVE  TakenWell(H, R, Q, D, B, h, S, P, D)
  <1> DEFINE n == Len(H)
  <1>1. /\ Range(R) \subseteq 1 .. n /\ Range(Q) \subseteq 0 .. n
        /\ \A t \in D : t \in 1 .. n /\ H[t] = "delayed"
        /\ \A a, b \in 1 .. n : a < b /\ H[a] = "post" /\ H[b] = "post" =>
              /\ b \in Range(R) => Before(R, a, b)
              /\ b \in Range(Q) => a \in Range(R) \/ Before(Q, a, b)
    BY DEF Sound, Known, Ordered
  <1>2. /\ IsInjective(R) /\ IsInjective(Q) /\ Range(R) \cap Range(Q) = {}
        /\ D \cap (Range(R) \cup Range(Q)) = {}
    BY DEF Sound, Apart
  <1>3. /\ P \in Seq(Nat) /\ h \in Nat /\ Range(Q) = Range(P) \cup {h}
        /\ IsInjective(P) /\ h \notin Range(P)
    <2>1. Q # <<>> /\ h = Head(Q) /\ P = Tail(Q)
      BY DEF TakesFirst
    <2> QED  BY <1>2, <2>1, TailKeeps
  <1>4. \A a, b : Before(Q, a, b) => b # h /\ (a = h \/ Before(P, a, b))
    <2>1. Q # <<>> /\ h = Head(Q) /\ P = Tail(Q)
      BY DEF TakesFirst
    <2> QED  BY <1>2, <2>1, TailBefore
  <1>5. /\ n \in Nat /\ S = IF h = Notifying THEN R ELSE Append(R, h)
        /\ \A x \in 0 .. n : x # 0 => x \in 1 .. n
    BY DEF TakesFirst
  <1> HIDE DEF n
  <1>6. /\ Range(S) = IF h = Notifying THEN Range(R) ELSE Range(R) \cup {h}
        /\ IsInjective(S)
        /\ \A a, b : Before(R, a, b) => Before(S, a, b)
        /\ h # Notifying => \A a \in Range(R) : Before(S, a, h)
    <2>1. CASE h = Notifying
      BY <1>2, <1>5, <2>1
    <2>2. CASE h # Notifying
      <3>1. S = Append(R, h) /\ h \notin Range(R)
        BY <1>2, <1>3, <1>5, <2>2
      <3>2. Range(S) = Range(R) \cup {h}
        BY <3>1, RangeBehind
      <3>3. IsInjective(S)
        BY <1>2, <1>3, <3>1, AppendIsInjective
      <3>4. /\ \A a, b : Before(R, a, b) => Before(S, a, b)
            /\ \A a \in Range(R) : Before(S, a, h)
        BY <1>3, <3>1, AppendBefore
      <3> QED  BY <2>2, <3>2, <3>3, <3>4
    <2> QED  BY <2>1, <2>2
  <1>7. Apart(S, P, D)
    BY <1>2, <1>3, <1>6 DEF Apart
  <1>8. Known(H, S, P, D)
    <2>1. h # Notifying => h \in 1 .. n
      BY <1>1, <1>3, <1>5 DEF Notifying
    <2>2. Range(S) \subseteq 1 .. n /\ Range(P) \subseteq 0 .. n
      BY <1>1, <1>3, <1>6, <2>1
    <2> QED  BY <1>1, <2>2 DEF Known, n
  <1>9. Ordered(H, S, P)
    <2> SUFFICES ASSUME NEW a \in 1 .. n, NEW b \in 1 .. n,
                        a < b, H[a] = "post", H[b] = "post"
                 PROVE  /\ b \in Range(S) => Before(S, a, b)
                        /\ b \in Range(P) => a \in Range(S) \/ Before(P, a, b)
      BY DEF Ordered, n
    <2>1. /\ b \in Range(R) => Before(R, a, b)
          /\ b \in Range(Q) => a \in Range(R) \/ Before(Q, a, b)
      BY <1>1
    <2>2. a # Notifying /\ b # Notifying
      BY <1>5 DEF Notifying
    <2>3. ASSUME b \in Range(S)  PROVE Before(S, a, b)
      <3>1. CASE b \in Range(R)
        BY <2>1, <3>1, <1>6
      <3>2. CASE b \notin Range(R)
        <4>1. b = h /\ h # Notifying
          BY <1>6, <2>2, <2>3, <3>2
        <4>2. ~ Before(Q, a, b)
          BY <1>4, <4>1
        <4>3. a \in Range(R)
          BY <1>3, <2>1, <4>1, <4>2
        <4> QED  BY <1>6, <4>1, <4>3
      <3> QED  BY <3>1, <3>2
    <2>4. ASSUME b \in Range(P)  PROVE a \in Range(S) \/ Before(P, a, b)
      <3>1. a \in Range(R) \/ Before(Q, a, b)
        BY <1>3, <2>1, <2>4
      <3>2. a \in Range(R) \/ a = h \/ Before(P, a, b)
        BY <1>4, <3>1
      <3> QED  BY <1>6, <2>2, <3>2
    <2> QED  BY <2>3, <2>4
  <1>10. ASSUME AllThere(H, R, Q, D)  PROVE AllThere(H, S, P, D)
    <2>1. 1 .. n \subseteq Range(R) \cup Range(Q) \cup D
      BY <1>10 DEF AllThere, n
    <2>2. Notifying \notin 1 .. n
      BY <1>5 DEF Notifying
    <2>3. 1 .. n \subseteq Range(S) \cup Range(P) \cup D
      BY <1>3, <1>6, <2>1, <2>2
    <2> QED  BY <2>3 DEF AllThere, n
  <1>11. ASSUME Behind(B, R, Q)
         PROVE  IF h = Notifying THEN B \subseteq Range(S) ELSE Behind(B, S, P)
    <2>1. \A t \in B : t \in Range(R) \/ (h # Notifying /\ (t = h \/ Before(P, t, Notifying)))
      BY <1>4, <1>11 DEF Behind
    <2>2. CASE h = Notifying
      BY <1>6, <2>1, <2>2
    <2>3. CASE h # Notifying
      BY <1>6, <2>1, <2>3 DEF Behind
    <2> QED  BY <2>2, <2>3
  <1>12. Range(R) \subseteq Range(S) /\ Range(P) \subseteq Range(Q)
    BY <1>3, <1>6
  <1> QED  BY <1>7, <1>8, <1>9, <1>10, <1>11, <1>12 DEF Sound, TakenWell

\* The loop takes a delayed task.
LEMMA TakenLater ==
    ASSUME NEW H \in Seq(Hows), NEW R \in Seq(Nat), NEW Q \in Seq(Nat), NEW D \in SUBSET Nat,
           Sound(H, R, Q, D), NEW t \in D, NEW B \in SUBSET Nat
    PROVE  t # Notifying /\ TakenWell(H, R, Q, D, B, t, Append(R, t), Q, D \ {t})
  <1> DEFINE n == Len(H)
             S == Append(R, t)
  <1>1. /\ Range(R) \subseteq 1 .. n /\ Range(Q) \subseteq 0 .. n
        /\ \A u \in D : u \in 1 .. n /\ H[u] = "delayed"
        /\ \A a, b \in 1 .. n : a < b /\ H[a] = "post" /\ H[b] = "post" =>
              /\ b \in Range(R) => Before(R, a, b)
              /\ b \in Range(Q) => a \in Range(R) \/ Before(Q, a, b)
    BY DEF Sound, Known, Ordered
  <1>2. /\ IsInjective(R) /\ IsInjective(Q) /\ Range(R) \cap Range(Q) = {}
        /\ D \cap (Range(R) \cup Range(Q)) = {}
    BY DEF Sound, Apart
  <1>3. n \in Nat /\ \A x \in 1 .. n : x # 0
    OBVIOUS
  <1>4. t \in Nat /\ t \in 1 .. n /\ H[t] = "delayed" /\ t \notin Range(R) /\ t \notin Range(Q)
    BY <1>1, <1>2
  <1>5. Range(S) = Range(R) \cup {t}
    BY <1>4, RangeBehind
  <1>6. IsInjective(S)
    BY <1>2, <1>4, AppendIsInjective
  <1>7. \A a, b : Before(R, a, b) => Before(S, a, b)
    BY <1>4, AppendBefore
  <1> HIDE DEF n, S
  <1>8. Apart(S, Q, D \ {t})
    BY <1>2, <1>4, <1>5, <1>6 DEF Apart
  <1>9. Known(H, S, Q, D \ {t})
    <2>1. Range(S) \subseteq 1 .. n /\ \A u \in D \ {t} : u \in 1 .. n /\ H[u] = "delayed"
      BY <1>1, <1>4, <1>5
    <2> QED  BY <1>1, <2>1 DEF Known, n
  <1>10. Ordered(H, S, Q)
    <2> SUFFICES ASSUME NEW a \in 1 .. n, NEW b \in 1 .. n,
                        a < b, H[a] = "post", H[b] = "post"
                 PROVE  /\ b \in Range(S) => Before(S, a, b)
                        /\ b \in Range(Q) => a \in Range(S) \/ Before(Q, a, b)
      BY DEF Ordered, n
    <2>1. b # t
      BY <1>4
    <2> QED  BY <1>1, <1>5, <1>7, <2>1
  <1>11. AllThere(H, R, Q, D) => AllThere(H, S, Q, D \ {t})
    BY <1>5 DEF AllThere
  <1>12. Behind(B, R, Q) => Behind(B, S, Q)
    BY <1>5 DEF Behind
  <1>13. t # Notifying /\ Range(R) \subseteq Range(S)
    BY <1>3, <1>4, <1>5 DEF Notifying
  <1> QED  BY <1>8, <1>9, <1>10, <1>11, <1>12, <1>13 DEF Sound, TakenWell, S

\* The looper gets the task of stop.
LEMMA StopPosted ==
    ASSUME NEW H \in Seq(Hows), NEW R \in Seq(Nat), NEW Q \in Seq(Nat), NEW D \in SUBSET Nat,
           Sound(H, R, Q, D), Notifying \notin Range(Q)
    PROVE  /\ Append(Q, Notifying) \in Seq(Nat)
           /\ Sound(H, R, Append(Q, Notifying), D)
           /\ Range(Append(Q, Notifying)) = Range(Q) \cup {Notifying}
           /\ AllThere(H, R, Q, D) =>
                 /\ AllThere(H, R, Append(Q, Notifying), D)
                 /\ Behind({t \in DOMAIN H : H[t] # "delayed"}, R, Append(Q, Notifying))
  <1> DEFINE n == Len(H)
             P == Append(Q, Notifying)
  <1>1. /\ Range(R) \subseteq 1 .. n /\ Range(Q) \subseteq 0 .. n
        /\ \A u \in D : u \in 1 .. n /\ H[u] = "delayed"
        /\ \A a, b \in 1 .. n : a < b /\ H[a] = "post" /\ H[b] = "post" =>
              /\ b \in Range(R) => Before(R, a, b)
              /\ b \in Range(Q) => a \in Range(R) \/ Before(Q, a, b)
    BY DEF Sound, Known, Ordered
  <1>2. /\ IsInjective(R) /\ IsInjective(Q) /\ Range(R) \cap Range(Q) = {}
        /\ D \cap (Range(R) \cup Range(Q)) = {}
    BY DEF Sound, Apart
  <1>3. n \in Nat /\ Notifying \in 0 .. n /\ Notifying \in Nat /\ Notifying \notin 1 .. n
        /\ DOMAIN H = 1 .. n
    BY DEF Notifying
  <1>4. P \in Seq(Nat) /\ Range(P) = Range(Q) \cup {Notifying}
    BY <1>3, RangeBehind
  <1>5. IsInjective(P)
    BY <1>2, <1>3, AppendIsInjective
  <1>6. /\ \A a, b : Before(Q, a, b) => Before(P, a, b)
        /\ \A a \in Range(Q) : Before(P, a, Notifying)
    BY <1>3, AppendBefore
  <1> HIDE DEF n, P
  <1>7. Apart(R, P, D)
    BY <1>1, <1>2, <1>3, <1>4, <1>5 DEF Apart
  <1>8. Known(H, R, P, D)
    <2>1. Range(P) \subseteq 0 .. n
      BY <1>1, <1>3, <1>4
    <2> QED  BY <1>1, <2>1 DEF Known, n
  <1>9. Ordered(H, R, P)
    <2>1. \A b \in 1 .. n : b \in Range(P) => b \in Range(Q)
      BY <1>3, <1>4
    <2> QED  BY <1>1, <1>6, <2>1 DEF Ordered, n
  <1>10. ASSUME AllThere(H, R, Q, D)
         PROVE  AllThere(H, R, P, D) /\ Behind({t \in DOMAIN H : H[t] # "delayed"}, R, P)
    <2>1. 1 .. n \subseteq Range(R) \cup Range(Q) \cup D
      BY <1>10 DEF AllThere, n
    <2>2. AllThere(H, R, P, D)
      BY <1>4, <1>10 DEF AllThere
    <2>3. ASSUME NEW t \in DOMAIN H, H[t] # "delayed"  PROVE t \in Range(R) \/ t \in Range(Q)
      BY <1>1, <1>3, <2>1, <2>3
    <2> QED  BY <1>6, <2>2, <2>3 DEF Behind
  <1> QED  BY <1>4, <1>7, <1>8, <1>9, <1>10 DEF Sound, P

\* The looper gets all that was posted before it was there.
LEMMA HandedOver ==
    ASSUME NEW H \in Seq(Hows), NEW Q \in Seq(Nat), IsInjective(Q), Range(Q) \subseteq {Notifying},
           NEW P \in Seq(Nat), P = Q \o Numbers(Len(H))
    PROVE  /\ Sound(H, <<>>, P, {}) /\ AllThere(H, <<>>, P, {})
           /\ \A a, b : Before(Q, a, b) => Before(P, a, b)
           /\ Notifying \in Range(P) => Notifying \in Range(Q)
  <1> DEFINE n == Len(H)
             M == Numbers(n)
  <1>1. n \in Nat
    OBVIOUS
  <1> HIDE DEF n
  <1>2. /\ M \in Seq(Nat) /\ Len(M) = n /\ \A k \in 1 .. n : M[k] = k
        /\ DOMAIN M = 1 .. n
    BY <1>1 DEF Numbers
  <1>3. P = Q \o M
    BY DEF n
  <1> HIDE DEF M
  <1>4. Range(M) = 1 .. n /\ IsInjective(M)
    BY <1>2 DEF Range, IsInjective
  <1>5. \A a, b \in 1 .. n : a < b => Before(M, a, b)
    BY <1>2 DEF Before
  <1>6. 1 .. n \subseteq 0 .. n /\ Notifying \in 0 .. n /\ Notifying \notin 1 .. n
    BY <1>1 DEF Notifying
  <1>7. Range(P) = Range(Q) \cup 1 .. n
    BY <1>2, <1>3, <1>4, RangeOfConcat
  <1>8. IsInjective(P)
    BY <1>2, <1>3, <1>4, <1>6, ConcatIsInjective
  <1>9. \A a, b : Before(Q, a, b) \/ Before(M, a, b) => Before(P, a, b)
    BY <1>2, <1>3, ConcatBefore
  <1>10. Range(<<>>) = {} /\ IsInjective(<<>>)
    BY EmptyRange DEF IsInjective
  <1>11. Apart(<<>>, P, {})
    BY <1>8, <1>10 DEF Apart
  <1>12. Known(H, <<>>, P, {})
    <2>1. Range(P) \subseteq 0 .. n
      BY <1>6, <1>7
    <2> QED  BY <1>10, <2>1 DEF Known, n
  <1>13. Ordered(H, <<>>, P)
    BY <1>5, <1>9, <1>10 DEF Ordered, n
  <1>14. AllThere(H, <<>>, P, {})
    BY <1>7 DEF AllThere, n
  <1> QED  BY <1>6, <1>7, <1>9, <1>11, <1>12, <1>13, <1>14 DEF Sound

\* The looper drops everything.
LEMMA Dropped ==
    ASSUME NEW H \in Seq(Hows), NEW R \in Seq(Nat), NEW Q \in Seq(Nat), NEW D \in SUBSET Nat,
           Sound(H, R, Q, D)
    PROVE  Sound(H, R, <<>>, {})
  <1>1. Range(<<>>) = {} /\ IsInjective(<<>>)
    BY EmptyRange DEF IsInjective
  <1>2. Apart(R, <<>>, {})
    BY <1>1 DEF Sound, Apart
  <1>3. Known(H, R, <<>>, {})
    BY <1>1 DEF Sound, Known
  <1>4. Ordered(H, R, <<>>)
    BY <1>1 DEF Sound, Ordered
  <1> QED  BY <1>2, <1>3, <1>4 DEF Sound

-----------------------------------------------------------------------------
(* The invariant. *)

LEMMA InitOK == ServiceInit => IInv
  <1> SUFFICES ASSUME ServiceInit  PROVE IInv
    OBVIOUS
  <1> USE DEF ServiceInit, NewLooper
  <1>1. Types
    BY DEF Types, Services, Loops
  <1>2. Range(<<>>) = {} /\ IsInjective(<<>>)
    BY EmptyRange DEF IsInjective
  <1>3. Handed
    BY <1>2 DEF Handed, Sound, Apart, Known, Ordered
  <1>4. Numbers(0) = <<>>
    BY DEF Numbers
  <1>5. Stages
    BY <1>2, <1>4 DEF Stages
  <1>6. NoneLost /\ Awaited
    BY DEF NoneLost, Awaited
  <1> QED  BY <1>1, <1>3, <1>5, <1>6 DEF IInv

LEMMA LoopType ==
    ASSUME Types
    PROVE  /\ service.loop.queue \in Seq(Nat) /\ service.loop.delayed \in SUBSET Nat
           /\ record.how \in Seq(Hows) /\ record.ran \in Seq(Nat)
           /\ service.mQueue \in Seq(Nat) /\ service.loop \in Loops
  BY DEF Types, Services, Loops

\* The queue and the delayed tasks behind a post to a looper that does not quit.
LEMMA LooperTakes ==
    ASSUME NEW l \in Loops, ~ l.quit, NEW t \in Nat, NEW how \in Hows,
           NEW k, k = Taking(l, t, how)
    PROVE  /\ k \in Loops /\ ~ k.quit
           /\ Taken(how, t, l.queue, l.delayed, k.queue, k.delayed)
  <1>1. l.queue \in Seq(Nat) /\ l.delayed \in SUBSET Nat /\ l.quit \in BOOLEAN
    BY DEF Loops
  <1>2. CASE how = "post"
    <2>1. k = [l EXCEPT !.queue = Append(l.queue, t)]
      BY <1>2 DEF Taking, Post
    <2> DEFINE q == Append(l.queue, t)
    <2>2. q \in Seq(Nat)
      BY <1>1
    <2>3. k = [l EXCEPT !.queue = q]
      BY <2>1
    <2> HIDE DEF q
    <2>4. k \in Loops /\ k.quit = l.quit /\ k.queue = q /\ k.delayed = l.delayed
      BY <2>2, <2>3 DEF Loops
    <2> QED  BY <1>2, <2>4 DEF q, Taken
  <1>3. CASE how = "front"
    <2>1. k = [l EXCEPT !.queue = <<t>> \o l.queue]
      BY <1>3 DEF Taking, PostAtFront
    <2> DEFINE q == <<t>> \o l.queue
    <2>2. q \in Seq(Nat)
      BY <1>1
    <2>3. k = [l EXCEPT !.queue = q]
      BY <2>1
    <2> HIDE DEF q
    <2>4. k \in Loops /\ k.quit = l.quit /\ k.queue = q /\ k.delayed = l.delayed
      BY <2>2, <2>3 DEF Loops
    <2> QED  BY <1>3, <2>4 DEF q, Taken
  <1>4. CASE how = "delayed"
    <2>1. k = [l EXCEPT !.delayed = l.delayed \cup {t}]
      BY <1>4 DEF Taking, PostLater
    <2>2. k \in Loops /\ k.quit = l.quit /\ k.queue = l.queue /\ k.delayed = l.delayed \cup {t}
      BY <1>1, <2>1 DEF Loops
    <2> QED  BY <1>4, <2>2 DEF Taken
  <1> QED  BY <1>2, <1>3, <1>4 DEF Hows

LEMMA NewLoop ==
    ASSUME NEW s \in Services, NEW l \in Loops, NEW u, u = [s EXCEPT !.loop = l]
    PROVE  /\ u \in Services /\ u.loop = l /\ u.stage = s.stage
           /\ u.mQueue = s.mQueue /\ u.mStopped = s.mStopped
  BY DEF Services

LEMMA NewWaiting ==
    ASSUME NEW s \in Services, NEW q \in Seq(Nat), NEW u, u = [s EXCEPT !.mQueue = q]
    PROVE  /\ u \in Services /\ u.loop = s.loop /\ u.stage = s.stage
           /\ u.mQueue = q /\ u.mStopped = s.mStopped
  BY DEF Services

\* What of the invariant speaks of the lists follows from what the lists are.
LEMMA PostTaskKeeps ==
    ASSUME IInv, NEW how \in Hows, PostTask(how)
    PROVE  IInv'
  <1> DEFINE t == Len(record.how) + 1
             H == record.how
             Q == service.loop.queue
             D == service.loop.delayed
  <1> USE LoopType DEF IInv
  <1>1. t \in Nat /\ t >= 1 /\ 1 .. Len(H) \subseteq 1 .. t
    BY DEF Types
  <1>2. record' = [record EXCEPT !.how = Append(@, how)] /\ stopping' = stopping
    BY DEF PostTask
  <1>3. /\ record'.how = Append(H, how) /\ record'.ran = record.ran
        /\ record'.before = record.before /\ record'.started = record.started
        /\ Len(record'.how) = t /\ record'.how \in Seq(Hows)
    BY <1>2 DEF Types
  <1>4. record' \in [how : Seq(Hows), ran : Seq(Nat), before : SUBSET Nat, started : BOOLEAN]
    BY <1>2, <1>3 DEF Types
  <1>5. CASE Early
    <2>1. service' = [service EXCEPT !.mQueue = Append(@, t)]
      BY <1>5 DEF PostTask
    <2>2. /\ service'.loop = service.loop /\ service'.stage = service.stage
          /\ service'.mStopped = service.mStopped
          /\ service'.mQueue = Append(service.mQueue, t)
          /\ service' \in Services
      <3> DEFINE q == Append(service.mQueue, t)
      <3>1. q \in Seq(Nat) /\ service \in Services
        BY <1>1 DEF Types
      <3>2. service' = [service EXCEPT !.mQueue = q]
        BY <2>1
      <3> HIDE DEF q
      <3>3. /\ service' \in Services /\ service'.loop = service.loop
            /\ service'.stage = service.stage /\ service'.mQueue = q
            /\ service'.mStopped = service.mStopped
        BY <3>1, <3>2, NewWaiting
      <3> QED  BY <3>3 DEF q
    <2>3. Types'
      BY <1>2, <1>4, <2>2 DEF Types
    <2>4. Sound(Append(H, how), record.ran, Q, D)
      BY PostedElsewhere DEF Handed
    <2>5. Handed'
      BY <1>3, <2>2, <2>4 DEF Handed
    <2>6. service.stage # "looping"
      BY <1>5 DEF Early, HasLooper, Stages
    <2>7. ASSUME service.mQueue = Numbers(Len(H))
          PROVE  Append(service.mQueue, t) = Numbers(t)
      BY <2>7, <1>1 DEF Numbers
    <2>8. Stages'
      BY <1>2, <1>3, <2>2, <2>6, <2>7 DEF Stages
    <2>9. NoneLost' /\ Awaited'
      BY <1>1, <1>2, <1>3, <2>2, <2>6 DEF NoneLost, Awaited
    <2> QED  BY <2>3, <2>5, <2>8, <2>9
  <1>6. CASE ~ Early
    <2>1. service.stage = "looping" /\ ~ service.mStopped /\ service.mQueue = <<>>
      BY <1>6 DEF Early, HasLooper, Stages
    <2>2. HandOver(service) = service
      <3>1. PostAll(service.loop, <<>>) = service.loop
        <4>1. service.loop.queue \o <<>> = service.loop.queue
          OBVIOUS
        <4>2. [service.loop EXCEPT !.queue = @ \o <<>>] = service.loop
          BY <4>1 DEF Types, Services, Loops
        <4> QED  BY <4>2 DEF PostAll
      <3>2. [service EXCEPT !.loop = service.loop, !.mQueue = <<>>] = service
        BY <2>1 DEF Types, Services
      <3> QED  BY <2>1, <3>1, <3>2 DEF HandOver
    <2>3. PICK l : l = Taking(service.loop, t, how) /\ service' = [service EXCEPT !.loop = l]
      BY <1>6, <2>2 DEF PostTask, Taking
    <2>4. CASE service.loop.quit
      <3>1. l = service.loop
        BY <2>3, <2>4 DEF Taking, Post, PostAtFront, PostLater, Hows
      <3>2. service' = service
        BY <2>3, <3>1 DEF Types, Services
      <3>3. Types'
        BY <1>2, <1>4, <3>2 DEF Types
      <3>4. Sound(Append(H, how), record.ran, Q, D)
        BY PostedElsewhere DEF Handed
      <3>5. Handed'
        BY <1>3, <3>2, <3>4 DEF Handed
      <3>6. Stages'
        BY <1>2, <2>1, <3>2 DEF Stages
      <3>7. NoneLost' /\ Awaited'
        BY <1>1, <1>2, <1>3, <2>4, <3>2 DEF NoneLost, Awaited, Stages
      <3> QED  BY <3>3, <3>5, <3>6, <3>7
    <2>5. CASE ~ service.loop.quit
      <3> DEFINE P == l.queue
                 E == l.delayed
      <3>1. Taken(how, t, Q, D, P, E) /\ ~ l.quit /\ l \in Loops
        <4>1. t \in Nat /\ service.loop \in Loops /\ ~ service.loop.quit
          BY <1>1, <2>5, LoopType
        <4> HIDE DEF t
        <4> QED  BY <2>3, <4>1, LooperTakes
      <3>2. service'.loop = l /\ service'.stage = "looping" /\ ~ service'.mStopped
            /\ service'.mQueue = <<>> /\ service' \in Services
        <4>1. service \in Services /\ service' = [service EXCEPT !.loop = l]
          BY <2>3 DEF Types
        <4> QED  BY <2>1, <3>1, <4>1, NewLoop
      <3>3. Types'
        BY <1>2, <1>4, <3>2 DEF Types
      <3>4. AllThere(H, record.ran, Q, D) /\ Sound(H, record.ran, Q, D)
        BY <2>1, <2>5 DEF NoneLost, Handed
      <3>5. P \in Seq(Nat) /\ E \in SUBSET Nat
        BY <3>1 DEF Loops
      <3> HIDE DEF P, E
      <3>6. /\ Sound(Append(H, how), record.ran, P, E)
            /\ AllThere(Append(H, how), record.ran, P, E)
            /\ \A a, b : Before(Q, a, b) => Before(P, a, b)
            /\ Range(P) \subseteq Range(Q) \cup {t}
        <4>1. H \in Seq(Hows) /\ record.ran \in Seq(Nat) /\ Q \in Seq(Nat) /\ D \in SUBSET Nat
          BY LoopType
        <4>2. t = Len(H) + 1
          OBVIOUS
        <4> HIDE DEF Q, D, H, t
        <4> QED  BY <3>1, <3>4, <3>5, <4>1, <4>2, PostedToLooper
      <3> USE DEF P, E
      <3>7. Handed' /\ NoneLost'
        BY <1>3, <3>2, <3>6 DEF Handed, NoneLost
      <3>8. Stages'
        <4>1. t # Notifying
          BY <1>1 DEF Notifying
        <4> QED  BY <1>2, <2>5, <3>1, <3>2, <3>6, <4>1 DEF Stages
      <3>9. Awaited'
        BY <1>1, <1>2, <1>3, <3>2, <3>6 DEF Awaited, Behind
      <3> QED  BY <3>3, <3>7, <3>8, <3>9
    <2> QED  BY <2>4, <2>5
  <1> QED  BY <1>5, <1>6

LEMMA PrepareServiceKeeps ==
    ASSUME IInv, PrepareService
    PROVE  IInv'
  <1> USE DEF IInv
  <1>1. /\ service.stage = "new" /\ service' = [service EXCEPT !.stage = "handler"]
        /\ stopping' = stopping /\ record' = record
    BY DEF PrepareService
  <1>2. /\ service' \in Services /\ service'.stage = "handler" /\ service'.loop = service.loop
        /\ service'.mQueue = service.mQueue /\ service'.mStopped = service.mStopped
    BY <1>1 DEF Types, Services
  <1>3. Types'
    BY <1>1, <1>2 DEF Types
  <1>4. Handed'
    BY <1>1, <1>2 DEF Handed
  <1>5. Stages'
    BY <1>1, <1>2 DEF Stages
  <1>6. NoneLost' /\ Awaited'
    BY <1>1, <1>2 DEF NoneLost, Awaited
  <1> QED  BY <1>3, <1>4, <1>5, <1>6

LEMMA StartLoopKeeps ==
    ASSUME IInv, StartLoop
    PROVE  IInv'
  <1> DEFINE H == record.how
             Q == service.loop.queue
             M == service.mQueue
  <1> USE DEF IInv
  <1>1. /\ service.stage = "handler" /\ stopping' = stopping /\ record' = record
        /\ service' = [HandOver(service) EXCEPT !.stage = "looping", !.mStopped = FALSE]
    BY DEF StartLoop
  <1>2. /\ M = Numbers(Len(H)) /\ record.ran = <<>> /\ service.loop.delayed = {}
        /\ Range(Q) \subseteq {Notifying}
    BY <1>1 DEF Stages
  <1>3. PICK l : l = PostAll(service.loop, M)
    OBVIOUS
  <1>4. /\ l \in Loops /\ l.quit = service.loop.quit /\ l.delayed = {}
        /\ l.queue = IF l.quit THEN Q ELSE Q \o M
    <2>1. service.loop \in Loops /\ M \in Seq(Nat) /\ Q \in Seq(Nat)
      BY LoopType
    <2> DEFINE q == Q \o M
    <2>2. q \in Seq(Nat)
      BY <2>1
    <2>3. l = IF service.loop.quit THEN service.loop ELSE [service.loop EXCEPT !.queue = q]
      BY <1>3 DEF PostAll
    <2> HIDE DEF q
    <2>4. CASE service.loop.quit
      BY <1>2, <2>1, <2>3, <2>4
    <2>5. CASE ~ service.loop.quit
      <3>1. l = [service.loop EXCEPT !.queue = q]
        BY <2>3, <2>5
      <3>2. l \in Loops /\ l.quit = service.loop.quit /\ l.delayed = {} /\ l.queue = q
        BY <1>2, <2>1, <2>2, <3>1 DEF Loops
      <3> QED  BY <2>5, <3>2 DEF q
    <2> QED  BY <2>4, <2>5
  <1>5. /\ service' \in Services /\ service'.stage = "looping" /\ service'.loop = l
        /\ service'.mQueue = <<>> /\ service'.mStopped = FALSE
    <2>1. PICK s : s = [service EXCEPT !.loop = l]
      OBVIOUS
    <2>2. /\ s \in Services /\ s.loop = l
      BY <1>4, <2>1, NewLoop DEF Types
    <2>3. PICK u : u = [s EXCEPT !.mQueue = <<>>]
      OBVIOUS
    <2>4. u \in Services /\ u.loop = l /\ u.mQueue = <<>>
      <3>1. <<>> \in Seq(Nat)
        OBVIOUS
      <3> QED  BY <2>2, <2>3, <3>1, NewWaiting, ZenonT(30)
    <2>5. service' = [u EXCEPT !.stage = "looping", !.mStopped = FALSE]
      BY <1>1, <1>3, <2>1, <2>3 DEF HandOver
    <2> QED  BY <2>4, <2>5 DEF Services
  <1>6. Types'
    BY <1>1, <1>5 DEF Types
  <1>7. CASE service.loop.quit
    <2>1. l.queue = Q /\ Q = <<>>
      BY <1>4, <1>7 DEF Stages
    <2>2. Handed'
      BY <1>1, <1>2, <1>4, <1>5, <2>1 DEF Handed
    <2>3. Stages'
      BY <1>1, <1>4, <1>5, <2>1 DEF Stages
    <2>4. NoneLost' /\ Awaited'
      BY <1>1, <1>4, <1>5, <1>7, <2>1 DEF NoneLost, Awaited
    <2> QED  BY <1>6, <2>2, <2>3, <2>4
  <1>8. CASE ~ service.loop.quit
    <2> DEFINE P == l.queue
    <2>1. P = Q \o M /\ P \in Seq(Nat) /\ H \in Seq(Hows) /\ Q \in Seq(Nat) /\ IsInjective(Q)
      BY <1>4, <1>8, LoopType DEF Loops, Handed, Sound, Apart
    <2>2. /\ Sound(H, <<>>, P, {}) /\ AllThere(H, <<>>, P, {})
          /\ \A a, b : Before(Q, a, b) => Before(P, a, b)
          /\ Notifying \in Range(P) => Notifying \in Range(Q)
      <3> HIDE DEF P, Q, H
      <3> QED  BY <1>2, <2>1, HandedOver DEF H
    <2>3. Handed' /\ NoneLost'
      BY <1>1, <1>2, <1>4, <1>5, <2>2 DEF Handed, NoneLost
    <2>4. Stages'
      BY <1>1, <1>4, <1>5, <1>8, <2>2 DEF Stages
    <2>5. Awaited'
      BY <1>1, <1>5, <2>2 DEF Awaited, Behind
    <2> QED  BY <1>6, <2>3, <2>4, <2>5
  <1> QED  BY <1>7, <1>8

LEMMA RunServiceKeeps ==
    ASSUME IInv, RunService
    PROVE  IInv'
  <1> DEFINE H == record.how
             R == record.ran
             Q == service.loop.queue
             D == service.loop.delayed
             B == record.before
  <1> USE DEF IInv
  <1>1. PICK t \in Ready(service.loop) :
          /\ service' = [service EXCEPT !.loop = Without(@, t)]
          /\ IF t = Notifying
             THEN /\ stopping' = IF stopping = "waits" THEN "notified" ELSE stopping
                  /\ record' = record
             ELSE record' = [record EXCEPT !.ran = Append(@, t)] /\ stopping' = stopping
    BY DEF RunService
  <1>2. service.stage = "looping"
    BY DEF RunService
  <1>3. H \in Seq(Hows) /\ R \in Seq(Nat) /\ Q \in Seq(Nat) /\ D \in SUBSET Nat
        /\ service.loop \in Loops /\ Sound(H, R, Q, D)
    BY LoopType DEF Handed
  <1>4. t \in D \/ (t \notin D /\ Q # <<>> /\ t = Head(Q))
    BY <1>1 DEF Ready
  <1>5. ~ service.loop.quit
    BY <1>4 DEF Stages
  <1>6. t \in Nat
    BY <1>3, <1>4
  <1>7. PICK l : l = Without(service.loop, t) /\ service' = [service EXCEPT !.loop = l]
    BY <1>1
  <1>8. /\ l \in Loops /\ l.quit = service.loop.quit
        /\ IF t \in D THEN l.queue = Q /\ l.delayed = D \ {t}
           ELSE l.queue = Tail(Q) /\ l.delayed = D
    <2>1. CASE t \in D
      BY <1>3, <1>7, <2>1 DEF Without, Loops
    <2>2. CASE t \notin D
      <3> DEFINE q == Tail(Q)
      <3>1. q \in Seq(Nat)
        BY <1>3, <1>4, <2>2
      <3>2. l = [service.loop EXCEPT !.queue = q]
        BY <1>7, <2>2 DEF Without
      <3> HIDE DEF q
      <3>3. l \in Loops /\ l.quit = service.loop.quit /\ l.queue = q /\ l.delayed = D
        BY <1>3, <3>1, <3>2 DEF Loops
      <3> QED  BY <2>2, <3>3 DEF q
    <2> QED  BY <2>1, <2>2
  <1>9. /\ service' \in Services /\ service'.loop = l /\ service'.stage = "looping"
        /\ service'.mQueue = service.mQueue /\ service'.mStopped = service.mStopped
    BY <1>2, <1>7, <1>8, NewLoop DEF Types
  <1>10. PICK S : S = IF t = Notifying THEN R ELSE Append(R, t)
    OBVIOUS
  <1>11. S \in Seq(Nat)
    BY <1>3, <1>6, <1>10
  <1>12. /\ record'.how = H /\ record'.ran = S /\ record'.before = record.before
         /\ record'.started = record.started
         /\ record' \in [how : Seq(Hows), ran : Seq(Nat), before : SUBSET Nat, started : BOOLEAN]
    <2>1. record' = [record EXCEPT !.ran = S]
      BY <1>1, <1>10 DEF Types
    <2> QED  BY <1>11, <2>1 DEF Types
  <1>13. TakenWell(H, R, Q, D, B, t, S, l.queue, l.delayed)
    <2>3. B \in SUBSET Nat
      BY DEF Types
    <2> HIDE DEF H, R, Q, D, B
    <2>1. CASE t \in D
      <3>1. t # Notifying /\ TakenWell(H, R, Q, D, B, t, Append(R, t), Q, D \ {t})
        BY <1>3, <2>1, <2>3, TakenLater
      <3>2. S = Append(R, t) /\ l.queue = Q /\ l.delayed = D \ {t}
        BY <1>8, <1>10, <2>1, <3>1
      <3> QED  BY <3>1, <3>2
    <2>2. CASE t \notin D
      <3>1. Q # <<>> /\ t = Head(Q) /\ l.queue = Tail(Q) /\ l.delayed = D
        BY <1>4, <1>8, <2>2
      <3>2. TakesFirst(R, Q, t, S, l.queue) /\ l.queue \in Seq(Nat)
        BY <1>8, <1>10, <3>1 DEF TakesFirst, Loops
      <3>3. TakenWell(H, R, Q, D, B, t, S, l.queue, D)
        BY <1>3, <1>6, <1>11, <2>3, <3>2, TakenFromQueue
      <3> QED  BY <3>1, <3>3
    <2> QED  BY <2>1, <2>2
  <1>14. Types'
    BY <1>1, <1>9, <1>12 DEF Types
  <1>15. Handed' /\ NoneLost'
    BY <1>2, <1>5, <1>9, <1>12, <1>13 DEF TakenWell, Handed, NoneLost
  <1>16. Stages'
    BY <1>1, <1>2, <1>5, <1>8, <1>9, <1>13 DEF TakenWell, Stages
  <1>17. Awaited'
    <2>1. record'.before \subseteq 1 .. Len(record'.how)
      BY <1>12 DEF Awaited
    <2>2. CASE t = Notifying
      BY <1>1, <1>12, <1>13, <2>1, <2>2 DEF TakenWell, Awaited
    <2>3. CASE t # Notifying
      BY <1>1, <1>9, <1>12, <1>13, <2>1, <2>3 DEF TakenWell, Awaited
    <2> QED  BY <2>2, <2>3
  <1> QED  BY <1>14, <1>15, <1>16, <1>17

LEMMA EndServiceKeeps ==
    ASSUME IInv, EndService
    PROVE  IInv'
  <1> USE DEF IInv
  <1>1. /\ service.stage = "looping" /\ service' = [service EXCEPT !.stage = "ended"]
        /\ service.loop.quit /\ stopping' = stopping /\ record' = record
    BY DEF EndService, Done
  <1>2. /\ service' \in Services /\ service'.stage = "ended" /\ service'.loop = service.loop
        /\ service'.mQueue = service.mQueue /\ service'.mStopped = service.mStopped
    BY <1>1 DEF Types, Services
  <1>3. Types'
    BY <1>1, <1>2 DEF Types
  <1>4. Handed'
    BY <1>1, <1>2 DEF Handed
  <1>5. Stages'
    BY <1>1, <1>2 DEF Stages
  <1>6. NoneLost' /\ Awaited'
    BY <1>1, <1>2 DEF NoneLost, Awaited
  <1> QED  BY <1>3, <1>4, <1>5, <1>6

LEMMA StopServiceKeeps ==
    ASSUME IInv, StopService
    PROVE  IInv'
  <1> DEFINE H == record.how
             R == record.ran
             Q == service.loop.queue
             D == service.loop.delayed
             B == {t \in DOMAIN H : H[t] # "delayed"}
  <1> USE DEF IInv
  <1>1. /\ stopping = "no" /\ HasLooper /\ stopping' = "waits"
        /\ service' = [service EXCEPT !.loop = Post(@, Notifying)]
        /\ record' = [record EXCEPT !.before = B, !.started = ~ Early]
    BY DEF StopService
  <1>2. H \in Seq(Hows) /\ R \in Seq(Nat) /\ Q \in Seq(Nat) /\ D \in SUBSET Nat
        /\ service.loop \in Loops /\ Sound(H, R, Q, D)
    BY LoopType DEF Handed
  <1>3. ~ service.loop.quit /\ Notifying \notin Range(Q)
    BY <1>1 DEF Stages
  <1>4. /\ Append(Q, Notifying) \in Seq(Nat)
        /\ Sound(H, R, Append(Q, Notifying), D)
        /\ Range(Append(Q, Notifying)) = Range(Q) \cup {Notifying}
        /\ AllThere(H, R, Q, D) =>
              /\ AllThere(H, R, Append(Q, Notifying), D)
              /\ Behind(B, R, Append(Q, Notifying))
    <2> HIDE DEF H, R, Q, D
    <2> QED  BY <1>2, <1>3, StopPosted
  <1> DEFINE q == Append(Q, Notifying)
  <1>5. PICK l : l = [service.loop EXCEPT !.queue = q] /\ service' = [service EXCEPT !.loop = l]
    BY <1>1, <1>3 DEF Post
  <1> HIDE DEF q
  <1>6. l \in Loops /\ ~ l.quit /\ l.queue = q /\ l.delayed = D
    <2>1. q \in Seq(Nat)
      BY <1>4 DEF q
    <2> QED  BY <1>2, <1>3, <1>5, <2>1 DEF Loops
  <1>7. /\ service' \in Services /\ service'.loop = l /\ service'.stage = service.stage
        /\ service'.mQueue = service.mQueue /\ service'.mStopped = service.mStopped
    <2>1. service \in Services
      BY DEF Types
    <2> QED  BY <1>5, <1>6, <2>1, NewLoop
  <1>8. B \subseteq 1 .. Len(H) /\ B \in SUBSET Nat
    <2>1. DOMAIN H = 1 .. Len(H) /\ 1 .. Len(H) \subseteq Nat
      BY <1>2
    <2> QED  BY <2>1
  <1> HIDE DEF B
  <1>9. /\ record'.how = H /\ record'.ran = R /\ record'.before = B
        /\ record'.started = ~ Early
        /\ record' \in [how : Seq(Hows), ran : Seq(Nat), before : SUBSET Nat, started : BOOLEAN]
    <2>1. PICK early \in BOOLEAN : early = ~ Early
      BY DEF Early
    <2>2. record' = [record EXCEPT !.before = B, !.started = early]
      BY <1>1, <2>1
    <2> QED  BY <1>8, <2>1, <2>2 DEF Types
  <1>10. Types'
    BY <1>1, <1>7, <1>9 DEF Types
  <1>11. Handed'
    BY <1>4, <1>6, <1>7, <1>9 DEF Handed, q
  <1>12. NoneLost'
    BY <1>3, <1>4, <1>6, <1>7, <1>9 DEF NoneLost, q
  <1>13. Stages'
    BY <1>1, <1>3, <1>4, <1>6, <1>7, <1>9 DEF Stages, q
  <1>14. ASSUME ~ Early  PROVE AllThere(H, R, Q, D)
    BY <1>3, <1>14 DEF Early, HasLooper, Stages, NoneLost
  <1>15. Awaited'
    BY <1>1, <1>4, <1>6, <1>7, <1>8, <1>9, <1>14 DEF Awaited, q
  <1> QED  BY <1>10, <1>11, <1>12, <1>13, <1>15

LEMMA QuitServiceKeeps ==
    ASSUME IInv, QuitService
    PROVE  IInv'
  <1> DEFINE l == [queue |-> <<>>, delayed |-> {}, quit |-> TRUE]
  <1> USE DEF IInv
  <1>1. /\ stopping \in {"waits", "notified"} /\ record' = record
        /\ service' = [service EXCEPT !.loop = l]
        /\ stopping' = IF stopping = "notified" THEN "done" ELSE "expired"
    BY DEF QuitService, Quit
  <1>2. l \in Loops /\ l.quit /\ l.queue = <<>> /\ l.delayed = {}
    BY DEF Loops
  <1> HIDE DEF l
  <1>3. /\ service' \in Services /\ service'.loop = l /\ service'.stage = service.stage
        /\ service'.mQueue = service.mQueue /\ service'.mStopped = service.mStopped
    <2>1. service \in Services
      BY DEF Types
    <2> QED  BY <1>1, <1>2, <2>1, NewLoop
  <1>4. Types'
    BY <1>1, <1>3 DEF Types
  <1>5. Sound(record.how, record.ran, <<>>, {})
    BY LoopType, Dropped DEF Handed
  <1>6. Handed'
    BY <1>1, <1>2, <1>3, <1>5 DEF Handed
  <1>7. Stages'
    BY <1>1, <1>2, <1>3, EmptyRange DEF Stages
  <1>8. NoneLost' /\ Awaited'
    BY <1>1, <1>2, <1>3 DEF NoneLost, Awaited
  <1> QED  BY <1>4, <1>6, <1>7, <1>8

LEMMA NextKeeps == IInv /\ [ServiceNext]_serviceVars => IInv'
  <1> SUFFICES ASSUME IInv, [ServiceNext]_serviceVars  PROVE IInv'
    OBVIOUS
  <1>1. ASSUME NEW how \in {"post", "front", "delayed"}, PostTask(how)  PROVE IInv'
    BY <1>1, PostTaskKeeps DEF Hows
  <1>2. CASE PrepareService
    BY <1>2, PrepareServiceKeeps
  <1>3. CASE StartLoop
    BY <1>3, StartLoopKeeps
  <1>4. CASE RunService
    BY <1>4, RunServiceKeeps
  <1>5. CASE EndService
    BY <1>5, EndServiceKeeps
  <1>6. CASE StopService
    BY <1>6, StopServiceKeeps
  <1>7. CASE QuitService
    BY <1>7, QuitServiceKeeps
  <1>8. CASE UNCHANGED serviceVars
    BY <1>8 DEF serviceVars, IInv, Types, Handed, Stages, NoneLost, Awaited
  <1> QED  BY <1>1, <1>2, <1>3, <1>4, <1>5, <1>6, <1>7, <1>8 DEF ServiceNext

LEMMA Invariant == ServiceSpec => []IInv
  <1> QED  BY InitOK, NextKeeps, PTL DEF ServiceSpec

-----------------------------------------------------------------------------
(* The properties. *)

\* ServiceThread runs what was posted in order and once, and has nothing left that was
\* posted when its looper is idle, unless it was stopped.
THEOREM RunsInOrder == ServiceSpec => []ServiceInOrder
  <1>1. IInv => ServiceInOrder
    <2> SUFFICES ASSUME IInv  PROVE ServiceInOrder
      OBVIOUS
    <2> USE DEF IInv
    <2>1. DOMAIN record.how = 1 .. Len(record.how)
      BY LoopType
    <2>2. \A a, b \in DOMAIN record.how :
             a < b /\ record.how[a] = "post" /\ record.how[b] = "post" /\ ServiceRan(b)
                 => Before(record.ran, a, b)
      BY <2>1 DEF Handed, Sound, Ordered, ServiceRan
    <2>3. ASSUME stopping = "no", service.stage = "looping", Ready(service.loop) = {},
                 NEW t \in DOMAIN record.how
          PROVE  ServiceRan(t)
      <3>1. service.loop.queue = <<>> /\ service.loop.delayed = {}
        BY <2>3 DEF Ready
      <3>2. ~ service.loop.quit
        BY <2>3 DEF Stages
      <3> QED  BY <2>1, <2>3, <3>1, <3>2, EmptyRange DEF NoneLost, AllThere, ServiceRan
    <2>4. \A x, y \in DOMAIN record.ran : record.ran[x] = record.ran[y] => x = y
      BY DEF Handed, Sound, Apart, IsInjective
    <2> QED  BY <2>2, <2>3, <2>4 DEF ServiceInOrder, Before
  <1> QED  BY <1>1, Invariant, PTL

\* ServiceThread.stop that was notified has lost no task that was posted before it without
\* a delay, once the looper had started.
THEOREM NotifiedStopIsComplete == ServiceSpec => []StopLosesNothing
  <1>1. IInv => StopLosesNothing
    BY DEF IInv, Awaited, StopLosesNothing, ServiceRan
  <1> QED  BY <1>1, Invariant, PTL

-----------------------------------------------------------------------------
(* The background thread. *)

TaskLoops == [queue : Seq(Int), delayed : SUBSET Int, quit : BOOLEAN]
Threads ==
    [stage : {"new", "handler", "looping", "left", "ended"}, loop : TaskLoops, posted : Seq(Int),
     guiHandler : BOOLEAN, postedGUI : Seq(Int), stopped : BOOLEAN, forwarded : Nat]
Calls ==
    [op : {"none", "background", "gui", "get", "lock", "waiting", "notify", "forward"},
     task : Int, thread : Int, seen : BOOLEAN, delay : BOOLEAN, wait : BOOLEAN]
Posts == [by : Posters, thread : Int, to : {"background", "gui"}, delay : BOOLEAN]
Logs ==
    [posts : Seq(Posts), ran : Seq(Int), called : SUBSET Int, completed : SUBSET Int,
     dropped : SUBSET Int, late : SUBSET Int, early : SUBSET Int]

TaskTypes ==
    /\ threads \in Seq(Threads) /\ instance \in Nat /\ gui \in TaskLoops
    /\ call \in [Posters -> Calls]
    /\ services \in [up : BOOLEAN, engine : BOOLEAN, clean : BOOLEAN, starts : Nat]
    /\ log \in Logs

\* instance() returns the last thread that was made, as long as it has not ended.
OneThread ==
    /\ instance # 0 => instance = Len(threads) /\ threads[instance].stage # "ended"
    /\ \A i \in 1 .. Len(threads) : i # instance => threads[i].stage = "ended"

\* The list was not copied yet.
Fresh(T) == T.stage \in {"new", "handler"}

\* A thread that stopServices was not called for has none of its tasks, and does not quit.
Good(T) ==
    /\ ~ T.stopped =>
          /\ ~ T.loop.quit
          /\ \A t \in Range(T.loop.queue) \cup Range(T.posted) \cup T.loop.delayed : t >= 1
    /\ T.stage \in {"left", "ended"} => T.loop.quit

AllGood == \A i \in 1 .. Len(threads) : Good(threads[i])

\* The thread of a call exists; the task of stopServices goes to one that is marked.
Aims(c, all) ==
    /\ c.op \in {"background", "gui", "forward"} => c.thread \in 1 .. Len(all)
    /\ c.op = "background" /\ ~ all[c.thread].stopped => c.task >= 1

Calling == \A p \in Posters : Aims(call[p], threads)

Started ==
    services.up /\ services.clean =>
        /\ instance # 0 /\ ~ threads[instance].stopped /\ threads[instance].guiHandler
        /\ call["gui"].op # "forward" => services.engine

Clean == TaskTypes /\ OneThread /\ AllGood /\ Calling /\ Started

-----------------------------------------------------------------------------
(* The looper. *)

LEMMA LoopPost ==
    ASSUME NEW l \in TaskLoops, NEW t \in Int
    PROVE  /\ Post(l, t) \in TaskLoops
           /\ Post(l, t).queue = IF l.quit THEN l.queue ELSE Append(l.queue, t)
           /\ Post(l, t).delayed = l.delayed /\ Post(l, t).quit = l.quit
  <1>1. l.queue \in Seq(Int) /\ Append(l.queue, t) \in Seq(Int)
    BY DEF TaskLoops
  <1> QED  BY <1>1 DEF Post, TaskLoops

LEMMA LoopPostWithDelay ==
    ASSUME NEW l \in TaskLoops, NEW t \in Int, NEW delay \in BOOLEAN
    PROVE  /\ PostWithDelay(l, t, delay) \in TaskLoops
           /\ PostWithDelay(l, t, delay).queue =
                 IF l.quit \/ delay THEN l.queue ELSE Append(l.queue, t)
           /\ PostWithDelay(l, t, delay).delayed =
                 IF l.quit \/ ~ delay THEN l.delayed ELSE l.delayed \cup {t}
           /\ PostWithDelay(l, t, delay).quit = l.quit
  <1>1. CASE delay
    <2>1. l.delayed \cup {t} \in SUBSET Int
      BY DEF TaskLoops
    <2> QED  BY <1>1, <2>1 DEF PostWithDelay, PostLater, TaskLoops
  <1>2. CASE ~ delay
    BY <1>2, LoopPost DEF PostWithDelay
  <1> QED  BY <1>1, <1>2

LEMMA LoopPostAll ==
    ASSUME NEW l \in TaskLoops, NEW s \in Seq(Int)
    PROVE  /\ PostAll(l, s) \in TaskLoops
           /\ PostAll(l, s).queue = IF l.quit THEN l.queue ELSE l.queue \o s
           /\ PostAll(l, s).delayed = l.delayed /\ PostAll(l, s).quit = l.quit
  <1>1. l.queue \in Seq(Int) /\ l.queue \o s \in Seq(Int)
    BY DEF TaskLoops
  <1> QED  BY <1>1 DEF PostAll, TaskLoops

\* The loop takes t, and R is what is left.
LEMMA LoopTakes ==
    ASSUME NEW l \in TaskLoops, NEW t \in Ready(l), NEW R, R = Without(l, t)
    PROVE  /\ t \in Int /\ R \in TaskLoops /\ R.quit = l.quit /\ R.delayed \subseteq l.delayed
           /\ \/ t \in l.delayed /\ R.queue = l.queue
              \/ l.queue # <<>> /\ t = Head(l.queue) /\ R.queue = Tail(l.queue)
  <1>1. l.queue \in Seq(Int) /\ l.delayed \in SUBSET Int
    BY DEF TaskLoops
  <1>2. CASE t \in l.delayed
    BY <1>1, <1>2 DEF Without, TaskLoops
  <1>3. CASE t \notin l.delayed
    <2>1. l.queue # <<>> /\ t = Head(l.queue)
      BY <1>3 DEF Ready
    <2>2. Tail(l.queue) \in Seq(Int) /\ t \in Int
      BY <1>1, <2>1
    <2> QED  BY <1>3, <2>1, <2>2 DEF Without, TaskLoops
  <1> QED  BY <1>2, <1>3

LEMMA LoopQuits ==
    ASSUME NEW l \in TaskLoops
    PROVE  /\ QuitSafely(l) \in TaskLoops /\ QuitSafely(l).quit
           /\ QuitSafely(l).queue = l.queue /\ QuitSafely(l).delayed = {}
  BY DEF QuitSafely, TaskLoops

LEMMA NewLooperIs ==
    NewLooper \in TaskLoops /\ NewLooper.queue = <<>> /\ NewLooper.delayed = {} /\ ~ NewLooper.quit
  BY DEF NewLooper, TaskLoops

LEMMA NewThreadIs ==
    /\ NewThread \in Threads /\ NewThread.stage = "new" /\ NewThread.loop = NewLooper
    /\ NewThread.posted = <<>> /\ NewThread.postedGUI = <<>> /\ ~ NewThread.stopped
    /\ ~ NewThread.guiHandler
  BY NewLooperIs DEF NewThread, Threads

-----------------------------------------------------------------------------
(* The list of threads. *)

\* instance() makes a thread when there is none.
LEMMA MadeIs ==
    ASSUME TaskTypes, OneThread
    PROVE  /\ Made \in Seq(Threads) /\ Current = Len(Made) /\ Current \in 1 .. Len(Made)
           /\ Len(threads) <= Len(Made) /\ Current \in Nat /\ Current # 0
           /\ \A i \in 1 .. Len(threads) : i \in 1 .. Len(Made) /\ Made[i] = threads[i]
           /\ \A i \in 1 .. Len(Made) : i \notin 1 .. Len(threads) =>
                  i = Current /\ Made[i] = NewThread
           /\ \A i \in 1 .. Len(Made) : i # Current =>
                  i \in 1 .. Len(threads) /\ i # instance
           /\ Made[Current].stage # "ended"
           /\ instance # 0 => Made = threads /\ Current = instance
  <1>1. threads \in Seq(Threads) /\ instance \in Nat /\ Len(threads) \in Nat
    BY DEF TaskTypes
  <1>2. CASE instance = 0
    <2>1. Made = Append(threads, NewThread) /\ Current = Len(threads) + 1
      BY <1>2 DEF Made, Current
    <2>2. /\ Made \in Seq(Threads)
          /\ Len(Made) = Len(threads) + 1
          /\ Made[Len(threads) + 1] = NewThread
          /\ \A i \in 1 .. Len(threads) : Made[i] = threads[i]
      BY <1>1, <2>1, NewThreadIs
    <2>3. /\ \A i \in 1 .. Len(threads) + 1 : i \notin 1 .. Len(threads) => i = Len(threads) + 1
          /\ \A i \in 1 .. Len(threads) : i \in 1 .. Len(threads) + 1 /\ i # 0
      BY <1>1
    <2> QED  BY <1>1, <1>2, <2>1, <2>2, <2>3, NewThreadIs
  <1>3. CASE instance # 0
    <2>1. Made = threads /\ Current = instance
      BY <1>3 DEF Made, Current
    <2>2. instance = Len(threads) /\ threads[instance].stage # "ended"
      BY <1>3 DEF OneThread
    <2> QED  BY <1>1, <1>3, <2>1, <2>2
  <1> QED  BY <1>2, <1>3

-----------------------------------------------------------------------------
(* What the actions change. *)

\* Only the thread i, which becomes T.
Becomes(i, T) ==
    /\ threads' \in Seq(Threads) /\ Len(threads') = Len(threads)
    /\ T \in Threads /\ threads'[i] = T
    /\ \A j \in 1 .. Len(threads) : j # i => threads'[j] = threads[j]

LEMMA ThreadBecomes ==
    ASSUME TaskTypes, NEW i \in 1 .. Len(threads), NEW T \in Threads,
           threads' = [threads EXCEPT ![i] = T]
    PROVE  Becomes(i, T)
  <1>1. threads \in Seq(Threads)
    BY DEF TaskTypes
  <1>2. /\ threads' \in Seq(Threads) /\ Len(threads') = Len(threads) /\ threads'[i] = T
        /\ \A j \in 1 .. Len(threads) : j # i => threads'[j] = threads[j]
    BY <1>1
  <1> QED  BY <1>2 DEF Becomes

LEMMA ThreadTypes ==
    ASSUME TaskTypes, NEW i \in 1 .. Len(threads)
    PROVE  /\ threads[i] \in Threads /\ threads[i].loop \in TaskLoops /\ threads[i].posted \in Seq(Int)
           /\ threads[i].postedGUI \in Seq(Int) /\ threads[i].stopped \in BOOLEAN
           /\ threads[i].guiHandler \in BOOLEAN /\ threads[i].loop.queue \in Seq(Int)
           /\ threads[i].loop.delayed \in SUBSET Int /\ threads[i].loop.quit \in BOOLEAN
           /\ threads[i].stage \in {"new", "handler", "looping", "left", "ended"}
           /\ threads[i].forwarded \in Nat
  <1>1. threads[i] \in Threads
    BY DEF TaskTypes
  <1> QED  BY <1>1 DEF Threads, TaskLoops

LEMMA CallTypes ==
    ASSUME TaskTypes, NEW p \in Posters
    PROVE  /\ call[p] \in Calls /\ call[p].task \in Int /\ call[p].thread \in Int
           /\ call[p].seen \in BOOLEAN /\ call[p].delay \in BOOLEAN /\ call[p].wait \in BOOLEAN
  BY DEF TaskTypes, Calls

LEMMA NoCallIs ==
    NoCall \in Calls /\ NoCall.op = "none"
  BY DEF NoCall, Calls

LEMMA CallBecomes ==
    ASSUME TaskTypes, NEW p \in Posters, NEW c \in Calls, Called(p, c)
    PROVE  call' \in [Posters -> Calls] /\ call'[p] = c /\ \A q \in Posters : q # p => call'[q] = call[q]
  BY DEF TaskTypes, Called


\* The fields that the lists of background tasks do not touch.
Alike(T, b) ==
    /\ T.stage = b.stage /\ T.stopped = b.stopped /\ T.guiHandler = b.guiHandler
    /\ T.postedGUI = b.postedGUI

LEMMA ListsChange ==
    ASSUME NEW b \in Threads, NEW l \in TaskLoops, NEW s \in Seq(Int)
    PROVE  /\ [b EXCEPT !.loop = l] \in Threads /\ [b EXCEPT !.posted = s] \in Threads
           /\ Alike([b EXCEPT !.loop = l], b) /\ Alike([b EXCEPT !.posted = s], b)
           /\ [b EXCEPT !.loop = l].loop = l /\ [b EXCEPT !.loop = l].posted = b.posted
           /\ [b EXCEPT !.posted = s].posted = s /\ [b EXCEPT !.posted = s].loop = b.loop
  BY DEF Threads, Alike

\* The end of postBackground: the task t goes to a list, to the looper, or nowhere.
TaskEnds(c, t, b, T) ==
    /\ Alike(T, b)
    /\ \/ /\ ~ c.seen /\ T.loop = b.loop /\ T.posted = Append(b.posted, t)
          /\ log'.early = log.early
          /\ Fresh(b) => log'.late = log.late
          /\ ~ Fresh(b) => log'.late = log.late \cup {t}
       \/ /\ c.seen /\ HasHandler(b) /\ T.posted = b.posted
          /\ T.loop = PostWithDelay(b.loop, t, c.delay)
          /\ log'.late = log.late
          /\ log'.early \in {log.early, log.early \cup {t}}
          /\ b.stage = "handler" => t \in log'.early
       \/ /\ c.seen /\ ~ HasHandler(b) /\ T.loop = b.loop /\ T.posted = b.posted
          /\ log'.late = log.late /\ log'.early = log.early

LEMMA BackgroundEndsIs ==
    ASSUME TaskTypes, Calling, NEW p \in Posters, PostBackgroundEnds(p),
           NEW i, i = call[p].thread, NEW t, t = call[p].task
    PROVE  /\ i \in 1 .. Len(threads) /\ call[p].op = "background" /\ t \in Int
           /\ Becomes(i, threads'[i]) /\ TaskEnds(call[p], t, threads[i], threads'[i])
           /\ log' \in Logs /\ log'.posts = log.posts /\ log'.ran = log.ran
           /\ call' \in [Posters -> Calls] /\ call'[p] = NoCall
           /\ \A q \in Posters : q # p => call'[q] = call[q]
           /\ UNCHANGED <<instance, gui, services>>
  <1> DEFINE b == threads[i]
  <1>1. i \in 1 .. Len(threads) /\ call[p].op = "background"
    BY DEF Calling, Aims, PostBackgroundEnds
  <1>2. /\ b \in Threads /\ b.loop \in TaskLoops /\ b.posted \in Seq(Int) /\ t \in Int
        /\ call[p].delay \in BOOLEAN /\ call[p].seen \in BOOLEAN /\ Append(b.posted, t) \in Seq(Int)
        /\ threads \in Seq(Threads)
    BY <1>1, ThreadTypes, CallTypes DEF TaskTypes
  <1>3. Called(p, NoCall) /\ UNCHANGED <<instance, gui, services>>
    BY DEF PostBackgroundEnds
  <1>4. /\ call' \in [Posters -> Calls]
        /\ call'[p] = NoCall
        /\ \A q \in Posters : q # p => call'[q] = call[q]
    BY <1>3, NoCallIs, CallBecomes
  <1>5. \/ /\ ~ call[p].seen
           /\ threads' = [threads EXCEPT ![i].posted = Append(@, t)]
           /\ log' = [log EXCEPT !.late = IF b.stage \in {"new", "handler"} THEN @ ELSE @ \cup {t}]
        \/ /\ call[p].seen /\ HasHandler(b)
           /\ threads' = [threads EXCEPT ![i].loop = PostWithDelay(@, t, call[p].delay)]
           /\ log' = [log EXCEPT !.dropped = IF b.loop.quit THEN @ \cup {t} ELSE @,
                                 !.early = IF b.stage = "handler" THEN @ \cup {t} ELSE @]
        \/ /\ call[p].seen /\ ~ HasHandler(b)
           /\ log' = [log EXCEPT !.dropped = @ \cup {t}]
           /\ UNCHANGED threads
    BY SMTT(30) DEF PostBackgroundEnds
  <1>6. /\ log \in Logs /\ log.late \cup {t} \in SUBSET Int /\ log.early \cup {t} \in SUBSET Int
        /\ log.dropped \cup {t} \in SUBSET Int
    BY <1>2 DEF TaskTypes, Logs
  <1>7. CASE /\ ~ call[p].seen
             /\ threads' = [threads EXCEPT ![i].posted = Append(@, t)]
             /\ log' = [log EXCEPT !.late = IF b.stage \in {"new", "handler"} THEN @ ELSE @ \cup {t}]
    <2> DEFINE T == [b EXCEPT !.posted = Append(b.posted, t)]
    <2>1. threads' = [threads EXCEPT ![i] = T]
      BY <1>7
    <2>2. T \in Threads /\ Alike(T, b) /\ T.loop = b.loop /\ T.posted = Append(b.posted, t)
      <3>1. b \in Threads /\ Append(b.posted, t) \in Seq(Int)
        BY <1>2
      <3>2. b.loop \in TaskLoops
        BY <3>1 DEF Threads
      <3>3. PICK s \in Seq(Int) : s = Append(b.posted, t)
        BY <3>1
      <3> HIDE DEF b
      <3>4. LET u == [b EXCEPT !.posted = s]
            IN u \in Threads /\ Alike(u, b) /\ u.loop = b.loop /\ u.posted = s
        BY <3>1, <3>2, ListsChange
      <3> QED  BY <3>3, <3>4
    <2> HIDE DEF T
    <2>3. Becomes(i, T) /\ threads'[i] = T
      BY <1>1, <2>1, <2>2, ThreadBecomes DEF Becomes
    <2>4. /\ log' \in Logs /\ log'.posts = log.posts /\ log'.ran = log.ran /\ log'.early = log.early
          /\ Fresh(b) => log'.late = log.late
          /\ ~ Fresh(b) => log'.late = log.late \cup {t}
      BY <1>6, <1>7 DEF Logs, Fresh
    <2> QED  BY <1>1, <1>2, <1>3, <1>4, <1>7, <2>2, <2>3, <2>4 DEF TaskEnds
  <1>8. CASE /\ call[p].seen /\ HasHandler(b)
             /\ threads' = [threads EXCEPT ![i].loop = PostWithDelay(@, t, call[p].delay)]
             /\ log' = [log EXCEPT !.dropped = IF b.loop.quit THEN @ \cup {t} ELSE @,
                                   !.early = IF b.stage = "handler" THEN @ \cup {t} ELSE @]
    <2> DEFINE l == PostWithDelay(b.loop, t, call[p].delay)
               T == [b EXCEPT !.loop = l]
    <2>1. threads' = [threads EXCEPT ![i] = T]
      BY <1>8
    <2>2. l \in TaskLoops
      BY <1>2, LoopPostWithDelay
    <2>3. T \in Threads /\ Alike(T, b) /\ T.loop = l /\ T.posted = b.posted
      BY <1>2, <2>2, ListsChange
    <2> HIDE DEF T
    <2>4. Becomes(i, T) /\ threads'[i] = T
      BY <1>1, <2>1, <2>3, ThreadBecomes DEF Becomes
    <2>5. /\ log' \in Logs /\ log'.posts = log.posts /\ log'.ran = log.ran /\ log'.late = log.late
          /\ log'.early \in {log.early, log.early \cup {t}}
          /\ b.stage = "handler" => t \in log'.early
      BY <1>6, <1>8 DEF Logs
    <2> QED  BY <1>1, <1>2, <1>3, <1>4, <1>8, <2>3, <2>4, <2>5 DEF TaskEnds
  <1>9. CASE /\ call[p].seen /\ ~ HasHandler(b)
             /\ log' = [log EXCEPT !.dropped = @ \cup {t}]
             /\ UNCHANGED threads
    <2>1. Becomes(i, threads'[i]) /\ threads'[i] = b
      BY <1>1, <1>2, <1>9 DEF Becomes
    <2>2. log' \in Logs /\ log'.posts = log.posts /\ log'.ran = log.ran /\ log'.late = log.late
          /\ log'.early = log.early
      BY <1>6, <1>9 DEF Logs
    <2> QED  BY <1>1, <1>2, <1>3, <1>4, <1>9, <2>1, <2>2 DEF TaskEnds, Alike
  <1> QED  BY <1>5, <1>7, <1>8, <1>9

\* Only the stage.
LEMMA StageBecomes ==
    ASSUME TaskTypes, NEW i \in 1 .. Len(threads),
           NEW s \in {"new", "handler", "looping", "left", "ended"},
           threads' = [threads EXCEPT ![i].stage = s]
    PROVE  /\ Becomes(i, threads'[i]) /\ threads'[i].stage = s
           /\ threads'[i].loop = threads[i].loop /\ threads'[i].posted = threads[i].posted
           /\ threads'[i].stopped = threads[i].stopped
           /\ threads'[i].guiHandler = threads[i].guiHandler
           /\ threads'[i].postedGUI = threads[i].postedGUI
  <1> DEFINE b == threads[i]
             T == [b EXCEPT !.stage = s]
  <1>1. threads' = [threads EXCEPT ![i] = T]
    OBVIOUS
  <1>2. b \in Threads
    BY ThreadTypes
  <1>3. /\ T \in Threads /\ T.stage = s /\ T.loop = b.loop /\ T.posted = b.posted
        /\ T.stopped = b.stopped /\ T.guiHandler = b.guiHandler /\ T.postedGUI = b.postedGUI
    BY <1>2 DEF Threads
  <1> HIDE DEF T
  <1>4. Becomes(i, T) /\ threads'[i] = T
    BY <1>1, <1>3, ThreadBecomes DEF Becomes
  <1> QED  BY <1>3, <1>4

\* run copies the list.
LEMMA CopyIs ==
    ASSUME TaskTypes, NEW i \in 1 .. Len(threads), Copy(i)
    PROVE  /\ Becomes(i, threads'[i]) /\ threads[i].stage = "handler"
           /\ threads'[i].stage = "looping" /\ threads'[i].posted = <<>>
           /\ threads'[i].loop = PostAll(threads[i].loop, threads[i].posted)
           /\ threads'[i].stopped = threads[i].stopped
           /\ threads'[i].guiHandler = threads[i].guiHandler
           /\ threads'[i].postedGUI = threads[i].postedGUI
           /\ UNCHANGED <<instance, gui, call, services, log>>
  <1> DEFINE b == threads[i]
             l == PostAll(b.loop, b.posted)
             T == [b EXCEPT !.stage = "looping", !.posted = <<>>, !.loop = l]
  <1>1. threads' = [threads EXCEPT ![i] = T] /\ UNCHANGED <<instance, gui, call, services, log>>
    BY DEF Copy
  <1>2. b \in Threads /\ l \in TaskLoops /\ b.loop \in TaskLoops
    BY ThreadTypes, LoopPostAll
  <1> HIDE DEF l
  <1>3. /\ T \in Threads /\ T.stage = "looping" /\ T.loop = l /\ T.posted = <<>>
        /\ T.stopped = b.stopped /\ T.guiHandler = b.guiHandler /\ T.postedGUI = b.postedGUI
    <2> DEFINE none == <<>>
               one == [b EXCEPT !.stage = "looping"]
               two == [one EXCEPT !.posted = none]
    <2>1. none \in Seq(Int)
      OBVIOUS
    <2> HIDE DEF none
    <2>2. /\ one \in Threads /\ one.stage = "looping" /\ one.stopped = b.stopped
          /\ one.guiHandler = b.guiHandler /\ one.postedGUI = b.postedGUI
      BY <1>2 DEF Threads
    <2> HIDE DEF one
    <2>3. two \in Threads /\ Alike(two, one) /\ two.posted = none
      BY <1>2, <2>1, <2>2, ListsChange
    <2> HIDE DEF two
    <2>4. /\ [two EXCEPT !.loop = l] \in Threads /\ Alike([two EXCEPT !.loop = l], two)
          /\ [two EXCEPT !.loop = l].posted = none /\ [two EXCEPT !.loop = l].loop = l
      BY <1>2, <2>1, <2>3, ListsChange
    <2>5. T = [two EXCEPT !.loop = l]
      BY DEF two, one, none
    <2> QED  BY <2>2, <2>3, <2>4, <2>5 DEF Alike, none
  <1> HIDE DEF T
  <1>4. Becomes(i, T) /\ threads'[i] = T
    BY <1>1, <1>3, ThreadBecomes DEF Becomes
  <1> QED  BY <1>1, <1>3, <1>4 DEF Copy, l

\* The loop takes the task t; b and T are the thread before and after.
Takes(t, b, T) ==
    LET l == b.loop
        m == T.loop
    IN /\ Alike(T, b) /\ T.posted = b.posted /\ m.delayed \subseteq l.delayed
       /\ t = Quitting => m.quit
       /\ t # Quitting => m.quit = l.quit
       /\ \E q \in Seq(Int) :
             /\ \/ t \in l.delayed /\ q = l.queue
                \/ l.queue # <<>> /\ t = Head(l.queue) /\ q = Tail(l.queue)
             /\ m.queue = q \/ (t = Stopping /\ m.queue = Append(q, Quitting))
       /\ services' = [services EXCEPT !.engine = @ /\ ~ (t = Stopping /\ services.engine)]
       /\ log'.posts = log.posts /\ log'.late = log.late /\ log'.early = log.early
       /\ t \in Tasks => log'.ran = Append(log.ran, t)
       /\ t \notin Tasks => log'.ran = log.ran

LEMMA RunBackgroundIs ==
    ASSUME TaskTypes, NEW i \in 1 .. Len(threads), RunBackground(i)
    PROVE  /\ Becomes(i, threads'[i]) /\ threads[i].stage = "looping"
           /\ \E t \in Int : Takes(t, threads[i], threads'[i])
           /\ log' \in Logs /\ UNCHANGED <<instance, gui, call>>
  <1> DEFINE b == threads[i]
             l == b.loop
  <1>1. b \in Threads /\ l \in TaskLoops
    BY ThreadTypes
  <1>2. PICK t \in Ready(l) :
          LET rest == Without(l, t)
              stops == t = Stopping /\ services.engine
          IN /\ threads' = [threads EXCEPT ![i].loop =
                    CASE stops -> Post(rest, Quitting)
                      [] t = Quitting -> QuitSafely(rest)
                      [] OTHER -> rest]
             /\ services' = [services EXCEPT !.engine = @ /\ ~ stops]
             /\ log' = [log EXCEPT !.ran = IF t \in Tasks THEN Append(@, t) ELSE @,
                                   !.dropped = IF t = Quitting THEN @ \cup rest.delayed ELSE @]
    BY DEF RunBackground
  <1> DEFINE rest == Without(l, t)
             stops == t = Stopping /\ services.engine
             m == CASE stops -> Post(rest, Quitting)
                    [] t = Quitting -> QuitSafely(rest)
                    [] OTHER -> rest
             T == [b EXCEPT !.loop = m]
  <1>3. /\ t \in Int /\ rest \in TaskLoops /\ rest.quit = l.quit /\ rest.delayed \subseteq l.delayed
        /\ \/ t \in l.delayed /\ rest.queue = l.queue
           \/ l.queue # <<>> /\ t = Head(l.queue) /\ rest.queue = Tail(l.queue)
    BY <1>1, LoopTakes
  <1>4. threads' = [threads EXCEPT ![i] = T]
    BY <1>2
  <1>5. services' = [services EXCEPT !.engine = @ /\ ~ (t = Stopping /\ services.engine)]
    BY <1>2
  <1>6. log \in Logs /\ rest.delayed \in SUBSET Int /\ rest.queue \in Seq(Int)
    BY <1>3 DEF TaskTypes, TaskLoops
  <1>7. /\ Append(log.ran, t) \in Seq(Int) /\ log.dropped \cup rest.delayed \in SUBSET Int
    BY <1>3, <1>6 DEF Logs
  <1>8. log' = [log EXCEPT !.ran = IF t \in Tasks THEN Append(@, t) ELSE @,
                           !.dropped = IF t = Quitting THEN @ \cup rest.delayed ELSE @]
    BY <1>2
  <1> HIDE DEF rest
  <1>9. /\ log' \in Logs /\ log'.posts = log.posts /\ log'.late = log.late /\ log'.early = log.early
        /\ t \in Tasks => log'.ran = Append(log.ran, t)
        /\ t \notin Tasks => log'.ran = log.ran
    BY <1>6, <1>7, <1>8 DEF Logs
  <1> HIDE DEF m
  <1>10. /\ m \in TaskLoops
         /\ (t = Quitting => m.quit)
         /\ (t # Quitting => m.quit = l.quit)
         /\ m.delayed \subseteq rest.delayed
         /\ m.queue = rest.queue \/ (t = Stopping /\ m.queue = Append(rest.queue, Quitting))
    <2>1. CASE stops
      <3>1. m = Post(rest, Quitting) /\ t # Quitting /\ Quitting \in Int
        BY <2>1 DEF Stopping, Quitting, m
      <3> QED  BY <1>3, <2>1, <3>1, LoopPost
    <2>2. CASE t = Quitting
      <3>1. m = QuitSafely(rest)
        BY <2>2 DEF Stopping, Quitting, m
      <3> QED  BY <1>3, <2>2, <3>1, LoopQuits
    <2>3. CASE ~ stops /\ t # Quitting
      <3>1. m = rest
        BY <2>3 DEF m
      <3> QED  BY <1>3, <2>3, <3>1
    <2> QED  BY <2>1, <2>2, <2>3
  <1>11. T \in Threads /\ Alike(T, b) /\ T.loop = m /\ T.posted = b.posted
    BY <1>1, <1>10, ListsChange, ThreadTypes
  <1> HIDE DEF T
  <1>12. Becomes(i, T) /\ threads'[i] = T
    BY <1>4, <1>11, ThreadBecomes DEF Becomes
  <1>13. m.delayed \subseteq l.delayed
    BY <1>3, <1>10
  <1>14. Takes(t, b, T)
    BY <1>3, <1>5, <1>6, <1>9, <1>10, <1>11, <1>13 DEF Takes
  <1> QED  BY <1>3, <1>9, <1>12, <1>14 DEF RunBackground

\* A call of p that posts a task: "background" or "gui".
Asks(p, to) ==
    /\ threads' = Made /\ instance' = Current
    /\ call' \in [Posters -> Calls] /\ call'[p].op = to /\ call'[p].thread = Current
    /\ call'[p].task = Len(log.posts) + 1
    /\ to = "background" => call'[p].seen = HasHandler(Made[Current])
    /\ \A q \in Posters : q # p => call'[q] = call[q]
    /\ \E r \in Posts : /\ log'.posts = Append(log.posts, r)
                        /\ r.by = p /\ r.thread = Current /\ r.to = to /\ r.delay = call'[p].delay
    /\ log' \in Logs /\ log'.ran = log.ran /\ log'.late = log.late /\ log'.early = log.early
    /\ UNCHANGED <<gui, services>>

LEMMA PostedIs ==
    ASSUME TaskTypes, NEW r \in Posts, NEW called \in SUBSET Int, NEW L,
           L = [log EXCEPT !.posts = Append(@, r), !.called = called]
    PROVE  /\ L.posts = Append(log.posts, r)
           /\ L \in Logs /\ L.ran = log.ran /\ L.late = log.late /\ L.early = log.early
  <1> DEFINE s == Append(log.posts, r)
  <1>1. log \in Logs /\ L = [log EXCEPT !.posts = s, !.called = called]
    BY DEF TaskTypes
  <1>2. s \in Seq(Posts)
    BY <1>1 DEF Logs
  <1> HIDE DEF s
  <1>3. L.posts = s /\ L \in Logs /\ L.ran = log.ran /\ L.late = log.late /\ L.early = log.early
    BY <1>1, <1>2 DEF Logs
  <1> QED  BY <1>3 DEF s

LEMMA RequestIs ==
    ASSUME TaskTypes, OneThread, NEW p \in Posters, NEW to \in {"background", "gui"},
           NEW delay \in BOOLEAN, NEW r,
           r = [by |-> p, thread |-> Current, to |-> to, delay |-> delay]
    PROVE  r \in Posts /\ r.by = p /\ r.thread = Current /\ r.to = to /\ r.delay = delay
  <1>1. Current \in Int
    BY MadeIs
  <1> QED  BY <1>1 DEF Posts

LEMMA PostBackgroundIs ==
    ASSUME TaskTypes, OneThread, NEW p \in Posters, NEW delay \in BOOLEAN, PostBackground(p, delay)
    PROVE  Asks(p, "background") /\ call[p].op = "none" /\ Len(log.posts) + 1 \in Tasks
  <1> DEFINE n == Len(log.posts) + 1
             seen == HasHandler(Made[Current])
             r == [by |-> p, thread |-> Current, to |-> "background", delay |-> delay]
             c == [NoCall EXCEPT !.op = "background", !.task = n, !.delay = delay,
                                 !.thread = Current, !.seen = seen]
  <1>1. /\ threads' = Made /\ instance' = Current /\ UNCHANGED <<gui, services>>
        /\ Called(p, c) /\ log' = Posted(p, "background", delay)
        /\ call[p].op = "none" /\ n \in Tasks
    BY DEF PostBackground, GetInstance, NewTask, Idle
  <1>2. n \in Int /\ Current \in Int /\ seen \in BOOLEAN
    <2>1. Current \in Int
      BY MadeIs
    <2> QED  BY <2>1 DEF TaskTypes, Logs, HasHandler
  <1>3. log \in Logs /\ log.called \in SUBSET Int
    BY DEF TaskTypes, Logs
  <1>4. log' = [log EXCEPT !.posts = Append(@, r), !.called = log.called]
    BY <1>1, <1>3 DEF Posted, Logs
  <1>5. r \in Posts /\ r.by = p /\ r.thread = Current /\ r.to = "background" /\ r.delay = delay
    BY RequestIs
  <1> HIDE DEF r
  <1>6. /\ log'.posts = Append(log.posts, r)
        /\ log' \in Logs /\ log'.ran = log.ran /\ log'.late = log.late /\ log'.early = log.early
    BY <1>3, <1>4, <1>5, PostedIs, Zenon
  <1> HIDE DEF n, seen
  <1>7. /\ c \in Calls /\ c.op = "background" /\ c.task = n /\ c.delay = delay /\ c.thread = Current
        /\ c.seen = seen
    BY <1>2 DEF NoCall, Calls
  <1> HIDE DEF c
  <1>8. /\ call' \in [Posters -> Calls]
        /\ call'[p] = c
        /\ \A q \in Posters : q # p => call'[q] = call[q]
    BY <1>1, <1>7, CallBecomes
  <1> QED  BY <1>1, <1>5, <1>6, <1>7, <1>8 DEF Asks, n, seen

LEMMA PostGUIIs ==
    ASSUME TaskTypes, OneThread, NEW p \in Posters, NEW delay \in BOOLEAN, NEW wait \in BOOLEAN,
           PostGUI(p, delay, wait)
    PROVE  Asks(p, "gui") /\ call[p].op = "none" /\ Len(log.posts) + 1 \in Tasks
  <1> DEFINE n == Len(log.posts) + 1
             seen == Made[Current].guiHandler
             r == [by |-> p, thread |-> Current, to |-> "gui", delay |-> delay]
             c == [NoCall EXCEPT !.op = "gui", !.task = n, !.delay = delay,
                                 !.thread = Current, !.seen = seen, !.wait = wait]
             called == IF wait THEN log.called \cup {n} ELSE log.called
  <1>1. /\ threads' = Made /\ instance' = Current /\ UNCHANGED <<gui, services>>
        /\ Called(p, c)
        /\ log' = [Posted(p, "gui", delay) EXCEPT !.called = IF wait THEN @ \cup {n} ELSE @]
        /\ call[p].op = "none" /\ n \in Tasks
    BY DEF PostGUI, GetInstance, NewTask, Idle
  <1>2. n \in Int /\ Current \in Int /\ seen \in BOOLEAN
    <2>1. Made[Current] \in Threads /\ Current \in Int
      BY MadeIs
    <2> QED  BY <2>1 DEF TaskTypes, Logs, Threads
  <1>3. log \in Logs /\ called \in SUBSET Int
    BY <1>2 DEF TaskTypes, Logs
  <1> HIDE DEF n
  <1>4. log' = [log EXCEPT !.posts = Append(@, r), !.called = called]
    BY <1>1, <1>3 DEF Posted, Logs
  <1>5. r \in Posts /\ r.by = p /\ r.thread = Current /\ r.to = "gui" /\ r.delay = delay
    BY RequestIs
  <1> HIDE DEF r, called
  <1>6. /\ log'.posts = Append(log.posts, r)
        /\ log' \in Logs /\ log'.ran = log.ran /\ log'.late = log.late /\ log'.early = log.early
    BY <1>3, <1>4, <1>5, PostedIs, Zenon
  <1> HIDE DEF seen
  <1>7. c \in Calls /\ c.op = "gui" /\ c.task = n /\ c.delay = delay /\ c.thread = Current
    BY <1>2 DEF NoCall, Calls
  <1> HIDE DEF c
  <1>8. /\ call' \in [Posters -> Calls]
        /\ call'[p] = c
        /\ \A q \in Posters : q # p => call'[q] = call[q]
    BY <1>1, <1>7, CallBecomes
  <1> QED  BY <1>1, <1>5, <1>6, <1>7, <1>8 DEF Asks, n

\* What the lists of background tasks depend on.
Steady(T, b) == T.stage = b.stage /\ T.loop = b.loop /\ T.posted = b.posted

\* The end of postGUI: the task t goes to a list or to the GUI thread.
LEMMA GUIEndsIs ==
    ASSUME TaskTypes, Calling, NEW p \in Posters, PostGUIEnds(p),
           NEW i, i = call[p].thread, NEW t, t = call[p].task
    PROVE  /\ i \in 1 .. Len(threads) /\ call[p].op = "gui" /\ t \in Int
           /\ Becomes(i, threads'[i]) /\ Steady(threads'[i], threads[i])
           /\ threads'[i].stopped = threads[i].stopped
           /\ threads'[i].guiHandler = threads[i].guiHandler
           /\ threads'[i].postedGUI \in {threads[i].postedGUI, Append(threads[i].postedGUI, t)}
           /\ log' \in Logs /\ log'.posts = log.posts /\ log'.ran = log.ran
           /\ log'.late \in {log.late, log.late \cup {t}} /\ log'.early = log.early
           /\ \E delay \in BOOLEAN : gui' \in {gui, PostWithDelay(gui, t, delay)}
           /\ gui' \in TaskLoops
           /\ call' \in [Posters -> Calls] /\ call'[p].op \in {"none", "get"}
           /\ \A q \in Posters : q # p => call'[q] = call[q]
           /\ UNCHANGED <<instance, services>>
  <1> DEFINE b == threads[i]
             c == IF call[p].wait THEN [call[p] EXCEPT !.op = "get"] ELSE NoCall
  <1>1. i \in 1 .. Len(threads) /\ call[p].op = "gui" /\ p \in Posters
    BY DEF Calling, Aims, PostGUIEnds
  <1>2. /\ b \in Threads /\ b.postedGUI \in Seq(Int) /\ t \in Int /\ call[p] \in Calls
        /\ call[p].delay \in BOOLEAN /\ threads \in Seq(Threads) /\ gui \in TaskLoops
    BY <1>1, ThreadTypes, CallTypes DEF TaskTypes
  <1>3. Called(p, c) /\ UNCHANGED <<instance, services>>
    BY DEF PostGUIEnds
  <1>4. c \in Calls /\ c.op \in {"none", "get"}
    BY <1>2, NoCallIs DEF Calls
  <1> HIDE DEF c
  <1>5. /\ call' \in [Posters -> Calls] /\ call'[p].op \in {"none", "get"}
        /\ \A q \in Posters : q # p => call'[q] = call[q]
    BY <1>3, <1>4, CallBecomes
  <1>6. /\ log \in Logs /\ log.late \cup {t} \in SUBSET Int /\ Append(b.postedGUI, t) \in Seq(Int)
    BY <1>2 DEF TaskTypes, Logs
  <1>7. CASE call[p].seen
    <2>1. gui' = PostWithDelay(gui, t, call[p].delay) /\ UNCHANGED <<threads, log>>
      BY <1>7 DEF PostGUIEnds
    <2>2. gui' \in TaskLoops
      BY <1>2, <2>1, LoopPostWithDelay
    <2>3. Becomes(i, threads'[i]) /\ threads'[i] = b
      BY <1>1, <1>2, <2>1 DEF Becomes
    <2> QED  BY <1>1, <1>2, <1>3, <1>5, <1>6, <2>1, <2>2, <2>3 DEF Steady
  <1>8. CASE ~ call[p].seen
    <2> DEFINE T == [b EXCEPT !.postedGUI = Append(b.postedGUI, t)]
    <2>1. /\ threads' = [threads EXCEPT ![i] = T] /\ gui' = gui
          /\ log' = [log EXCEPT !.late = IF threads[i].guiHandler THEN @ \cup {t} ELSE @]
      BY <1>8 DEF PostGUIEnds
    <2>2. /\ T \in Threads /\ Steady(T, b) /\ T.stopped = b.stopped /\ T.guiHandler = b.guiHandler
          /\ T.postedGUI = Append(b.postedGUI, t)
      BY <1>2, <1>6 DEF Threads, Steady
    <2> HIDE DEF T
    <2>3. Becomes(i, T) /\ threads'[i] = T
      BY <1>1, <2>1, <2>2, ThreadBecomes DEF Becomes
    <2>4. /\ log' \in Logs /\ log'.posts = log.posts /\ log'.ran = log.ran
          /\ log'.late \in {log.late, log.late \cup {t}} /\ log'.early = log.early
      BY <1>6, <2>1 DEF Logs
    <2> QED  BY <1>1, <1>2, <1>3, <1>5, <2>1, <2>2, <2>3, <2>4
  <1> QED  BY <1>7, <1>8

\* startServices and stopServices change the current thread, which they may have to make.
MadeBecomes ==
    /\ threads' \in Seq(Threads) /\ Len(threads') = Len(Made) /\ instance' = Current
    /\ \A j \in 1 .. Len(Made) : j # Current => threads'[j] = Made[j]
    /\ Steady(threads'[Current], Made[Current])
    /\ threads'[Current].postedGUI = Made[Current].postedGUI

LEMMA GivenGUI ==
    ASSUME NEW b \in Threads, NEW T, T = [b EXCEPT !.guiHandler = TRUE, !.forwarded = @ + 1]
    PROVE  /\ T \in Threads /\ T.guiHandler /\ T.stopped = b.stopped /\ Steady(T, b)
           /\ T.postedGUI = b.postedGUI /\ b.stopped \in BOOLEAN
  <1>1. b.forwarded + 1 \in Nat
    BY DEF Threads
  <1> DEFINE n == b.forwarded + 1
             g == [b EXCEPT !.guiHandler = TRUE]
  <1>2. /\ g \in Threads /\ g.guiHandler /\ g.stopped = b.stopped /\ Steady(g, b)
        /\ g.postedGUI = b.postedGUI /\ b.stopped \in BOOLEAN
    BY DEF Threads, Steady
  <1>3. T = [g EXCEPT !.forwarded = n]
    BY DEF Threads
  <1> HIDE DEF n, g
  <1>4. /\ T \in Threads /\ T.guiHandler = g.guiHandler /\ T.stopped = g.stopped
        /\ T.stage = g.stage /\ T.loop = g.loop /\ T.posted = g.posted
        /\ T.postedGUI = g.postedGUI
    BY <1>1, <1>2, <1>3 DEF Threads, n
  <1> QED  BY <1>2, <1>4 DEF Steady

LEMMA CallChanges ==
    ASSUME NEW c \in Calls, NEW o \in {"notify", "forward"}, NEW t \in Int
    PROVE  /\ [c EXCEPT !.op = o, !.task = t] \in Calls /\ [c EXCEPT !.op = o, !.task = t].op = o
           /\ [c EXCEPT !.op = o, !.thread = t] \in Calls /\ [c EXCEPT !.op = o, !.thread = t].op = o
           /\ [c EXCEPT !.op = o, !.thread = t].thread = t
  BY DEF Calls

LEMMA StartServicesIs ==
    ASSUME TaskTypes, OneThread, StartServices
    PROVE  /\ MadeBecomes /\ threads'[Current].guiHandler
           /\ threads'[Current].stopped = Made[Current].stopped
           /\ call' \in [Posters -> Calls] /\ call["gui"].op = "none"
           /\ call'["gui"].op = "forward" /\ call'["gui"].thread = Current
           /\ \A q \in Posters : q # "gui" => call'[q] = call[q]
           /\ services' \in [up : BOOLEAN, engine : BOOLEAN, clean : BOOLEAN, starts : Nat]
           /\ services'.clean = ~ Made[Current].stopped
           /\ UNCHANGED <<gui, log>>
  <1> DEFINE b == Made[Current]
             T == [b EXCEPT !.guiHandler = TRUE, !.forwarded = @ + 1]
             c == [NoCall EXCEPT !.op = "forward", !.thread = Current]
  <1>1. /\ Made \in Seq(Threads) /\ Current \in 1 .. Len(Made) /\ Current \in Int /\ b \in Threads
    BY MadeIs
  <1>2. /\ threads' = [Made EXCEPT ![Current].guiHandler = TRUE, ![Current].forwarded = @ + 1]
        /\ instance' = Current /\ Called("gui", c) /\ call["gui"].op = "none"
        /\ services' = [services EXCEPT !.up = TRUE, !.starts = @ + 1, !.clean = ~ b.stopped]
        /\ UNCHANGED <<gui, log>>
    BY DEF StartServices, Idle
  <1>3. /\ T \in Threads /\ T.guiHandler /\ T.stopped = b.stopped /\ Steady(T, b)
        /\ T.postedGUI = b.postedGUI /\ b.stopped \in BOOLEAN
    BY <1>1, GivenGUI
  <1>4. threads' = [Made EXCEPT ![Current] = T]
    BY <1>1, <1>2
  <1> HIDE DEF T
  <1>5. /\ threads' \in Seq(Threads) /\ Len(threads') = Len(Made) /\ threads'[Current] = T
        /\ \A j \in 1 .. Len(Made) : j # Current => threads'[j] = Made[j]
    BY <1>1, <1>3, <1>4
  <1>6. c \in Calls /\ c.op = "forward" /\ c.thread = Current /\ "gui" \in Posters
    BY <1>1, CallChanges, NoCallIs DEF Posters
  <1> HIDE DEF c
  <1>7. /\ call' \in [Posters -> Calls]
        /\ call'["gui"] = c
        /\ \A q \in Posters : q # "gui" => call'[q] = call[q]
    BY <1>2, <1>6, CallBecomes
  <1>8. /\ services' \in [up : BOOLEAN, engine : BOOLEAN, clean : BOOLEAN, starts : Nat]
        /\ services'.clean = ~ b.stopped
    <2>1. services \in [up : BOOLEAN, engine : BOOLEAN, clean : BOOLEAN, starts : Nat]
      BY DEF TaskTypes
    <2> DEFINE n == services.starts + 1
               stopped == ~ b.stopped
    <2>2. n \in Nat /\ stopped \in BOOLEAN
      BY <1>3, <2>1
    <2>3. services' = [services EXCEPT !.up = TRUE, !.starts = n, !.clean = stopped]
      BY <1>2
    <2> HIDE DEF n, stopped
    <2>4. /\ services' \in [up : BOOLEAN, engine : BOOLEAN, clean : BOOLEAN, starts : Nat]
          /\ services'.clean = stopped
      BY <2>1, <2>2, <2>3
    <2> QED  BY <2>4 DEF stopped
  <1> QED  BY <1>2, <1>3, <1>5, <1>6, <1>7, <1>8 DEF MadeBecomes

LEMMA StopServicesIs ==
    ASSUME TaskTypes, OneThread, StopServices
    PROVE  /\ MadeBecomes /\ threads'[Current].stopped
           /\ call' \in [Posters -> Calls] /\ call["gui"].op = "none"
           /\ call'["gui"].op = "background" /\ call'["gui"].thread = Current
           /\ call'["gui"].task = Stopping /\ ~ call'["gui"].delay
           /\ call'["gui"].seen = HasHandler(Made[Current])
           /\ \A q \in Posters : q # "gui" => call'[q] = call[q]
           /\ services' \in [up : BOOLEAN, engine : BOOLEAN, clean : BOOLEAN, starts : Nat]
           /\ ~ services'.up
           /\ UNCHANGED <<gui, log>>
  <1> DEFINE b == Made[Current]
             T == [b EXCEPT !.stopped = TRUE]
             seen == HasHandler(b)
             c == [NoCall EXCEPT !.op = "background", !.task = Stopping, !.thread = Current,
                                 !.seen = seen]
  <1>1. /\ Made \in Seq(Threads) /\ Current \in 1 .. Len(Made) /\ Current \in Int /\ b \in Threads
    BY MadeIs
  <1>2. /\ threads' = [Made EXCEPT ![Current].stopped = TRUE]
        /\ instance' = Current /\ Called("gui", c) /\ call["gui"].op = "none"
        /\ services' = [services EXCEPT !.up = FALSE]
        /\ UNCHANGED <<gui, log>>
    BY DEF StopServices, Idle
  <1>3. T \in Threads /\ T.stopped /\ Steady(T, b) /\ T.postedGUI = b.postedGUI
    BY <1>1 DEF Threads, Steady
  <1>4. threads' = [Made EXCEPT ![Current] = T]
    BY <1>1, <1>2
  <1> HIDE DEF T
  <1>5. /\ threads' \in Seq(Threads) /\ Len(threads') = Len(Made) /\ threads'[Current] = T
        /\ \A j \in 1 .. Len(Made) : j # Current => threads'[j] = Made[j]
    BY <1>1, <1>3, <1>4
  <1>6. seen \in BOOLEAN /\ "gui" \in Posters /\ Stopping \in Int
    BY DEF HasHandler, Posters, Stopping
  <1> HIDE DEF seen
  <1>7. /\ c \in Calls /\ c.op = "background" /\ c.thread = Current /\ c.task = Stopping
        /\ ~ c.delay /\ c.seen = seen
    BY <1>1, <1>6 DEF NoCall, Calls
  <1> HIDE DEF c
  <1>8. /\ call' \in [Posters -> Calls]
        /\ call'["gui"] = c
        /\ \A q \in Posters : q # "gui" => call'[q] = call[q]
    BY <1>2, <1>6, <1>7, CallBecomes
  <1>9. /\ services' \in [up : BOOLEAN, engine : BOOLEAN, clean : BOOLEAN, starts : Nat]
        /\ ~ services'.up
    BY <1>2 DEF TaskTypes
  <1> QED  BY <1>2, <1>3, <1>5, <1>7, <1>8, <1>9 DEF MadeBecomes, seen

LEMMA ForwardIs ==
    ASSUME TaskTypes, Calling, Forward
    PROVE  /\ \E i \in 1 .. Len(threads) : gui' = PostAll(gui, threads[i].postedGUI)
           /\ gui' \in TaskLoops
           /\ call' \in [Posters -> Calls] /\ call'["gui"] = NoCall
           /\ call["gui"].op = "forward" /\ "gui" \in Posters
           /\ \A q \in Posters : q # "gui" => call'[q] = call[q]
           /\ services' \in [up : BOOLEAN, engine : BOOLEAN, clean : BOOLEAN, starts : Nat]
           /\ services'.engine /\ services'.up = services.up /\ services'.clean = services.clean
           /\ UNCHANGED <<threads, instance, log>>
  <1> DEFINE i == call["gui"].thread
  <1>1. call["gui"].op = "forward" /\ "gui" \in Posters
    BY DEF Forward, Posters
  <1>2. i \in 1 .. Len(threads)
    BY <1>1 DEF Calling, Aims
  <1>3. gui \in TaskLoops /\ threads[i].postedGUI \in Seq(Int)
    BY <1>2, ThreadTypes DEF TaskTypes
  <1>4. /\ gui' = PostAll(gui, threads[i].postedGUI) /\ Called("gui", NoCall)
        /\ services' = [services EXCEPT !.engine = TRUE]
        /\ UNCHANGED <<threads, instance, log>>
    BY DEF Forward
  <1>5. gui' \in TaskLoops
    BY <1>3, <1>4, LoopPostAll
  <1>6. /\ call' \in [Posters -> Calls] /\ call'["gui"] = NoCall
        /\ \A q \in Posters : q # "gui" => call'[q] = call[q]
    BY <1>1, <1>4, NoCallIs, CallBecomes
  <1>7. /\ services' \in [up : BOOLEAN, engine : BOOLEAN, clean : BOOLEAN, starts : Nat]
        /\ services'.engine /\ services'.up = services.up /\ services'.clean = services.clean
    BY <1>4 DEF TaskTypes
  <1> QED  BY <1>1, <1>2, <1>4, <1>5, <1>6, <1>7

\* What the GUI thread has or will take.
GUITasks(l) == Range(l.queue) \cup l.delayed

LEMMA RunGUIIs ==
    ASSUME TaskTypes, RunGUI
    PROVE  /\ gui' \in TaskLoops /\ GUITasks(gui') \subseteq GUITasks(gui)
           /\ \E t \in GUITasks(gui) : t \in Int /\ log'.ran = Append(log.ran, t)
           /\ log' \in Logs /\ log'.posts = log.posts /\ log'.late = log.late
           /\ log'.early = log.early
           /\ call' \in [Posters -> Calls] /\ "gui" \in Posters /\ call["gui"].op = "none"
           /\ call'["gui"].op \in {"none", "notify"}
           /\ \A q \in Posters : q # "gui" => call'[q] = call[q]
           /\ UNCHANGED <<threads, instance, services>>
  <1>1. gui \in TaskLoops /\ log \in Logs /\ gui.queue \in Seq(Int) /\ "gui" \in Posters
    BY DEF TaskTypes, TaskLoops, Posters
  <1>2. PICK t \in Ready(gui) :
          /\ gui' = Without(gui, t)
          /\ log' = [log EXCEPT !.ran = Append(@, t),
                                !.completed = IF t \in log.called THEN @ \cup {t} ELSE @]
          /\ Called("gui", IF t \in log.called THEN [NoCall EXCEPT !.op = "notify", !.task = t]
                           ELSE NoCall)
    BY DEF RunGUI
  <1>3. /\ t \in Int /\ gui' \in TaskLoops /\ gui'.delayed \subseteq gui.delayed
        /\ \/ t \in gui.delayed /\ gui'.queue = gui.queue
           \/ gui.queue # <<>> /\ t = Head(gui.queue) /\ gui'.queue = Tail(gui.queue)
    BY <1>1, <1>2, LoopTakes
  <1>4. gui.queue # <<>> => /\ Range(Tail(gui.queue)) \subseteq Range(gui.queue)
                            /\ Head(gui.queue) \in Range(gui.queue)
    BY <1>1, TailKeeps
  <1>5. GUITasks(gui') \subseteq GUITasks(gui) /\ t \in GUITasks(gui)
    BY <1>3, <1>4 DEF GUITasks
  <1> DEFINE done == IF t \in log.called THEN log.completed \cup {t} ELSE log.completed
             ran == Append(log.ran, t)
  <1>6. ran \in Seq(Int) /\ done \in SUBSET Int
    BY <1>1, <1>3 DEF Logs
  <1>7. log' = [log EXCEPT !.ran = ran, !.completed = done]
    BY <1>2
  <1> HIDE DEF done, ran
  <1>8. /\ log' \in Logs /\ log'.posts = log.posts /\ log'.late = log.late
        /\ log'.early = log.early /\ log'.ran = ran
    BY <1>1, <1>6, <1>7 DEF Logs
  <1> DEFINE c == IF t \in log.called THEN [NoCall EXCEPT !.op = "notify", !.task = t] ELSE NoCall
  <1>9. c \in Calls /\ c.op \in {"none", "notify"}
    <2> DEFINE d == [NoCall EXCEPT !.op = "notify", !.task = t]
    <2>2. d \in Calls /\ d.op = "notify"
      BY <1>3, CallChanges, NoCallIs
    <2> HIDE DEF d
    <2>3. c = d \/ c = NoCall
      BY DEF d
    <2> QED  BY <2>2, <2>3, NoCallIs
  <1>10. Called("gui", c)
    BY <1>2
  <1> HIDE DEF c
  <1>11. /\ call' \in [Posters -> Calls] /\ call'["gui"] = c
         /\ \A q \in Posters : q # "gui" => call'[q] = call[q]
    BY <1>1, <1>9, <1>10, CallBecomes
  <1> QED  BY <1>1, <1>3, <1>5, <1>8, <1>9, <1>11 DEF RunGUI, Idle, ran

\* The steps of a Sync.
Waits == {"get", "lock", "waiting", "notify"}
LEMMA SyncIs ==
    ASSUME TaskTypes, (\E p \in Posters : Get(p) \/ Lock(p)) \/ Notify \/ UNCHANGED vars
    PROVE  /\ call' \in [Posters -> Calls]
           /\ \A q \in Posters : \/ call'[q] = call[q]
                                 \/ call[q].op \in Waits /\ call'[q].op \in Waits \cup {"none"}
           /\ UNCHANGED <<threads, instance, gui, services, log>>
  <1>1. /\ \A q \in Posters : call[q] \in Calls
        /\ call \in [Posters -> Calls]
    BY DEF TaskTypes
  <1>2. ASSUME NEW c \in Calls, NEW o \in Waits
        PROVE  [c EXCEPT !.op = o] \in Calls /\ [c EXCEPT !.op = o].op = o
    BY <1>2 DEF Calls, Waits
  <1>3. CASE UNCHANGED vars
    BY <1>1, <1>3 DEF vars
  <1>4. ASSUME NEW p \in Posters, Get(p) \/ Lock(p)
        PROVE  /\ call' \in [Posters -> Calls]
               /\ \A q \in Posters : \/ call'[q] = call[q]
                                     \/ call[q].op \in Waits /\ call'[q].op \in Waits \cup {"none"}
               /\ UNCHANGED <<threads, instance, gui, services, log>>
    <2>1. PICK c \in Calls : Called(p, c) /\ c.op \in Waits \cup {"none"}
      <3> DEFINE done == call[p].task \in log.completed
      <3>1. CASE Get(p)
        <4>1. Called(p, IF done THEN NoCall ELSE [call[p] EXCEPT !.op = "lock"])
          BY <3>1 DEF Get
        <4>2. [call[p] EXCEPT !.op = "lock"] \in Calls /\ [call[p] EXCEPT !.op = "lock"].op \in Waits
          BY <1>1, <1>2 DEF Waits
        <4> QED  BY <4>1, <4>2, NoCallIs
      <3>2. CASE Lock(p)
        <4>1. Called(p, [call[p] EXCEPT !.op = IF done THEN "get" ELSE "waiting"])
          BY <3>2 DEF Lock
        <4> DEFINE o == IF done THEN "get" ELSE "waiting"
        <4>2. Called(p, [call[p] EXCEPT !.op = o]) /\ o \in Waits
          BY <4>1 DEF Waits
        <4> HIDE DEF o
        <4>3. [call[p] EXCEPT !.op = o] \in Calls /\ [call[p] EXCEPT !.op = o].op \in Waits
          BY <1>1, <1>2, <4>2
        <4> QED  BY <4>2, <4>3, Zenon
      <3> QED  BY <1>4, <3>1, <3>2
    <2>2. call[p].op \in Waits /\ UNCHANGED <<threads, instance, gui, services, log>>
      BY <1>4 DEF Get, Lock, Waits
    <2> QED  BY <2>1, <2>2, CallBecomes
  <1>5. CASE Notify
    <2>1. /\ call["gui"].op = "notify"
          /\ call' = [p \in Posters |->
                         IF p = "gui" THEN NoCall
                         ELSE IF call[p].op = "waiting" /\ call[p].task = call["gui"].task
                              THEN [call[p] EXCEPT !.op = "get"] ELSE call[p]]
          /\ UNCHANGED <<threads, instance, gui, services, log>>
      BY <1>5 DEF Notify
    <2>2. ASSUME NEW q \in Posters
          PROVE  /\ call'[q] \in Calls
                 /\ \/ call'[q] = call[q]
                    \/ call[q].op \in Waits /\ call'[q].op \in Waits \cup {"none"}
      <3>1. CASE q = "gui"
        BY <2>1, <3>1, NoCallIs DEF Waits
      <3>2. CASE q # "gui" /\ call[q].op = "waiting" /\ call[q].task = call["gui"].task
        <4>1. call'[q] = [call[q] EXCEPT !.op = "get"]
          BY <2>1, <3>2
        <4>2. call[q] \in Calls /\ "get" \in Waits /\ "waiting" \in Waits
          BY <1>1 DEF Waits
        <4>3. call'[q] \in Calls /\ call'[q].op = "get"
          BY <1>1, <1>2, <4>1, <4>2
        <4> QED  BY <3>2, <4>2, <4>3
      <3>3. CASE q # "gui" /\ ~ (call[q].op = "waiting" /\ call[q].task = call["gui"].task)
        BY <1>1, <2>1, <3>3
      <3> QED  BY <3>1, <3>2, <3>3
    <2>3. call' = [q \in Posters |-> call'[q]]
      BY <2>1
    <2> QED  BY <2>1, <2>2, <2>3
  <1> QED  BY <1>3, <1>4, <1>5

-----------------------------------------------------------------------------
(* A clean start keeps its engine. *)

\* A step of the thread i.
LEMMA ThreadSteps ==
    ASSUME TaskTypes, OneThread, AllGood, NEW i \in 1 .. Len(threads), Becomes(i, threads'[i]),
           Good(threads'[i]), threads'[i].stopped = threads[i].stopped
    PROVE  /\ AllGood' /\ Len(threads') = Len(threads) /\ Len(threads) \in Nat
           /\ \A j \in 1 .. Len(threads) : threads'[j].stopped = threads[j].stopped
           /\ (threads'[i].stage = "ended" <=> threads[i].stage = "ended") /\ instance' = instance
                  => OneThread'
  <1>1. /\ Len(threads') = Len(threads) /\ Len(threads) \in Nat
        /\ \A j \in 1 .. Len(threads) : j # i => threads'[j] = threads[j]
    BY DEF Becomes, TaskTypes
  <1>2. AllGood'
    BY <1>1 DEF AllGood
  <1>3. \A j \in 1 .. Len(threads) : threads'[j].stopped = threads[j].stopped
    BY <1>1
  <1>4. ASSUME threads'[i].stage = "ended" <=> threads[i].stage = "ended", instance' = instance
        PROVE  OneThread'
    <2>1. \A j \in 1 .. Len(threads) : threads'[j].stage = "ended" <=> threads[j].stage = "ended"
      BY <1>1, <1>4
    <2>2. instance # 0 => instance \in 1 .. Len(threads)
      BY <1>1 DEF OneThread, TaskTypes
    <2> QED  BY <1>1, <1>4, <2>1, <2>2 DEF OneThread
  <1> QED  BY <1>1, <1>2, <1>3, <1>4

\* A step that may make a thread.
LEMMA MadeSteps ==
    ASSUME TaskTypes, OneThread, AllGood, MadeBecomes,
           ~ threads'[Current].stopped => ~ Made[Current].stopped
    PROVE  /\ AllGood' /\ OneThread' /\ Len(threads) <= Len(threads') /\ Len(threads) \in Nat
           /\ Len(threads') \in Nat /\ Current \in 1 .. Len(threads')
           /\ \A j \in 1 .. Len(threads) : ~ threads'[j].stopped => ~ threads[j].stopped
  <1>1. /\ Made \in Seq(Threads) /\ Current = Len(Made) /\ Current \in 1 .. Len(Made)
        /\ Len(threads) <= Len(Made) /\ Current \in Nat
        /\ \A i \in 1 .. Len(threads) : i \in 1 .. Len(Made) /\ Made[i] = threads[i]
        /\ \A i \in 1 .. Len(Made) : i \notin 1 .. Len(threads) => i = Current /\ Made[i] = NewThread
        /\ \A i \in 1 .. Len(Made) : i # Current => i \in 1 .. Len(threads) /\ i # instance
        /\ Made[Current].stage # "ended" /\ Current # 0
    BY MadeIs
  <1>2. /\ threads' \in Seq(Threads) /\ Len(threads') = Len(Made) /\ instance' = Current
        /\ \A j \in 1 .. Len(Made) : j # Current => threads'[j] = Made[j]
        /\ Steady(threads'[Current], Made[Current])
    BY DEF MadeBecomes
  <1>3. Good(NewThread)
    <2>1. Range(NewThread.loop.queue) \cup Range(NewThread.posted) \cup NewThread.loop.delayed = {}
      BY NewThreadIs, NewLooperIs, EmptyRange
    <2>2. ~ NewThread.loop.quit /\ NewThread.stage = "new"
      BY NewThreadIs, NewLooperIs
    <2> QED  BY <2>1, <2>2 DEF Good
  <1>4. \A j \in 1 .. Len(Made) : Good(Made[j])
    BY <1>1, <1>3 DEF AllGood
  <1>5. Good(threads'[Current])
    BY <1>1, <1>2, <1>4 DEF Good, Steady
  <1>6. AllGood'
    BY <1>2, <1>4, <1>5 DEF AllGood
  <1>7. threads'[Current].stage # "ended"
    BY <1>1, <1>2 DEF Steady
  <1>8. \A j \in 1 .. Len(Made) : j # Current => threads'[j].stage = "ended"
    BY <1>1, <1>2 DEF OneThread
  <1>9. OneThread'
    BY <1>1, <1>2, <1>7, <1>8 DEF OneThread
  <1>10. \A j \in 1 .. Len(threads) : ~ threads'[j].stopped => ~ threads[j].stopped
    BY <1>1, <1>2
  <1>11. Len(threads) \in Nat /\ Len(threads') \in Nat
    BY <1>2 DEF TaskTypes
  <1> QED  BY <1>1, <1>2, <1>6, <1>9, <1>10, <1>11

\* A step of the caller p.
LEMMA CallSteps ==
    ASSUME Calling, Len(threads) \in Nat, Len(threads') \in Nat, Len(threads) <= Len(threads'),
           \A j \in 1 .. Len(threads) : ~ threads'[j].stopped => ~ threads[j].stopped,
           NEW p, Aims(call'[p], threads'), \A q \in Posters : q # p => call'[q] = call[q]
    PROVE  Calling'
  <1>1. \A j \in 1 .. Len(threads) : j \in 1 .. Len(threads')
    OBVIOUS
  <1>2. \A q \in Posters : Aims(call[q], threads')
    BY <1>1 DEF Calling, Aims
  <1> QED  BY <1>2 DEF Calling

LEMMA StartedStays ==
    ASSUME Started, OneThread, TaskTypes, instance' = instance,
           services'.up = services.up, services'.clean = services.clean,
           \A j \in 1 .. Len(threads) : /\ threads'[j].stopped = threads[j].stopped
                                        /\ threads'[j].guiHandler = threads[j].guiHandler,
           services'.up /\ services'.clean /\ call'["gui"].op # "forward" =>
               services'.engine \/ (call["gui"].op # "forward" /\ services'.engine = services.engine)
    PROVE  Started'
  <1>1. instance # 0 => instance \in 1 .. Len(threads)
    BY DEF OneThread, TaskTypes
  <1> QED  BY <1>1 DEF Started

\* What keeps it: a thread changes, and the call of p.
LEMMA StepClean ==
    ASSUME Clean, NEW i \in 1 .. Len(threads), Becomes(i, threads'[i]), Good(threads'[i]),
           threads'[i].stopped = threads[i].stopped,
           threads'[i].guiHandler = threads[i].guiHandler,
           threads'[i].stage = "ended" <=> threads[i].stage = "ended",
           instance' = instance, gui' \in TaskLoops, log' \in Logs,
           call' \in [Posters -> Calls], NEW p \in Posters,
           Aims(call[p], threads) => Aims(call'[p], threads'),
           \A q \in Posters : q # p => call'[q] = call[q],
           services' \in [up : BOOLEAN, engine : BOOLEAN, clean : BOOLEAN, starts : Nat],
           services'.up = services.up, services'.clean = services.clean,
           services'.up /\ services'.clean /\ call'["gui"].op # "forward" =>
               call["gui"].op # "forward" /\ services'.engine = services.engine
    PROVE  Clean'
  <1>1. /\ AllGood' /\ OneThread' /\ Len(threads') = Len(threads) /\ Len(threads) \in Nat
        /\ \A j \in 1 .. Len(threads) : threads'[j].stopped = threads[j].stopped
    BY ThreadSteps DEF Clean
  <1>2. TaskTypes'
    BY DEF Clean, TaskTypes, Becomes
  <1>3. Aims(call'[p], threads')
    BY DEF Clean, Calling
  <1>4. Calling'
    BY <1>1, <1>3, CallSteps DEF Clean
  <1>5. \A j \in 1 .. Len(threads) : threads'[j].guiHandler = threads[j].guiHandler
    BY DEF Becomes
  <1>6. Started'
    BY <1>1, <1>5, StartedStays DEF Clean
  <1> QED  BY <1>1, <1>2, <1>4, <1>6 DEF Clean

\* Only the thread changes.
LEMMA ThreadClean ==
    ASSUME Clean, NEW i \in 1 .. Len(threads), Becomes(i, threads'[i]), Good(threads'[i]),
           threads'[i].stopped = threads[i].stopped,
           threads'[i].guiHandler = threads[i].guiHandler,
           threads'[i].stage = "ended" <=> threads[i].stage = "ended",
           UNCHANGED <<instance, gui, call, services, log>>
    PROVE  Clean'
  <1>1. \A j \in 1 .. Len(threads) : threads'[j].stopped = threads[j].stopped
    BY DEF Becomes
  <1>2. "gui" \in Posters /\ Aims(call["gui"], threads)
    BY DEF Clean, Calling, Posters
  <1>3. Aims(call'["gui"], threads')
    BY <1>1, <1>2 DEF Aims, Becomes
  <1>4. /\ call' \in [Posters -> Calls] /\ gui' \in TaskLoops /\ log' \in Logs
        /\ services' \in [up : BOOLEAN, engine : BOOLEAN, clean : BOOLEAN, starts : Nat]
    BY DEF Clean, TaskTypes
  <1> QED  BY <1>2, <1>3, <1>4, StepClean

LEMMA PrepareClean ==
    ASSUME Clean, NEW i \in 1 .. Len(threads), Prepare(i)
    PROVE  Clean'
  <1>1. /\ threads' = [threads EXCEPT ![i].stage = "handler"] /\ threads[i].stage = "new"
        /\ UNCHANGED <<instance, gui, call, services, log>>
    BY DEF Prepare
  <1>2. /\ Becomes(i, threads'[i]) /\ threads'[i].stage = "handler"
        /\ threads'[i].loop = threads[i].loop /\ threads'[i].posted = threads[i].posted
        /\ threads'[i].stopped = threads[i].stopped
        /\ threads'[i].guiHandler = threads[i].guiHandler
    BY <1>1, StageBecomes DEF Clean
  <1>3. Good(threads'[i])
    BY <1>2 DEF Clean, AllGood, Good
  <1> QED  BY <1>1, <1>2, <1>3, ThreadClean

LEMMA CopyClean ==
    ASSUME Clean, NEW i \in 1 .. Len(threads), Copy(i)
    PROVE  Clean'
  <1> DEFINE b == threads[i]
             T == threads'[i]
  <1>1. /\ Becomes(i, T) /\ b.stage = "handler" /\ T.stage = "looping" /\ T.posted = <<>>
        /\ T.loop = PostAll(b.loop, b.posted)
        /\ T.stopped = b.stopped /\ T.guiHandler = b.guiHandler
        /\ UNCHANGED <<instance, gui, call, services, log>>
    BY CopyIs DEF Clean
  <1>2. b.loop \in TaskLoops /\ b.posted \in Seq(Int) /\ b.loop.queue \in Seq(Int)
    BY ThreadTypes DEF Clean
  <1>3. Range(b.loop.queue \o b.posted) = Range(b.loop.queue) \cup Range(b.posted)
    BY <1>2, RangeOfConcat
  <1>4. Range(T.loop.queue) \subseteq Range(b.loop.queue) \cup Range(b.posted)
    BY <1>1, <1>2, <1>3, LoopPostAll
  <1>5. T.loop.delayed = b.loop.delayed /\ T.loop.quit = b.loop.quit
    BY <1>1, <1>2, LoopPostAll
  <1>6. Good(b)
    BY DEF Clean, AllGood
  <1> HIDE DEF b, T
  <1>7. Good(T)
    BY <1>1, <1>4, <1>5, <1>6, EmptyRange DEF Good
  <1> QED  BY <1>1, <1>7, ThreadClean DEF b, T

LEMMA LeaveClean ==
    ASSUME Clean, NEW i \in 1 .. Len(threads), Leave(i)
    PROVE  Clean'
  <1>1. /\ threads' = [threads EXCEPT ![i].stage = "left"] /\ threads[i].stage = "looping"
        /\ threads[i].loop.quit /\ UNCHANGED <<instance, gui, call, services, log>>
    BY DEF Leave, Done
  <1>2. /\ Becomes(i, threads'[i]) /\ threads'[i].stage = "left"
        /\ threads'[i].loop = threads[i].loop /\ threads'[i].posted = threads[i].posted
        /\ threads'[i].stopped = threads[i].stopped
        /\ threads'[i].guiHandler = threads[i].guiHandler
    BY <1>1, StageBecomes DEF Clean
  <1>3. Good(threads'[i])
    BY <1>1, <1>2 DEF Clean, AllGood, Good
  <1> QED  BY <1>1, <1>2, <1>3, ThreadClean

\* The thread that ends is the current one, and it quit.
LEMMA EndClean ==
    ASSUME Clean, NEW i \in 1 .. Len(threads), End(i)
    PROVE  Clean'
  <1>1. /\ threads' = [threads EXCEPT ![i].stage = "ended"] /\ threads[i].stage = "left"
        /\ instance' = 0 /\ UNCHANGED <<gui, call, services, log>>
    BY DEF End
  <1>2. /\ Becomes(i, threads'[i]) /\ threads'[i].stage = "ended"
        /\ threads'[i].loop = threads[i].loop /\ threads'[i].posted = threads[i].posted
        /\ threads'[i].stopped = threads[i].stopped
    BY <1>1, StageBecomes DEF Clean
  <1>3. Good(threads'[i])
    BY <1>1, <1>2 DEF Clean, AllGood, Good
  <1>4. /\ AllGood' /\ Len(threads') = Len(threads) /\ Len(threads) \in Nat
        /\ \A j \in 1 .. Len(threads) : threads'[j].stopped = threads[j].stopped
    BY <1>2, <1>3, ThreadSteps DEF Clean
  <1>5. i = instance
    BY <1>1 DEF Clean, OneThread
  <1>6. OneThread'
    BY <1>1, <1>2, <1>4, <1>5 DEF Clean, OneThread, Becomes
  <1>7. threads[i].stopped
    BY <1>1 DEF Clean, AllGood, Good
  <1>8. Started'
    BY <1>1, <1>5, <1>7 DEF Clean, Started
  <1>9. Calling'
    BY <1>1, <1>4 DEF Clean, Calling, Aims
  <1>10. TaskTypes'
    BY <1>1, <1>2 DEF Clean, TaskTypes, Becomes
  <1> QED  BY <1>4, <1>6, <1>8, <1>9, <1>10 DEF Clean

\* The task of stopServices ran: somebody stopped the thread.
LEMMA RunBackgroundClean ==
    ASSUME Clean, NEW i \in 1 .. Len(threads), RunBackground(i)
    PROVE  Clean'
  <1> DEFINE b == threads[i]
             T == threads'[i]
  <1>1. /\ Becomes(i, T) /\ b.stage = "looping" /\ log' \in Logs
        /\ UNCHANGED <<instance, gui, call>>
    BY RunBackgroundIs DEF Clean
  <1>2. PICK t \in Int : Takes(t, b, T)
    BY RunBackgroundIs DEF Clean
  <1>3. b.loop.queue \in Seq(Int) /\ Good(b)
    BY ThreadTypes DEF Clean, AllGood
  <1>4. b.loop.queue # <<>> => /\ Range(Tail(b.loop.queue)) \subseteq Range(b.loop.queue)
                               /\ Head(b.loop.queue) \in Range(b.loop.queue)
                               /\ Tail(b.loop.queue) \in Seq(Int)
    BY <1>3, TailKeeps
  <1>5. PICK q \in Seq(Int) :
             /\ \/ t \in b.loop.delayed /\ q = b.loop.queue
                \/ b.loop.queue # <<>> /\ t = Head(b.loop.queue) /\ q = Tail(b.loop.queue)
             /\ T.loop.queue = q \/ (t = Stopping /\ T.loop.queue = Append(q, Quitting))
    BY <1>2 DEF Takes
  <1>6. /\ Alike(T, b) /\ T.posted = b.posted /\ T.loop.delayed \subseteq b.loop.delayed
        /\ t # Quitting => T.loop.quit = b.loop.quit
        /\ services' = [services EXCEPT !.engine = @ /\ ~ (t = Stopping /\ services.engine)]
    BY <1>2 DEF Takes
  <1>7. t \in Range(b.loop.queue) \cup b.loop.delayed /\ Range(q) \subseteq Range(b.loop.queue)
    BY <1>4, <1>5
  <1>8. /\ T.stage = "looping" /\ T.stopped = b.stopped /\ T.guiHandler = b.guiHandler
    BY <1>1, <1>6 DEF Alike
  <1> HIDE DEF b, T
  <1>9. ~ b.stopped => t >= 1 /\ t # Stopping /\ t # Quitting
    BY <1>3, <1>7 DEF Good, Stopping, Quitting
  <1>10. Good(T)
    BY <1>3, <1>5, <1>6, <1>7, <1>8, <1>9 DEF Good
  <1>11. services \in [up : BOOLEAN, engine : BOOLEAN, clean : BOOLEAN, starts : Nat]
    BY DEF Clean, TaskTypes
  <1>12. /\ services' \in [up : BOOLEAN, engine : BOOLEAN, clean : BOOLEAN, starts : Nat]
         /\ services'.up = services.up /\ services'.clean = services.clean
         /\ t # Stopping => services'.engine = services.engine
    BY <1>6, <1>11
  <1>13. i = instance
    BY <1>1 DEF Clean, OneThread, b
  <1>14. services.up /\ services.clean => ~ b.stopped
    BY <1>13 DEF Clean, Started, b
  <1>15. /\ AllGood' /\ OneThread' /\ Len(threads') = Len(threads) /\ Len(threads) \in Nat
         /\ \A j \in 1 .. Len(threads) : threads'[j].stopped = threads[j].stopped
    BY <1>1, <1>8, <1>10, ThreadSteps DEF Clean, b, T
  <1>16. Calling'
    BY <1>1, <1>15 DEF Clean, Calling, Aims
  <1>17. \A j \in 1 .. Len(threads) : threads'[j].guiHandler = threads[j].guiHandler
    BY <1>1, <1>8 DEF Becomes, b, T
  <1>18. Started'
    BY <1>1, <1>9, <1>12, <1>14, <1>15, <1>17, StartedStays DEF Clean, Started
  <1>19. TaskTypes'
    BY <1>1, <1>12 DEF Clean, TaskTypes, Becomes
  <1> QED  BY <1>15, <1>16, <1>18, <1>19 DEF Clean

LEMMA BackgroundEndsClean ==
    ASSUME Clean, NEW p \in Posters, PostBackgroundEnds(p)
    PROVE  Clean'
  <1> DEFINE i == call[p].thread
             t == call[p].task
             b == threads[i]
             T == threads'[i]
             l == PostWithDelay(b.loop, t, call[p].delay)
  <1>1. /\ i \in 1 .. Len(threads) /\ call[p].op = "background" /\ t \in Int
        /\ Becomes(i, T) /\ TaskEnds(call[p], t, b, T)
        /\ log' \in Logs /\ call' \in [Posters -> Calls] /\ call'[p] = NoCall
        /\ \A q \in Posters : q # p => call'[q] = call[q]
        /\ UNCHANGED <<instance, gui, services>>
    BY BackgroundEndsIs DEF Clean
  <1>2. /\ b.loop \in TaskLoops /\ b.posted \in Seq(Int) /\ b.loop.queue \in Seq(Int) /\ Good(b)
        /\ call[p].delay \in BOOLEAN /\ t \in Int
    BY <1>1, ThreadTypes, CallTypes DEF Clean, AllGood
  <1>3. ~ b.stopped => t >= 1
    BY <1>1 DEF Clean, Calling, Aims
  <1>4. /\ T.stage = b.stage /\ T.stopped = b.stopped /\ T.guiHandler = b.guiHandler
        /\ \/ T.loop = b.loop /\ T.posted = Append(b.posted, t)
           \/ T.loop = l /\ T.posted = b.posted
           \/ T.loop = b.loop /\ T.posted = b.posted
    BY <1>1, Zenon DEF TaskEnds, Alike
  <1>5. /\ l.queue = IF b.loop.quit \/ call[p].delay THEN b.loop.queue ELSE Append(b.loop.queue, t)
        /\ l.delayed = IF b.loop.quit \/ ~ call[p].delay THEN b.loop.delayed
                       ELSE b.loop.delayed \cup {t}
        /\ l.quit = b.loop.quit
    BY <1>1, <1>2, LoopPostWithDelay
  <1> HIDE DEF b, T, l, t, i
  <1>6. /\ Range(Append(b.posted, t)) = Range(b.posted) \cup {t}
        /\ Range(Append(b.loop.queue, t)) = Range(b.loop.queue) \cup {t}
    BY <1>2, AppendKeeps
  <1>7. /\ Range(l.queue) \subseteq Range(b.loop.queue) \cup {t}
        /\ l.delayed \subseteq b.loop.delayed \cup {t}
    BY <1>5, <1>6
  <1>8. Good(T)
    BY <1>2, <1>3, <1>4, <1>5, <1>6, <1>7 DEF Good
  <1>9. Aims(call'[p], threads')
    BY <1>1, NoCallIs DEF Aims
  <1>10. call["gui"].op = "forward" => call'["gui"].op = "forward"
    BY <1>1 DEF Posters
  <1>11. /\ services' \in [up : BOOLEAN, engine : BOOLEAN, clean : BOOLEAN, starts : Nat]
         /\ gui' \in TaskLoops
    BY <1>1 DEF Clean, TaskTypes
  <1> QED  BY <1>1, <1>4, <1>8, <1>9, <1>10, <1>11, StepClean DEF b, T

LEMMA GUIEndsClean ==
    ASSUME Clean, NEW p \in Posters, PostGUIEnds(p)
    PROVE  Clean'
  <1> DEFINE i == call[p].thread
             b == threads[i]
             T == threads'[i]
  <1>1. /\ i \in 1 .. Len(threads) /\ call[p].op = "gui"
        /\ Becomes(i, T) /\ Steady(T, b) /\ T.stopped = b.stopped /\ T.guiHandler = b.guiHandler
        /\ log' \in Logs /\ gui' \in TaskLoops
        /\ call' \in [Posters -> Calls] /\ call'[p].op \in {"none", "get"}
        /\ \A q \in Posters : q # p => call'[q] = call[q]
        /\ UNCHANGED <<instance, services>>
    BY GUIEndsIs DEF Clean
  <1>2. Good(T)
    BY <1>1 DEF Clean, AllGood, Good, Steady
  <1>3. Aims(call'[p], threads')
    BY <1>1 DEF Aims
  <1>4. call["gui"].op = "forward" => call'["gui"].op = "forward"
    BY <1>1 DEF Posters
  <1>5. services' \in [up : BOOLEAN, engine : BOOLEAN, clean : BOOLEAN, starts : Nat]
    BY <1>1 DEF Clean, TaskTypes
  <1> QED  BY <1>1, <1>2, <1>3, <1>4, <1>5, StepClean DEF Steady

\* What else happens leaves the lists of the threads alone.
LEMMA AsksClean ==
    ASSUME Clean, NEW p \in Posters, NEW to \in {"background", "gui"}, Asks(p, to),
           call[p].op = "none"
    PROVE  Clean'
  <1>1. /\ threads' = Made /\ instance' = Current
        /\ call' \in [Posters -> Calls] /\ call'[p].op = to /\ call'[p].thread = Current
        /\ call'[p].task = Len(log.posts) + 1
        /\ \A q \in Posters : q # p => call'[q] = call[q]
        /\ log' \in Logs /\ UNCHANGED <<gui, services>>
    BY DEF Asks
  <1>2. /\ Made \in Seq(Threads) /\ Current \in 1 .. Len(Made)
        /\ instance # 0 => Made = threads /\ Current = instance
    BY MadeIs DEF Clean
  <1>3. MadeBecomes
    BY <1>1, <1>2 DEF MadeBecomes, Steady
  <1>4. /\ AllGood' /\ OneThread' /\ Len(threads) <= Len(threads') /\ Len(threads) \in Nat
        /\ Len(threads') \in Nat /\ Current \in 1 .. Len(threads')
        /\ \A j \in 1 .. Len(threads) : ~ threads'[j].stopped => ~ threads[j].stopped
    BY <1>1, <1>3, MadeSteps DEF Clean
  <1>5. Len(log.posts) \in Nat
    BY DEF Clean, TaskTypes, Logs
  <1>6. Aims(call'[p], threads')
    BY <1>1, <1>4, <1>5 DEF Aims
  <1>7. Calling'
    BY <1>1, <1>4, <1>6, CallSteps DEF Clean
  <1>8. TaskTypes'
    BY <1>1, <1>2 DEF Clean, TaskTypes
  <1>9. call'["gui"].op # "forward" => call["gui"].op # "forward"
    BY <1>1 DEF Posters
  <1>10. Started'
    BY <1>1, <1>2, <1>9 DEF Clean, Started
  <1> QED  BY <1>4, <1>7, <1>8, <1>10 DEF Clean

LEMMA StartServicesClean ==
    ASSUME Clean, StartServices
    PROVE  Clean'
  <1>1. /\ MadeBecomes /\ threads'[Current].guiHandler
        /\ threads'[Current].stopped = Made[Current].stopped
        /\ call' \in [Posters -> Calls]
        /\ call'["gui"].op = "forward" /\ call'["gui"].thread = Current
        /\ \A q \in Posters : q # "gui" => call'[q] = call[q]
        /\ services' \in [up : BOOLEAN, engine : BOOLEAN, clean : BOOLEAN, starts : Nat]
        /\ services'.clean = ~ Made[Current].stopped
        /\ UNCHANGED <<gui, log>>
    BY StartServicesIs DEF Clean
  <1>2. /\ AllGood' /\ OneThread' /\ Len(threads) <= Len(threads') /\ Len(threads) \in Nat
        /\ Len(threads') \in Nat /\ Current \in 1 .. Len(threads')
        /\ \A j \in 1 .. Len(threads) : ~ threads'[j].stopped => ~ threads[j].stopped
    BY <1>1, MadeSteps DEF Clean
  <1>3. Aims(call'["gui"], threads')
    BY <1>1, <1>2 DEF Aims
  <1>4. Calling'
    BY <1>1, <1>2, <1>3, CallSteps DEF Clean
  <1>5. Current # 0 /\ Current \in Nat
    BY MadeIs DEF Clean
  <1>6. TaskTypes'
    BY <1>1, <1>5 DEF Clean, TaskTypes, MadeBecomes
  <1>7. Started'
    BY <1>1, <1>5 DEF Started, MadeBecomes
  <1> QED  BY <1>2, <1>4, <1>6, <1>7 DEF Clean

LEMMA StopServicesClean ==
    ASSUME Clean, StopServices
    PROVE  Clean'
  <1>1. /\ MadeBecomes /\ threads'[Current].stopped
        /\ call' \in [Posters -> Calls]
        /\ call'["gui"].op = "background" /\ call'["gui"].thread = Current
        /\ \A q \in Posters : q # "gui" => call'[q] = call[q]
        /\ services' \in [up : BOOLEAN, engine : BOOLEAN, clean : BOOLEAN, starts : Nat]
        /\ ~ services'.up
        /\ UNCHANGED <<gui, log>>
    BY StopServicesIs DEF Clean
  <1>2. /\ AllGood' /\ OneThread' /\ Len(threads) <= Len(threads') /\ Len(threads) \in Nat
        /\ Len(threads') \in Nat /\ Current \in 1 .. Len(threads')
        /\ \A j \in 1 .. Len(threads) : ~ threads'[j].stopped => ~ threads[j].stopped
    BY <1>1, MadeSteps DEF Clean
  <1>3. Aims(call'["gui"], threads')
    BY <1>1, <1>2 DEF Aims
  <1>4. Calling'
    BY <1>1, <1>2, <1>3, CallSteps DEF Clean
  <1>5. Current \in Nat
    BY MadeIs DEF Clean
  <1>6. TaskTypes'
    BY <1>1, <1>5 DEF Clean, TaskTypes, MadeBecomes
  <1>7. Started'
    BY <1>1 DEF Started
  <1> QED  BY <1>2, <1>4, <1>6, <1>7 DEF Clean

\* The threads stay as they are.
LEMMA CallClean ==
    ASSUME Clean, UNCHANGED <<threads, instance>>, gui' \in TaskLoops, log' \in Logs,
           call' \in [Posters -> Calls],
           \A q \in Posters : call'[q] = call[q] \/ call'[q].op \notin {"background", "gui", "forward"},
           services' \in [up : BOOLEAN, engine : BOOLEAN, clean : BOOLEAN, starts : Nat],
           services'.up = services.up, services'.clean = services.clean,
           \/ services'.engine
           \/ /\ services'.engine = services.engine
              /\ call["gui"].op = "forward" => call'["gui"].op = "forward"
    PROVE  Clean'
  <1>1. TaskTypes' /\ OneThread' /\ AllGood'
    BY DEF Clean, TaskTypes, OneThread, AllGood
  <1>2. Calling'
    BY DEF Clean, Calling, Aims
  <1>3. Started'
    BY DEF Clean, Started
  <1> QED  BY <1>1, <1>2, <1>3 DEF Clean

LEMMA ForwardClean ==
    ASSUME Clean, Forward
    PROVE  Clean'
  <1>1. /\ gui' \in TaskLoops /\ call' \in [Posters -> Calls] /\ call'["gui"] = NoCall
        /\ \A q \in Posters : q # "gui" => call'[q] = call[q]
        /\ services' \in [up : BOOLEAN, engine : BOOLEAN, clean : BOOLEAN, starts : Nat]
        /\ services'.engine /\ services'.up = services.up /\ services'.clean = services.clean
        /\ UNCHANGED <<threads, instance, log>>
    BY ForwardIs DEF Clean
  <1>2. log' \in Logs /\ NoCall.op = "none"
    BY <1>1, NoCallIs DEF Clean, TaskTypes
  <1> QED  BY <1>1, <1>2, CallClean

LEMMA RunGUIClean ==
    ASSUME Clean, RunGUI
    PROVE  Clean'
  <1>1. /\ gui' \in TaskLoops /\ log' \in Logs /\ call' \in [Posters -> Calls]
        /\ call["gui"].op = "none" /\ call'["gui"].op \in {"none", "notify"}
        /\ \A q \in Posters : q # "gui" => call'[q] = call[q]
        /\ UNCHANGED <<threads, instance, services>>
    BY RunGUIIs DEF Clean
  <1>2. services' \in [up : BOOLEAN, engine : BOOLEAN, clean : BOOLEAN, starts : Nat]
    BY <1>1 DEF Clean, TaskTypes
  <1> QED  BY <1>1, <1>2, CallClean

LEMMA SyncClean ==
    ASSUME Clean, (\E p \in Posters : Get(p) \/ Lock(p)) \/ Notify \/ UNCHANGED vars
    PROVE  Clean'
  <1>1. /\ call' \in [Posters -> Calls]
        /\ \A q \in Posters : \/ call'[q] = call[q]
                              \/ call[q].op \in Waits /\ call'[q].op \in Waits \cup {"none"}
        /\ UNCHANGED <<threads, instance, gui, services, log>>
    BY SyncIs DEF Clean
  <1>2. "gui" \in Posters
    BY DEF Posters
  <1>3. /\ \A q \in Posters : call'[q] = call[q] \/ call'[q].op \notin {"background", "gui", "forward"}
        /\ call["gui"].op = "forward" => call'["gui"].op = "forward"
    BY <1>1, <1>2 DEF Waits
  <1>4. /\ gui' \in TaskLoops /\ log' \in Logs
        /\ services' \in [up : BOOLEAN, engine : BOOLEAN, clean : BOOLEAN, starts : Nat]
    BY <1>1 DEF Clean, TaskTypes
  <1> QED  BY <1>1, <1>3, <1>4, CallClean

LEMMA InitClean == Init => Clean
  <1> SUFFICES ASSUME Init  PROVE Clean
    OBVIOUS
  <1>1. /\ threads = <<>> /\ instance = 0 /\ gui = NewLooper
        /\ call = [p \in Posters |-> NoCall]
        /\ services = [up |-> FALSE, engine |-> FALSE, clean |-> TRUE, starts |-> 0]
        /\ log = NoLog
    BY DEF Init
  <1>2. log \in Logs
    BY <1>1 DEF NoLog, Logs
  <1>3. threads \in Seq(Threads) /\ Len(threads) = 0 /\ 1 .. Len(threads) = {}
    BY <1>1
  <1>4. services \in [up : BOOLEAN, engine : BOOLEAN, clean : BOOLEAN, starts : Nat] /\ ~ services.up
    BY <1>1
  <1>5. call \in [Posters -> Calls] /\ \A p \in Posters : call[p].op = "none"
    BY <1>1, NoCallIs
  <1>6. TaskTypes
    BY <1>1, <1>2, <1>3, <1>4, <1>5, NewLooperIs DEF TaskTypes
  <1>7. OneThread /\ AllGood /\ Started
    BY <1>1, <1>3, <1>4 DEF OneThread, AllGood, Started
  <1>8. Calling
    BY <1>5 DEF Calling, Aims
  <1> QED  BY <1>6, <1>7, <1>8 DEF Clean

LEMMA CleanSteps == Clean /\ [Next]_vars => Clean'
  <1> SUFFICES ASSUME Clean, [Next]_vars  PROVE Clean'
    OBVIOUS
  <1>1. CASE \E p \in Posters, delay, wait \in BOOLEAN :
            PostBackground(p, delay) \/ PostGUI(p, delay, wait)
    <2>1. PICK p \in Posters, delay \in BOOLEAN, wait \in BOOLEAN :
              PostBackground(p, delay) \/ PostGUI(p, delay, wait)
      BY <1>1
    <2>2. \E to \in {"background", "gui"} : Asks(p, to) /\ call[p].op = "none"
      BY <2>1, PostBackgroundIs, PostGUIIs DEF Clean
    <2> QED  BY <2>2, AsksClean
  <1>2. CASE StartServices \/ StopServices
    BY <1>2, StartServicesClean, StopServicesClean
  <1>3. CASE \E p \in Posters : PostBackgroundEnds(p) \/ PostGUIEnds(p)
    BY <1>3, BackgroundEndsClean, GUIEndsClean
  <1>4. CASE (\E p \in Posters : Get(p) \/ Lock(p)) \/ Notify \/ UNCHANGED vars
    BY <1>4, SyncClean
  <1>5. CASE \E i \in DOMAIN threads : Background(i)
    <2>1. DOMAIN threads = 1 .. Len(threads)
      BY DEF Clean, TaskTypes
    <2>2. PICK i \in 1 .. Len(threads) : Background(i)
      BY <1>5, <2>1
    <2> QED  BY <2>2, PrepareClean, CopyClean, RunBackgroundClean, LeaveClean, EndClean DEF Background
  <1>6. CASE RunGUI \/ Forward
    BY <1>6, RunGUIClean, ForwardClean
  <1> QED  BY <1>1, <1>2, <1>3, <1>4, <1>5, <1>6 DEF Next, Continue, GUI

LEMMA CleanAlways == Spec => []Clean
  <1>1. Init => Clean
    BY InitClean
  <1>2. Clean /\ [Next]_vars => Clean'
    BY CleanSteps
  <1> QED  BY <1>1, <1>2, PTL DEF Spec

\* Services that were started when no thread had been told to stop keep their engine, a
\* background thread and its GUI handler until they are stopped, whatever is posted.
THEOREM RestartKeepsEngine == Spec => []CleanStart
  <1>1. Clean => CleanStart
    BY DEF Clean, Started, OneThread, CleanStart
  <1> QED  BY <1>1, CleanAlways, PTL

-----------------------------------------------------------------------------
(* The order of the tasks. *)

ForThread(L, t, i) ==
    t \in 1 .. Len(L.posts) /\ L.posts[t].to = "background" /\ L.posts[t].thread = i
ForGUI(L, t) == t \in 1 .. Len(L.posts) /\ L.posts[t].to = "gui"

\* A task that is not delayed, and not lost in a list that was copied.
Kept(L, a, i) == ForThread(L, a, i) /\ ~ L.posts[a].delay /\ a \notin L.late

\* Two tasks that are to run in their order.
Pair(L, a, b, i) ==
    b \in 1 .. Len(L.posts) /\ Kept(L, a, i) /\ a < b /\ L.posts[a] = L.posts[b]

\* Where b is in the list s, a is in front of it, unless it is in S.
Follows(s, S, a, b) ==
    \A l \in 1 .. Len(s) : s[l] = b => a \in S \/ \E k \in 1 .. l - 1 : s[k] = a

InFlight(calls, a) == \E p \in Posters : calls[p].op = "background" /\ calls[p].task = a

\* What is in the lists of the thread i was posted to it. The numbers below 1 are the
\* tasks of stopServices.
HomeLists(T, L, i) ==
    /\ \A t \in Range(T.loop.queue) \cup Range(T.posted) : t < 1 \/ ForThread(L, t, i)
    /\ \A t \in T.loop.delayed : ForThread(L, t, i) /\ L.posts[t].delay

\* Before the list is copied nothing runs, and before the handler is there nothing is queued.
NotYet(T, L, i) ==
    /\ Fresh(T) => ~ T.loop.quit /\ \A t \in Range(L.ran) : ~ ForThread(L, t, i)
    /\ T.stage = "new" => T.loop.queue = <<>>

\* What is not in a call any more is in the list, in the queue, or ran.
Placed(T, L, calls, i) ==
    ~ T.loop.quit =>
        \A a \in 1 .. Len(L.posts) : Kept(L, a, i) /\ ~ InFlight(calls, a) =>
            \/ a \in Range(L.ran) \cup Range(T.loop.queue)
            \/ Fresh(T) /\ a \in Range(T.posted)

\* The tasks of a pair are there in their order, also when the second is in a call yet.
Orders(T, L, calls, i) ==
    \A a, b \in 1 .. Len(L.posts) : Pair(L, a, b, i) =>
        /\ b \notin L.early => /\ Follows(L.ran, {}, a, b)
                               /\ Follows(T.loop.queue, Range(L.ran), a, b)
        /\ Fresh(T) =>
              /\ Follows(T.posted, {}, a, b)
              /\ \A p \in Posters :
                    calls[p].op = "background" /\ calls[p].task = b /\ ~ calls[p].seen
                        => a \in Range(T.posted)

Lists(T, L, calls, i) ==
    HomeLists(T, L, i) /\ NotYet(T, L, i) /\ Placed(T, L, calls, i) /\ Orders(T, L, calls, i)

HomeCall(c, p, all, L) ==
    /\ c.op = "background" =>
          /\ c.seen => all[c.thread].stage # "new"
          /\ \/ c.task = Stopping /\ ~ c.delay
             \/ /\ ForThread(L, c.task, c.thread)
                /\ L.posts[c.task].by = p /\ L.posts[c.task].delay = c.delay
    /\ c.op = "gui" => ForGUI(L, c.task)

HomeGUI ==
    /\ \A t \in GUITasks(gui) : ForGUI(log, t)
    /\ \A i \in 1 .. Len(threads) : \A t \in Range(threads[i].postedGUI) : ForGUI(log, t)

HomeLog ==
    /\ \A t \in 1 .. Len(log.posts) : log.posts[t].thread \in 1 .. Len(threads)
    /\ Range(log.ran) \subseteq 1 .. Len(log.posts)
    /\ Len(log.posts) <= MaxTasks

Posting ==
    /\ \A i \in 1 .. Len(threads) : Lists(threads[i], log, call, i)
    /\ \A p \in Posters : HomeCall(call[p], p, threads, log)
    /\ HomeGUI /\ HomeLog

-----------------------------------------------------------------------------

LEMMA FollowsAppend ==
    ASSUME NEW s \in Seq(Int), NEW S, NEW a, NEW b, NEW x \in Int, Follows(s, S, a, b),
           x = b => a \in S \cup Range(s)
    PROVE  Follows(Append(s, x), S, a, b)
  <1> DEFINE r == Append(s, x)
             n == Len(s)
  <1>1. /\ n \in Nat /\ Len(r) = n + 1 /\ r[n + 1] = x /\ \A k \in 1 .. n : r[k] = s[k]
        /\ DOMAIN s = 1 .. n
    OBVIOUS
  <1>2. \A l \in 1 .. n : s[l] = b => a \in S \/ \E k \in 1 .. l - 1 : s[k] = a
    BY DEF Follows
  <1>3. a \in Range(s) => \E k \in 1 .. n : s[k] = a
    BY <1>1, Zenon DEF Range
  <1> HIDE DEF r, n
  <1>4. ASSUME NEW l \in 1 .. n + 1, r[l] = b
        PROVE  a \in S \/ \E k \in 1 .. l - 1 : r[k] = a
    <2>1. CASE l \in 1 .. n
      <3>1. a \in S \/ \E k \in 1 .. l - 1 : s[k] = a
        BY <1>1, <1>2, <1>4, <2>1
      <3>2. \A k \in 1 .. l - 1 : k \in 1 .. n
        BY <1>1, <2>1
      <3> QED  BY <1>1, <3>1, <3>2
    <2>2. CASE l = n + 1
      <3>1. l - 1 = n
        BY <1>1, <2>2
      <3> QED  BY <1>1, <1>3, <1>4, <2>2, <3>1
    <2> QED  BY <1>1, <2>1, <2>2
  <1> QED  BY <1>1, <1>4 DEF Follows, r

LEMMA FollowsMore ==
    ASSUME NEW s, NEW S, NEW R, NEW a, NEW b, Follows(s, S, a, b), S \subseteq R
    PROVE  Follows(s, R, a, b)
  BY DEF Follows

LEMMA FollowsNone ==
    ASSUME NEW s \in Seq(Int), NEW S, NEW a, NEW b, b \notin Range(s)
    PROVE  Follows(s, S, a, b)
  <1>1. \A l \in 1 .. Len(s) : s[l] \in Range(s)
    <2>1. DOMAIN s = 1 .. Len(s)
      OBVIOUS
    <2> QED  BY <2>1, Zenon DEF Range
  <1> QED  BY <1>1 DEF Follows

LEMMA FollowsConcat ==
    ASSUME NEW s \in Seq(Int), NEW r \in Seq(Int), NEW S, NEW a, NEW b,
           Follows(s, S, a, b), Follows(r, {}, a, b)
    PROVE  Follows(s \o r, S, a, b)
  <1> DEFINE u == s \o r
             n == Len(s)
             m == Len(r)
  <1>1. /\ n \in Nat /\ m \in Nat /\ Len(u) = n + m
        /\ \A k \in 1 .. n : u[k] = s[k]
        /\ \A k \in 1 .. m : u[n + k] = r[k]
    OBVIOUS
  <1>2. /\ \A l \in 1 .. n : s[l] = b => a \in S \/ \E k \in 1 .. l - 1 : s[k] = a
        /\ \A l \in 1 .. m : r[l] = b => \E k \in 1 .. l - 1 : r[k] = a
    BY DEF Follows
  <1> HIDE DEF u, n, m
  <1>3. ASSUME NEW l \in 1 .. n + m, u[l] = b
        PROVE  a \in S \/ \E k \in 1 .. l - 1 : u[k] = a
    <2>1. CASE l \in 1 .. n
      <3>1. a \in S \/ \E k \in 1 .. l - 1 : s[k] = a
        BY <1>1, <1>2, <1>3, <2>1
      <3>2. \A k \in 1 .. l - 1 : k \in 1 .. n
        BY <1>1, <2>1
      <3> QED  BY <1>1, <3>1, <3>2
    <2>2. CASE l \notin 1 .. n
      <3>1. l - n \in 1 .. m /\ n + (l - n) = l
        BY <1>1, <2>2
      <3>2. r[l - n] = b
        BY <1>1, <1>3, <3>1
      <3>3. PICK k \in 1 .. (l - n) - 1 : r[k] = a
        BY <1>2, <3>1, <3>2
      <3>4. k \in 1 .. m /\ n + k \in 1 .. l - 1
        BY <1>1, <3>1
      <3> QED  BY <1>1, <3>3, <3>4
    <2> QED  BY <2>1, <2>2
  <1> QED  BY <1>1, <1>3 DEF Follows, u

LEMMA FollowsTail ==
    ASSUME NEW s \in Seq(Int), s # <<>>, NEW S, NEW a, NEW b, Follows(s, S, a, b)
    PROVE  /\ Head(s) = b => a \in S
           /\ Follows(Tail(s), S \cup {Head(s)}, a, b)
  <1> DEFINE u == Tail(s)
             n == Len(s)
  <1>1. /\ n \in Nat /\ n >= 1 /\ Len(u) = n - 1 /\ Head(s) = s[1]
        /\ \A k \in 1 .. n - 1 : u[k] = s[k + 1]
    OBVIOUS
  <1>2. \A l \in 1 .. n : s[l] = b => a \in S \/ \E k \in 1 .. l - 1 : s[k] = a
    BY DEF Follows
  <1> HIDE DEF u, n
  <1>3. Head(s) = b => a \in S
    <2>1. 1 \in 1 .. n /\ \A k \in 1 .. 1 - 1 : FALSE
      BY <1>1
    <2> QED  BY <1>1, <1>2, <2>1
  <1>4. ASSUME NEW l \in 1 .. n - 1, u[l] = b
        PROVE  a \in S \cup {Head(s)} \/ \E k \in 1 .. l - 1 : u[k] = a
    <2>1. l + 1 \in 1 .. n /\ s[l + 1] = b /\ (l + 1) - 1 = l
      BY <1>1, <1>4
    <2>2. CASE a \in S
      BY <2>2
    <2>3. CASE a \notin S
      <3>1. PICK k \in 1 .. l : s[k] = a
        BY <1>2, <2>1, <2>3
      <3>2. CASE k = 1
        BY <1>1, <3>1, <3>2
      <3>3. CASE k # 1
        <4>1. k - 1 \in 1 .. l - 1 /\ k - 1 \in 1 .. n - 1 /\ (k - 1) + 1 = k
          BY <1>1, <3>3
        <4>2. u[k - 1] = a
          BY <1>1, <3>1, <4>1
        <4> QED  BY <4>1, <4>2
      <3> QED  BY <3>2, <3>3
    <2> QED  BY <2>2, <2>3
  <1> QED  BY <1>1, <1>3, <1>4 DEF Follows, u

LEMMA LogTypes ==
    ASSUME NEW L \in Logs
    PROVE  /\ L.ran \in Seq(Int) /\ L.posts \in Seq(Posts) /\ Len(L.posts) \in Nat
           /\ \A k \in 1 .. Len(L.posts) : L.posts[k] \in Posts
  <1>1. L.ran \in Seq(Int) /\ L.posts \in Seq(Posts)
    BY DEF Logs
  <1> QED  BY <1>1

\* Where the log got longer by what is not for the thread i, its lists are as good as before.
LEMMA LongerLog ==
    ASSUME NEW T, NEW i, log \in Logs, log' \in Logs,
           Lists(T, log, call, i),
           log'.posts = log.posts, log.late \subseteq log'.late, log.early \subseteq log'.early,
           \/ log'.ran = log.ran
           \/ \E t \in Int : log'.ran = Append(log.ran, t) /\ ~ ForThread(log, t, i),
           \A p \in Posters : call[p].op = "background" =>
               call'[p] = call[p] \/ ~ Kept(log', call[p].task, i),
           \A p \in Posters : call'[p].op = "background" => call'[p] = call[p]
    PROVE  Lists(T, log', call', i)
  <1>1. log.ran \in Seq(Int) /\ Len(log.posts) \in Nat
    BY LogTypes
  <1>2. \A t : ForThread(log', t, i) <=> ForThread(log, t, i)
    BY DEF ForThread
  <1>3. \A t : Kept(log', t, i) => Kept(log, t, i)
    BY <1>2 DEF Kept
  <1>4. \A a, b : Pair(log', a, b, i) => Pair(log, a, b, i)
    BY <1>3 DEF Pair
  <1>5. /\ Range(log.ran) \subseteq Range(log'.ran)
        /\ \A t \in Range(log'.ran) : ForThread(log, t, i) => t \in Range(log.ran)
    <2>1. CASE log'.ran = log.ran
      BY <2>1
    <2>2. CASE log'.ran # log.ran
      <3>1. PICK t \in Int : log'.ran = Append(log.ran, t) /\ ~ ForThread(log, t, i)
        BY <2>2
      <3>2. Range(log'.ran) = Range(log.ran) \cup {t}
        BY <1>1, <3>1, AppendKeeps
      <3> QED  BY <3>1, <3>2
    <2> QED  BY <2>1, <2>2
  <1>6. HomeLists(T, log', i)
    BY <1>2 DEF Lists, HomeLists
  <1>7. NotYet(T, log', i)
    BY <1>2, <1>5 DEF Lists, NotYet
  <1>8. \A a : InFlight(call, a) /\ Kept(log', a, i) => InFlight(call', a)
    BY DEF InFlight
  <1>9. Placed(T, log', call', i)
    BY <1>3, <1>5, <1>8 DEF Lists, Placed
  <1>10. ASSUME NEW a \in 1 .. Len(log'.posts), NEW b \in 1 .. Len(log'.posts), Pair(log', a, b, i)
         PROVE  /\ b \notin log'.early => /\ Follows(log'.ran, {}, a, b)
                                       /\ Follows(T.loop.queue, Range(log'.ran), a, b)
                /\ Fresh(T) =>
                      /\ Follows(T.posted, {}, a, b)
                      /\ \A p \in Posters :
                            call'[p].op = "background" /\ call'[p].task = b /\ ~ call'[p].seen
                                => a \in Range(T.posted)
    <2>1. Pair(log, a, b, i) /\ a \in 1 .. Len(log.posts) /\ b \in 1 .. Len(log.posts)
      BY <1>4, <1>10
    <2>2. /\ b \notin log.early => /\ Follows(log.ran, {}, a, b)
                                 /\ Follows(T.loop.queue, Range(log.ran), a, b)
          /\ Fresh(T) =>
                /\ Follows(T.posted, {}, a, b)
                /\ \A p \in Posters :
                      call[p].op = "background" /\ call[p].task = b /\ ~ call[p].seen
                          => a \in Range(T.posted)
      BY <2>1 DEF Lists, Orders
    <2>3. ASSUME b \notin log'.early
          PROVE  Follows(log'.ran, {}, a, b) /\ Follows(T.loop.queue, Range(log'.ran), a, b)
      <3>1. Follows(log.ran, {}, a, b) /\ Follows(T.loop.queue, Range(log.ran), a, b)
        BY <2>2, <2>3
      <3>2. Follows(T.loop.queue, Range(log'.ran), a, b)
        BY <1>5, <3>1, FollowsMore
      <3>3. ForThread(log, b, i)
        BY <2>1 DEF Pair, Kept, ForThread
      <3>4. CASE log'.ran = log.ran
        BY <3>1, <3>2, <3>4
      <3>5. CASE log'.ran # log.ran
        <4>1. PICK t \in Int : log'.ran = Append(log.ran, t) /\ ~ ForThread(log, t, i)
          BY <3>5
        <4>2. t # b
          BY <3>3, <4>1
        <4> QED  BY <1>1, <3>1, <3>2, <4>1, <4>2, FollowsAppend
      <3> QED  BY <3>4, <3>5
    <2> QED  BY <2>2, <2>3
  <1>11. Orders(T, log', call', i)
    BY <1>10 DEF Orders
  <1> QED  BY <1>6, <1>7, <1>9, <1>11 DEF Lists

\* A step that leaves the lists of the background threads alone, but may post a task more,
\* which is in a call then.
LEMMA QuietLists ==
    ASSUME Clean, Posting, log' \in Logs,
           NEW i \in 1 .. Len(threads'),
           IF i \in 1 .. Len(threads) THEN Steady(threads'[i], threads[i])
           ELSE Steady(threads'[i], NewThread),
           log'.ran = log.ran, log'.early = log.early, log.late \subseteq log'.late,
           \A k \in 1 .. Len(log.posts) : k \in 1 .. Len(log'.posts) /\ log'.posts[k] = log.posts[k],
           \A k \in 1 .. Len(log'.posts) :
               \/ k \in 1 .. Len(log.posts)
               \/ /\ k = Len(log.posts) + 1
                  /\ log'.posts[k].to = "background" => InFlight(call', k),
           \A p \in Posters : call[p].op = "background" => call'[p] = call[p],
           \A p \in Posters : call'[p].op = "background" /\ call'[p] # call[p] =>
               \/ call'[p].task = Stopping
               \/ /\ call'[p].task = Len(log.posts) + 1 /\ call[p].op # "background"
                  /\ log'.posts[Len(log.posts) + 1].by = p
                  /\ ~ call'[p].seen =>
                        \A j \in 1 .. Len(threads') :
                            log'.posts[Len(log.posts) + 1].thread = j => ~ HasHandler(threads'[j])
    PROVE  Lists(threads'[i], log', call', i)
  <1> DEFINE T == threads'[i]
             b == IF i \in 1 .. Len(threads) THEN threads[i] ELSE NewThread
             n == Len(log.posts)
  <1>1. /\ n \in Nat /\ log.ran \in Seq(Int) /\ log \in Logs /\ Len(log'.posts) \in Nat
        /\ Len(threads) \in Nat
    BY LogTypes DEF Clean, TaskTypes
  <1>2. /\ T.stage = b.stage /\ T.loop = b.loop /\ T.posted = b.posted
    BY DEF Steady
  <1>3. HomeLog /\ \A p \in Posters : HomeCall(call[p], p, threads, log)
    BY DEF Posting
  <1>4. \A t \in 1 .. n : log.posts[t].thread \in 1 .. Len(threads)
    BY <1>3 DEF HomeLog
  <1>5. Lists(b, log, call, i)
    <2>1. CASE i \in 1 .. Len(threads)
      BY <2>1 DEF Posting
    <2>2. CASE i \notin 1 .. Len(threads)
      <3>1. \A t : ~ ForThread(log, t, i)
        BY <1>4, <2>2 DEF ForThread
      <3>2. /\ b.stage = "new" /\ b.loop.queue = <<>> /\ b.posted = <<>> /\ b.loop.delayed = {}
            /\ ~ b.loop.quit
        BY <2>2, NewThreadIs, NewLooperIs
      <3>3. HomeLists(b, log, i)
        BY <3>2, EmptyRange DEF HomeLists
      <3>4. NotYet(b, log, i)
        BY <3>1, <3>2 DEF NotYet
      <3>5. Placed(b, log, call, i) /\ Orders(b, log, call, i)
        BY <3>1 DEF Placed, Orders, Pair, Kept
      <3> QED  BY <3>3, <3>4, <3>5 DEF Lists
    <2> QED  BY <2>1, <2>2
  <1> HIDE DEF T, b
  <1>6. \A t \in 1 .. n : ForThread(log', t, i) <=> ForThread(log, t, i)
    BY DEF ForThread
  <1>7. \A t : ForThread(log, t, i) => ForThread(log', t, i) /\ log'.posts[t] = log.posts[t]
    BY DEF ForThread
  <1>8. \A t \in 1 .. n : Kept(log', t, i) => Kept(log, t, i)
    BY <1>6 DEF Kept
  <1>9. Range(log.ran) \subseteq 1 .. n
    BY <1>3 DEF HomeLog
  <1>10. HomeLists(T, log', i)
    BY <1>2, <1>5, <1>7 DEF Lists, HomeLists
  <1>11. NotYet(T, log', i)
    BY <1>2, <1>5, <1>6, <1>9 DEF Lists, NotYet, Fresh
  <1>12. \A a : InFlight(call, a) => InFlight(call', a)
    BY DEF InFlight
  <1>13. Placed(T, log', call', i)
    <2> SUFFICES ASSUME ~ T.loop.quit, NEW a \in 1 .. Len(log'.posts), Kept(log', a, i),
                        ~ InFlight(call', a)
                 PROVE  \/ a \in Range(log'.ran) \cup Range(T.loop.queue)
                        \/ Fresh(T) /\ a \in Range(T.posted)
      BY DEF Placed
    <2>1. log'.posts[a].to = "background"
      BY DEF Kept, ForThread
    <2>2. a \in 1 .. n
      BY <2>1
    <2>3. Kept(log, a, i) /\ ~ InFlight(call, a)
      BY <1>8, <1>12, <2>2
    <2> QED  BY <1>2, <1>5, <2>2, <2>3 DEF Lists, Placed, Fresh
  <1>14. ASSUME NEW a \in 1 .. Len(log'.posts), NEW c \in 1 .. Len(log'.posts), Pair(log', a, c, i)
         PROVE  /\ c \notin log'.early => /\ Follows(log'.ran, {}, a, c)
                                          /\ Follows(T.loop.queue, Range(log'.ran), a, c)
                /\ Fresh(T) =>
                      /\ Follows(T.posted, {}, a, c)
                      /\ \A p \in Posters :
                            call'[p].op = "background" /\ call'[p].task = c /\ ~ call'[p].seen
                                => a \in Range(T.posted)
    <2>1. /\ Kept(log', a, i) /\ a < c /\ log'.posts[a] = log'.posts[c] /\ ForThread(log', a, i)
      BY <1>14 DEF Pair, Kept
    <2>2. a \in 1 .. n
      <3>1. c \in 1 .. n \/ c = n + 1
        OBVIOUS
      <3>2. a \in Int /\ a >= 1 /\ c \in Int
        BY <1>1
      <3> HIDE DEF n
      <3> QED  BY <1>1, <2>1, <3>1, <3>2
    <2>3. Kept(log, a, i)
      BY <1>8, <2>1, <2>2
    <2>4. CASE c \in 1 .. n
      <3>1. Pair(log, a, c, i)
        BY <2>1, <2>2, <2>3, <2>4 DEF Pair
      <3>2. /\ c \notin log.early => /\ Follows(log.ran, {}, a, c)
                                     /\ Follows(b.loop.queue, Range(log.ran), a, c)
            /\ Fresh(b) =>
                  /\ Follows(b.posted, {}, a, c)
                  /\ \A p \in Posters :
                        call[p].op = "background" /\ call[p].task = c /\ ~ call[p].seen
                            => a \in Range(b.posted)
        BY <1>5, <2>2, <2>4, <3>1 DEF Lists, Orders
      <3>3. \A p \in Posters : call'[p].op = "background" /\ call'[p].task = c => call'[p] = call[p]
        BY <1>1, <2>4 DEF Stopping
      <3> QED  BY <1>2, <3>2, <3>3 DEF Fresh
    <2>5. CASE c \notin 1 .. n
      <3>1. c = n + 1
        BY <2>5
      <3>2. \A t \in Range(b.loop.queue) \cup Range(b.posted) : t < 1 \/ ForThread(log, t, i)
        BY <1>5 DEF Lists, HomeLists
      <3>3. c \notin Range(b.loop.queue) \cup Range(b.posted)
        BY <1>1, <3>1, <3>2, <2>5 DEF ForThread
      <3>4. b.loop.queue \in Seq(Int) /\ b.posted \in Seq(Int)
        <4>1. CASE i \in 1 .. Len(threads)
          BY <4>1, ThreadTypes DEF Clean, b
        <4>2. CASE i \notin 1 .. Len(threads)
          <5>1. b = NewThread
            BY <4>2 DEF b
          <5>2. NewThread.loop.queue = <<>> /\ NewThread.posted = <<>>
            BY NewThreadIs, NewLooperIs
          <5> QED  BY <5>1, <5>2
        <4> QED  BY <4>1, <4>2
      <3>5. Follows(log.ran, {}, a, c) /\ Follows(b.loop.queue, Range(log.ran), a, c)
        BY <1>1, <1>9, <2>5, <3>3, <3>4, FollowsNone
      <3>6. Follows(b.posted, {}, a, c)
        BY <3>3, <3>4, FollowsNone
      <3>7. ASSUME Fresh(T), NEW p \in Posters, call'[p].op = "background", call'[p].task = c,
                   ~ call'[p].seen
            PROVE  a \in Range(T.posted)
        <4>1. call'[p] # call[p]
          <5>1. ASSUME call'[p] = call[p]  PROVE FALSE
            <6>1. call[p].task = Stopping \/ ForThread(log, call[p].task, call[p].thread)
              <7>1. HomeCall(call[p], p, threads, log)
                BY <1>3
              <7> QED  BY <3>7, <5>1, <7>1 DEF HomeCall
            <6> QED  BY <1>1, <2>5, <3>1, <3>7, <5>1, <6>1 DEF ForThread, Stopping
          <5> QED  BY <5>1
        <4>2. c # Stopping
          BY <1>1, <3>1 DEF Stopping
        <4>3. /\ call[p].op # "background" /\ log'.posts[c].by = p
              /\ \A j \in 1 .. Len(threads') : log'.posts[c].thread = j => ~ HasHandler(threads'[j])
          BY <3>1, <3>7, <4>1, <4>2
        <4>4. log'.posts[c].thread = i /\ log.posts[a].by = p
          BY <2>1, <2>2, <4>3 DEF ForThread
        <4>5. ~ HasHandler(T)
          BY <4>3, <4>4 DEF T
        <4>6. T.stage = "new"
          BY <3>7, <4>5 DEF Fresh, HasHandler
        <4>7. ~ InFlight(call, a)
          <5>1. ASSUME NEW q \in Posters, call[q].op = "background", call[q].task = a  PROVE FALSE
            <6>1. log.posts[a].by = q
              BY <1>1, <1>3, <2>2, <5>1, SMTT(30) DEF HomeCall, Stopping
            <6> QED  BY <4>3, <4>4, <5>1, <6>1
          <5> QED  BY <5>1 DEF InFlight
        <4>8. /\ ~ b.loop.quit /\ b.loop.queue = <<>> /\ a \notin Range(log.ran) /\ Fresh(b)
          BY <1>2, <1>5, <2>3, <4>6 DEF Lists, NotYet, Fresh, Kept
        <4>9. a \in Range(log.ran) \cup Range(b.loop.queue) \/ a \in Range(b.posted)
          BY <1>5, <2>2, <2>3, <4>7, <4>8 DEF Lists, Placed
        <4> QED  BY <1>2, <4>8, <4>9, EmptyRange
      <3> QED  BY <1>2, <3>5, <3>6, <3>7
    <2> QED  BY <2>4, <2>5
  <1>15. Orders(T, log', call', i)
    BY <1>14 DEF Orders
  <1> QED  BY <1>10, <1>11, <1>13, <1>15 DEF Lists, T

LEMMA HomeCallStays ==
    ASSUME NEW c, NEW p, HomeCall(c, p, threads, log), Aims(c, threads),
           \A j \in 1 .. Len(threads) : threads'[j].stage = "new" => threads[j].stage = "new",
           \A k \in 1 .. Len(log.posts) : k \in 1 .. Len(log'.posts) /\ log'.posts[k] = log.posts[k]
    PROVE  HomeCall(c, p, threads', log')
  BY DEF HomeCall, Aims, ForThread, ForGUI

\* The threads of the next state, when one may have been made.
LEMMA MadeSteady ==
    ASSUME TaskTypes, OneThread, MadeBecomes
    PROVE  /\ \A i \in 1 .. Len(threads') :
                  IF i \in 1 .. Len(threads) THEN Steady(threads'[i], threads[i])
                  ELSE Steady(threads'[i], NewThread)
           /\ \A i \in 1 .. Len(threads) : /\ i \in 1 .. Len(threads')
                                           /\ threads'[i].stage = threads[i].stage
                                           /\ threads'[i].postedGUI = threads[i].postedGUI
           /\ \A i \in 1 .. Len(threads') : i \notin 1 .. Len(threads) =>
                  threads'[i].postedGUI = <<>>
           /\ Current \in 1 .. Len(threads')
  <1>1. /\ Made \in Seq(Threads) /\ Current \in 1 .. Len(Made)
        /\ \A i \in 1 .. Len(threads) : i \in 1 .. Len(Made) /\ Made[i] = threads[i]
        /\ \A i \in 1 .. Len(Made) : i \notin 1 .. Len(threads) => i = Current /\ Made[i] = NewThread
    BY MadeIs
  <1>2. /\ Len(threads') = Len(Made)
        /\ \A j \in 1 .. Len(Made) : /\ Steady(threads'[j], Made[j])
                                     /\ threads'[j].postedGUI = Made[j].postedGUI
    BY DEF MadeBecomes, Steady
  <1>3. NewThread.postedGUI = <<>>
    BY NewThreadIs
  <1> QED  BY <1>1, <1>2, <1>3 DEF Steady

LEMMA HomeGUIStays ==
    ASSUME HomeGUI,
           \A k \in 1 .. Len(log.posts) : k \in 1 .. Len(log'.posts) /\ log'.posts[k] = log.posts[k],
           \A t \in GUITasks(gui') : t \in GUITasks(gui) \/ ForGUI(log, t),
           \A i \in 1 .. Len(threads') : \A t \in Range(threads'[i].postedGUI) :
               ForGUI(log, t) \/ (i \in 1 .. Len(threads) /\ t \in Range(threads[i].postedGUI))
    PROVE  HomeGUI'
  BY DEF HomeGUI, ForGUI

\* Posting a task.
LEMMA AsksPosting ==
    ASSUME Clean, Posting, NEW p \in Posters, NEW to \in {"background", "gui"}, Asks(p, to),
           call[p].op = "none", Len(log.posts) + 1 \in Tasks
    PROVE  Posting'
  <1> DEFINE n == Len(log.posts)
  <1>1. /\ threads' = Made /\ instance' = Current
        /\ call'[p].op = to /\ call'[p].thread = Current /\ call'[p].task = n + 1
        /\ to = "background" => call'[p].seen = HasHandler(Made[Current])
        /\ \A q \in Posters : q # p => call'[q] = call[q]
        /\ log' \in Logs /\ log'.ran = log.ran /\ log'.late = log.late /\ log'.early = log.early
        /\ UNCHANGED <<gui, services>>
    BY DEF Asks
  <1>2. PICK r \in Posts : /\ log'.posts = Append(log.posts, r)
                           /\ r.by = p /\ r.thread = Current /\ r.to = to /\ r.delay = call'[p].delay
    BY DEF Asks
  <1>3. /\ n \in Nat /\ Len(log'.posts) = n + 1 /\ log'.posts[n + 1] = r
        /\ \A k \in 1 .. n : k \in 1 .. Len(log'.posts) /\ log'.posts[k] = log.posts[k]
        /\ \A k \in 1 .. Len(log'.posts) : k \in 1 .. n \/ k = n + 1
        /\ n + 1 \in 1 .. Len(log'.posts)
    <2>1. log.posts \in Seq(Posts)
      BY LogTypes DEF Clean, TaskTypes
    <2> QED  BY <1>2, <2>1
  <1>4. Made \in Seq(Threads) /\ Current \in 1 .. Len(Made)
    BY MadeIs DEF Clean
  <1>5. MadeBecomes
    BY <1>1, <1>4 DEF MadeBecomes, Steady
  <1>6. /\ \A i \in 1 .. Len(threads') :
              IF i \in 1 .. Len(threads) THEN Steady(threads'[i], threads[i])
              ELSE Steady(threads'[i], NewThread)
        /\ \A i \in 1 .. Len(threads) : /\ i \in 1 .. Len(threads')
                                        /\ threads'[i].stage = threads[i].stage
                                        /\ threads'[i].postedGUI = threads[i].postedGUI
        /\ \A i \in 1 .. Len(threads') : i \notin 1 .. Len(threads) => threads'[i].postedGUI = <<>>
        /\ Current \in 1 .. Len(threads')
    BY <1>5, MadeSteady DEF Clean
  <1> HIDE DEF n
  <1>7. to = "background" => InFlight(call', n + 1)
    BY <1>1 DEF InFlight
  <1>8. ASSUME NEW q \in Posters, call'[q].op = "background", call'[q] # call[q]
        PROVE  /\ call'[q].task = n + 1 /\ call[q].op # "background"
               /\ log'.posts[n + 1].by = q
               /\ ~ call'[q].seen =>
                     \A j \in 1 .. Len(threads') :
                         log'.posts[n + 1].thread = j => ~ HasHandler(threads'[j])
    BY <1>1, <1>2, <1>3, <1>8
  <1>9. \A q \in Posters : call[q].op = "background" => call'[q] = call[q]
    BY <1>1
  <1>10. \A i \in 1 .. Len(threads') : Lists(threads'[i], log', call', i)
    <2>1. /\ \A k \in 1 .. n : k \in 1 .. Len(log'.posts) /\ log'.posts[k] = log.posts[k]
          /\ \A k \in 1 .. Len(log'.posts) :
                 \/ k \in 1 .. n
                 \/ k = n + 1 /\ (log'.posts[k].to = "background" => InFlight(call', k))
      BY <1>2, <1>3, <1>7
    <2> QED  BY <1>1, <1>6, <1>8, <1>9, <2>1, QuietLists DEF n
  <1>11. \A q \in Posters : HomeCall(call'[q], q, threads', log')
    <2>1. ASSUME NEW q \in Posters, q # p
          PROVE  HomeCall(call'[q], q, threads', log')
      <3>1. HomeCall(call[q], q, threads, log) /\ Aims(call[q], threads)
        BY DEF Posting, Clean, Calling
      <3> QED  BY <1>1, <1>3, <1>6, <2>1, <3>1, HomeCallStays DEF n
    <2>2. HomeCall(call'[p], p, threads', log')
      <3>1. ASSUME to = "background"
            PROVE  /\ call'[p].seen => threads'[Current].stage # "new"
                   /\ ForThread(log', n + 1, Current)
                   /\ log'.posts[n + 1].by = p /\ log'.posts[n + 1].delay = call'[p].delay
        BY <1>1, <1>2, <1>3, <3>1 DEF HasHandler, ForThread
      <3>2. to = "gui" => ForGUI(log', n + 1)
        BY <1>2, <1>3 DEF ForGUI
      <3> QED  BY <1>1, <3>1, <3>2 DEF HomeCall
    <2> QED  BY <2>1, <2>2
  <1>12. HomeGUI'
    <2>1. HomeGUI
      BY DEF Posting
    <2>2. \A i \in 1 .. Len(threads') : \A t \in Range(threads'[i].postedGUI) :
              i \in 1 .. Len(threads) /\ t \in Range(threads[i].postedGUI)
      BY <1>6, EmptyRange
    <2> QED  BY <1>1, <1>3, <2>1, <2>2, HomeGUIStays DEF n
  <1>13. HomeLog'
    <2>1. HomeLog
      BY DEF Posting
    <2>2. \A k \in 1 .. Len(log'.posts) : log'.posts[k].thread \in 1 .. Len(threads')
      BY <1>2, <1>3, <1>6, <2>1 DEF HomeLog, n
    <2>3. Range(log'.ran) \subseteq 1 .. Len(log'.posts)
      BY <1>1, <1>3, <2>1 DEF HomeLog, n
    <2>4. Len(log'.posts) <= MaxTasks
      BY <1>3 DEF Tasks, n
    <2> QED  BY <2>2, <2>3, <2>4 DEF HomeLog
  <1> QED  BY <1>10, <1>11, <1>12, <1>13 DEF Posting

\* A step that posts nothing and keeps the lists.
LEMMA QuietPosting ==
    ASSUME Clean, Posting, log' \in Logs, log'.posts = log.posts, log'.ran = log.ran,
           log'.early = log.early, log.late \subseteq log'.late,
           \A i \in 1 .. Len(threads') :
               IF i \in 1 .. Len(threads) THEN Steady(threads'[i], threads[i])
               ELSE Steady(threads'[i], NewThread),
           \A i \in 1 .. Len(threads) : i \in 1 .. Len(threads'),
           \A p \in Posters : call[p].op = "background" => call'[p] = call[p],
           \A p \in Posters : call'[p] = call[p] \/ HomeCall(call'[p], p, threads', log'),
           \A p \in Posters : call'[p].op = "background" /\ call'[p] # call[p] =>
               call'[p].task = Stopping,
           HomeGUI'
    PROVE  Posting'
  <1>1. Len(log.posts) \in Nat
    BY LogTypes DEF Clean, TaskTypes
  <1>2. \A i \in 1 .. Len(threads') : Lists(threads'[i], log', call', i)
    BY QuietLists
  <1>3. \A p \in Posters : HomeCall(call'[p], p, threads', log')
    <2>1. ASSUME NEW p \in Posters, call'[p] = call[p]
          PROVE  HomeCall(call'[p], p, threads', log')
      <3>1. HomeCall(call[p], p, threads, log) /\ Aims(call[p], threads)
        BY DEF Posting, Clean, Calling
      <3>2. \A j \in 1 .. Len(threads) : threads'[j].stage = threads[j].stage
        BY DEF Steady
      <3> QED  BY <2>1, <3>1, <3>2, HomeCallStays
    <2> QED  BY <2>1
  <1>4. HomeLog'
    BY DEF Posting, HomeLog
  <1> QED  BY <1>2, <1>3, <1>4 DEF Posting

LEMMA StartServicesPosting ==
    ASSUME Clean, Posting, StartServices
    PROVE  Posting'
  <1>1. /\ MadeBecomes /\ call'["gui"].op = "forward"
        /\ call["gui"].op = "none"
        /\ \A q \in Posters : q # "gui" => call'[q] = call[q]
        /\ UNCHANGED <<gui, log>>
    BY StartServicesIs DEF Clean
  <1>2. /\ \A i \in 1 .. Len(threads') :
              IF i \in 1 .. Len(threads) THEN Steady(threads'[i], threads[i])
              ELSE Steady(threads'[i], NewThread)
        /\ \A i \in 1 .. Len(threads) : /\ i \in 1 .. Len(threads')
                                        /\ threads'[i].postedGUI = threads[i].postedGUI
        /\ \A i \in 1 .. Len(threads') : i \notin 1 .. Len(threads) => threads'[i].postedGUI = <<>>
    BY <1>1, MadeSteady DEF Clean
  <1>3. HomeCall(call'["gui"], "gui", threads', log')
    BY <1>1 DEF HomeCall
  <1>4. HomeGUI'
    BY <1>1, <1>2, EmptyRange, HomeGUIStays DEF Posting
  <1>5. log' \in Logs
    BY <1>1 DEF Clean, TaskTypes
  <1> QED  BY <1>1, <1>2, <1>3, <1>4, <1>5, QuietPosting

LEMMA StopServicesPosting ==
    ASSUME Clean, Posting, StopServices
    PROVE  Posting'
  <1>1. /\ MadeBecomes /\ call'["gui"].op = "background" /\ call'["gui"].thread = Current
        /\ call'["gui"].task = Stopping /\ ~ call'["gui"].delay
        /\ call'["gui"].seen = HasHandler(Made[Current])
        /\ call["gui"].op = "none"
        /\ \A q \in Posters : q # "gui" => call'[q] = call[q]
        /\ UNCHANGED <<gui, log>>
    BY StopServicesIs DEF Clean
  <1>2. /\ \A i \in 1 .. Len(threads') :
              IF i \in 1 .. Len(threads) THEN Steady(threads'[i], threads[i])
              ELSE Steady(threads'[i], NewThread)
        /\ \A i \in 1 .. Len(threads) : /\ i \in 1 .. Len(threads')
                                        /\ threads'[i].postedGUI = threads[i].postedGUI
        /\ \A i \in 1 .. Len(threads') : i \notin 1 .. Len(threads) => threads'[i].postedGUI = <<>>
    BY <1>1, MadeSteady DEF Clean
  <1>3. HomeCall(call'["gui"], "gui", threads', log')
    BY <1>1 DEF HomeCall, MadeBecomes, Steady, HasHandler
  <1>4. HomeGUI'
    BY <1>1, <1>2, EmptyRange, HomeGUIStays DEF Posting
  <1>5. log' \in Logs
    BY <1>1 DEF Clean, TaskTypes
  <1> QED  BY <1>1, <1>2, <1>3, <1>4, <1>5, QuietPosting

LEMMA GUIEndsPosting ==
    ASSUME Clean, Posting, NEW p \in Posters, PostGUIEnds(p)
    PROVE  Posting'
  <1> DEFINE i == call[p].thread
             t == call[p].task
  <1>1. /\ i \in 1 .. Len(threads) /\ call[p].op = "gui" /\ t \in Int
        /\ Becomes(i, threads'[i]) /\ Steady(threads'[i], threads[i])
        /\ threads'[i].postedGUI \in {threads[i].postedGUI, Append(threads[i].postedGUI, t)}
        /\ log' \in Logs /\ log'.posts = log.posts /\ log'.ran = log.ran
        /\ log'.late \in {log.late, log.late \cup {t}} /\ log'.early = log.early
        /\ call'[p].op \in {"none", "get"}
        /\ \A q \in Posters : q # p => call'[q] = call[q]
    BY GUIEndsIs DEF Clean
  <1>2. PICK delay \in BOOLEAN : gui' \in {gui, PostWithDelay(gui, t, delay)}
    BY GUIEndsIs DEF Clean
  <1>3. ForGUI(log, t)
    BY <1>1 DEF Posting, HomeCall
  <1> HIDE DEF i, t
  <1>4. /\ gui \in TaskLoops /\ gui.queue \in Seq(Int)
        /\ threads[i].postedGUI \in Seq(Int)
    BY <1>1, ThreadTypes DEF Clean, TaskTypes, TaskLoops
  <1>5. /\ Range(Append(gui.queue, t)) = Range(gui.queue) \cup {t}
        /\ Range(Append(threads[i].postedGUI, t)) = Range(threads[i].postedGUI) \cup {t}
    <2>1. gui.queue \in Seq(Int) /\ threads[i].postedGUI \in Seq(Int) /\ t \in Int
      BY <1>1, <1>4
    <2>2. Range(Append(gui.queue, t)) = Range(gui.queue) \cup {t}
      BY <2>1, AppendKeeps
    <2>3. Range(Append(threads[i].postedGUI, t)) = Range(threads[i].postedGUI) \cup {t}
      BY <2>1, AppendKeeps
    <2> QED  BY <2>2, <2>3
  <1>6. \A x \in GUITasks(gui') : x \in GUITasks(gui) \/ ForGUI(log, x)
    <2> DEFINE g == PostWithDelay(gui, t, delay)
    <2>1. /\ g.queue = IF gui.quit \/ delay THEN gui.queue ELSE Append(gui.queue, t)
          /\ g.delayed = IF gui.quit \/ ~ delay THEN gui.delayed ELSE gui.delayed \cup {t}
      BY <1>1, <1>4, LoopPostWithDelay
    <2>2. gui' = gui \/ gui' = g
      BY <1>2
    <2> HIDE DEF g
    <2> QED  BY <1>3, <1>5, <2>1, <2>2 DEF GUITasks
  <1>7. Len(threads') = Len(threads) /\ \A j \in 1 .. Len(threads) : j # i => threads'[j] = threads[j]
    BY <1>1 DEF Becomes
  <1>8. HomeGUI'
    <2>1. \A j \in 1 .. Len(threads') : \A x \in Range(threads'[j].postedGUI) :
              ForGUI(log, x) \/ (j \in 1 .. Len(threads) /\ x \in Range(threads[j].postedGUI))
      BY <1>1, <1>3, <1>5, <1>7
    <2> QED  BY <1>1, <1>6, <2>1, HomeGUIStays DEF Posting
  <1>9. \A j \in 1 .. Len(threads) : Steady(threads'[j], threads[j])
    BY <1>1, <1>7 DEF Steady
  <1>10. HomeCall(call'[p], p, threads', log')
    BY <1>1 DEF HomeCall
  <1> QED  BY <1>1, <1>7, <1>8, <1>9, <1>10, QuietPosting

LEMMA ForwardPosting ==
    ASSUME Clean, Posting, Forward
    PROVE  Posting'
  <1>1. /\ call'["gui"] = NoCall /\ call["gui"].op = "forward"
        /\ \A q \in Posters : q # "gui" => call'[q] = call[q]
        /\ UNCHANGED <<threads, instance, log>>
    BY ForwardIs DEF Clean
  <1>2. PICK i \in 1 .. Len(threads) : gui' = PostAll(gui, threads[i].postedGUI)
    BY ForwardIs DEF Clean
  <1>3. /\ gui \in TaskLoops /\ gui.queue \in Seq(Int) /\ threads[i].postedGUI \in Seq(Int)
        /\ log' \in Logs
    BY <1>1, ThreadTypes DEF Clean, TaskTypes, TaskLoops
  <1>4. /\ gui'.queue = IF gui.quit THEN gui.queue ELSE gui.queue \o threads[i].postedGUI
        /\ gui'.delayed = gui.delayed
    BY <1>2, <1>3, LoopPostAll
  <1>5. Range(gui.queue \o threads[i].postedGUI) = Range(gui.queue) \cup Range(threads[i].postedGUI)
    BY <1>3, RangeOfConcat
  <1>6. \A t \in Range(threads[i].postedGUI) : ForGUI(log, t)
    BY DEF Posting, HomeGUI
  <1>7. \A t \in GUITasks(gui') : t \in GUITasks(gui) \/ ForGUI(log, t)
    BY <1>4, <1>5, <1>6 DEF GUITasks
  <1>8. HomeGUI'
    BY <1>1, <1>7, HomeGUIStays DEF Posting
  <1>9. HomeCall(call'["gui"], "gui", threads', log') /\ NoCall.op = "none"
    BY <1>1, NoCallIs DEF HomeCall
  <1>10. \A j \in 1 .. Len(threads) : Steady(threads'[j], threads[j])
    BY <1>1 DEF Steady
  <1> QED  BY <1>1, <1>3, <1>8, <1>9, <1>10, QuietPosting

LEMMA SyncPosting ==
    ASSUME Clean, Posting, (\E p \in Posters : Get(p) \/ Lock(p)) \/ Notify \/ UNCHANGED vars
    PROVE  Posting'
  <1>1. /\ \A q \in Posters : \/ call'[q] = call[q]
                              \/ call[q].op \in Waits /\ call'[q].op \in Waits \cup {"none"}
        /\ UNCHANGED <<threads, instance, gui, services, log>>
    BY SyncIs DEF Clean
  <1>2. \A q \in Posters : call'[q] = call[q] \/ HomeCall(call'[q], q, threads', log')
    BY <1>1 DEF Waits, HomeCall
  <1>3. /\ \A q \in Posters : call[q].op = "background" => call'[q] = call[q]
        /\ \A q \in Posters : call'[q].op = "background" => call'[q] = call[q]
    BY <1>1 DEF Waits
  <1>4. HomeGUI' /\ log' \in Logs /\ \A j \in 1 .. Len(threads) : Steady(threads'[j], threads[j])
    BY <1>1 DEF Posting, HomeGUI, Clean, TaskTypes, Steady
  <1> QED  BY <1>1, <1>2, <1>3, <1>4, QuietPosting

\* The GUI thread takes one of its own tasks.
LEMMA RunGUIPosting ==
    ASSUME Clean, Posting, RunGUI
    PROVE  Posting'
  <1>1. /\ GUITasks(gui') \subseteq GUITasks(gui)
        /\ log' \in Logs /\ log'.posts = log.posts /\ log'.late = log.late
        /\ log'.early = log.early
        /\ call["gui"].op = "none" /\ call'["gui"].op \in {"none", "notify"}
        /\ \A q \in Posters : q # "gui" => call'[q] = call[q]
        /\ UNCHANGED <<threads, instance, services>>
    BY RunGUIIs DEF Clean
  <1>2. PICK t \in GUITasks(gui) : t \in Int /\ log'.ran = Append(log.ran, t)
    BY RunGUIIs DEF Clean
  <1>3. ForGUI(log, t)
    BY DEF Posting, HomeGUI
  <1>4. log \in Logs /\ log.ran \in Seq(Int)
    BY LogTypes DEF Clean, TaskTypes
  <1>5. \A i : ~ ForThread(log, t, i)
    BY <1>3 DEF ForGUI, ForThread
  <1>6. /\ \A q \in Posters : call[q].op = "background" => call'[q] = call[q]
        /\ \A q \in Posters : call'[q].op = "background" => call'[q] = call[q]
    BY <1>1
  <1>7. \A i \in 1 .. Len(threads) : Lists(threads[i], log', call', i)
    <2>1. ASSUME NEW i \in 1 .. Len(threads)
          PROVE  Lists(threads[i], log', call', i)
      <3>1. Lists(threads[i], log, call, i)
        BY DEF Posting
      <3> QED  BY <1>1, <1>2, <1>4, <1>5, <1>6, <3>1, LongerLog
    <2> QED  BY <2>1
  <1>8. \A q \in Posters : HomeCall(call'[q], q, threads', log')
    BY <1>1 DEF Posting, HomeCall, ForThread, ForGUI
  <1>9. HomeGUI'
    BY <1>1 DEF Posting, HomeGUI, ForGUI
  <1>10. Range(log'.ran) = Range(log.ran) \cup {t}
    BY <1>2, <1>4, AppendKeeps
  <1>11. HomeLog'
    BY <1>1, <1>3, <1>10 DEF Posting, HomeLog, ForGUI
  <1> QED  BY <1>1, <1>7, <1>8, <1>9, <1>11 DEF Posting

\* A step of the thread i, or a call that ends and had a task for it.
LEMMA ThreadPosting ==
    ASSUME Clean, Posting, NEW i \in 1 .. Len(threads), Becomes(i, threads'[i]),
           Lists(threads'[i], log', call', i),
           threads'[i].postedGUI = threads[i].postedGUI, gui' = gui,
           threads'[i].stage = "new" => threads[i].stage = "new",
           log' \in Logs, log'.posts = log.posts, log.late \subseteq log'.late,
           log.early \subseteq log'.early,
           \/ log'.ran = log.ran
           \/ \E t \in Int : log'.ran = Append(log.ran, t) /\ ForThread(log, t, i),
           \A p \in Posters :
               \/ call'[p] = call[p]
               \/ /\ call'[p].op = "none"
                  /\ call[p].task = Stopping \/ ForThread(log, call[p].task, i)
    PROVE  Posting'
  <1>1. /\ Len(threads') = Len(threads)
        /\ \A j \in 1 .. Len(threads) : j # i => threads'[j] = threads[j]
    BY DEF Becomes
  <1>2. log \in Logs /\ log.ran \in Seq(Int) /\ Len(log.posts) \in Nat
    BY LogTypes DEF Clean, TaskTypes
  <1>3. \A p \in Posters : call'[p].op = "background" => call'[p] = call[p]
    OBVIOUS
  <1>4. ASSUME NEW j \in 1 .. Len(threads), j # i
        PROVE  Lists(threads'[j], log', call', j)
    <2>1. Lists(threads[j], log, call, j)
      BY DEF Posting
    <2>2. \A t : ForThread(log, t, i) => ~ ForThread(log, t, j)
      BY <1>4 DEF ForThread
    <2>3. \/ log'.ran = log.ran
          \/ \E t \in Int : log'.ran = Append(log.ran, t) /\ ~ ForThread(log, t, j)
      BY <2>2
    <2>4. \A p \in Posters : call[p].op = "background" =>
              call'[p] = call[p] \/ ~ Kept(log', call[p].task, j)
      BY <1>2, <2>2 DEF Kept, ForThread, Stopping
    <2>5. Lists(threads[j], log', call', j)
      BY <1>2, <1>3, <2>1, <2>3, <2>4, LongerLog
    <2> QED  BY <1>1, <1>4, <2>5
  <1>5. \A j \in 1 .. Len(threads') : Lists(threads'[j], log', call', j)
    BY <1>1, <1>4
  <1>6. \A p \in Posters : HomeCall(call'[p], p, threads', log')
    <2>1. ASSUME NEW p \in Posters, call'[p] = call[p]
          PROVE  HomeCall(call'[p], p, threads', log')
      <3>1. HomeCall(call[p], p, threads, log) /\ Aims(call[p], threads)
        BY DEF Posting, Clean, Calling
      <3>2. \A j \in 1 .. Len(threads) : threads'[j].stage = "new" => threads[j].stage = "new"
        BY <1>1
      <3> QED  BY <2>1, <3>1, <3>2, HomeCallStays
    <2>2. ASSUME NEW p \in Posters, call'[p].op = "none"
          PROVE  HomeCall(call'[p], p, threads', log')
      BY <2>2 DEF HomeCall
    <2> QED  BY <2>1, <2>2
  <1>7. HomeGUI'
    <2>1. \A j \in 1 .. Len(threads) : threads'[j].postedGUI = threads[j].postedGUI
      BY <1>1
    <2> QED  BY <1>1, <2>1 DEF Posting, HomeGUI, ForGUI
  <1>8. Range(log'.ran) \subseteq 1 .. Len(log.posts)
    <2>1. Range(log.ran) \subseteq 1 .. Len(log.posts)
      BY DEF Posting, HomeLog
    <2>2. CASE log'.ran # log.ran
      <3>1. PICK t \in Int : log'.ran = Append(log.ran, t) /\ ForThread(log, t, i)
        BY <2>2
      <3>2. Range(log'.ran) = Range(log.ran) \cup {t}
        BY <1>2, <3>1, AppendKeeps
      <3> QED  BY <2>1, <3>1, <3>2 DEF ForThread
    <2> QED  BY <2>1, <2>2
  <1>9. HomeLog'
    BY <1>1, <1>8 DEF Posting, HomeLog
  <1> QED  BY <1>5, <1>6, <1>7, <1>9 DEF Posting

\* The stage goes on; the list is still to be copied, or has been.
LEMMA StageLists ==
    ASSUME NEW b, NEW T, NEW i, Lists(b, log, call, i),
           T.loop = b.loop, T.posted = b.posted, Fresh(T) <=> Fresh(b), T.stage # "new"
    PROVE  Lists(T, log, call, i)
  <1>1. HomeLists(T, log, i)
    BY DEF Lists, HomeLists
  <1>2. NotYet(T, log, i)
    BY DEF Lists, NotYet
  <1>3. Placed(T, log, call, i)
    BY DEF Lists, Placed
  <1>4. Orders(T, log, call, i)
    BY DEF Lists, Orders
  <1> QED  BY <1>1, <1>2, <1>3, <1>4 DEF Lists

LEMMA StagePosting ==
    ASSUME Clean, Posting, NEW i \in 1 .. Len(threads), Prepare(i) \/ Leave(i) \/ End(i)
    PROVE  Posting'
  <1>1. PICK s \in {"handler", "left", "ended"} :
           /\ threads' = [threads EXCEPT ![i].stage = s]
           /\ s = "handler" => threads[i].stage = "new"
           /\ s # "handler" => threads[i].stage \in {"looping", "left"}
    BY DEF Prepare, Leave, End
  <1>2. /\ Becomes(i, threads'[i]) /\ threads'[i].stage = s
        /\ threads'[i].loop = threads[i].loop /\ threads'[i].posted = threads[i].posted
        /\ threads'[i].postedGUI = threads[i].postedGUI
    BY <1>1, StageBecomes DEF Clean
  <1>3. UNCHANGED <<gui, call, services, log>>
    BY DEF Prepare, Leave, End
  <1>4. Lists(threads[i], log, call, i)
    BY DEF Posting
  <1>5. Fresh(threads'[i]) <=> Fresh(threads[i])
    BY <1>1, <1>2 DEF Fresh
  <1>6. Lists(threads'[i], log, call, i)
    BY <1>1, <1>2, <1>4, <1>5, StageLists
  <1>7. log' \in Logs
    BY <1>3 DEF Clean, TaskTypes
  <1> QED  BY <1>1, <1>2, <1>3, <1>6, <1>7, ThreadPosting

\* The list goes behind the queue, in its order.
LEMMA CopyLists ==
    ASSUME NEW b \in Threads, NEW T, NEW L \in Logs, NEW calls, NEW i, Lists(b, L, calls, i),
           Fresh(b), T.stage = "looping", T.posted = <<>>, T.loop = PostAll(b.loop, b.posted)
    PROVE  Lists(T, L, calls, i)
  <1>1. b.loop \in TaskLoops /\ b.posted \in Seq(Int) /\ b.loop.queue \in Seq(Int) /\ ~ b.loop.quit
    BY DEF Threads, TaskLoops, Lists, NotYet
  <1>2. T.loop.queue = b.loop.queue \o b.posted /\ T.loop.delayed = b.loop.delayed /\ ~ T.loop.quit
    <2> DEFINE l == PostAll(b.loop, b.posted)
    <2>1. /\ l.queue = IF b.loop.quit THEN b.loop.queue ELSE b.loop.queue \o b.posted
          /\ l.delayed = b.loop.delayed /\ l.quit = b.loop.quit
      BY <1>1, LoopPostAll
    <2>2. T.loop = l
      OBVIOUS
    <2> HIDE DEF l
    <2> QED  BY <1>1, <2>1, <2>2
  <1>3. Range(T.loop.queue) = Range(b.loop.queue) \cup Range(b.posted)
    BY <1>1, <1>2, RangeOfConcat
  <1>4. ~ Fresh(T)
    BY DEF Fresh
  <1>5. HomeLists(T, L, i)
    BY <1>2, <1>3, EmptyRange DEF Lists, HomeLists
  <1>6. NotYet(T, L, i)
    BY <1>4 DEF NotYet
  <1>7. Placed(T, L, calls, i)
    BY <1>1, <1>3 DEF Lists, Placed
  <1>8. ASSUME NEW a \in 1 .. Len(L.posts), NEW c \in 1 .. Len(L.posts), Pair(L, a, c, i),
               c \notin L.early
        PROVE  Follows(L.ran, {}, a, c) /\ Follows(T.loop.queue, Range(L.ran), a, c)
    <2>1. /\ Follows(L.ran, {}, a, c) /\ Follows(b.loop.queue, Range(L.ran), a, c)
          /\ Follows(b.posted, {}, a, c)
      BY <1>8 DEF Lists, Orders
    <2> QED  BY <1>1, <1>2, <2>1, FollowsConcat
  <1>9. Orders(T, L, calls, i)
    BY <1>4, <1>8 DEF Orders
  <1> QED  BY <1>5, <1>6, <1>7, <1>9 DEF Lists

LEMMA CopyPosting ==
    ASSUME Clean, Posting, NEW i \in 1 .. Len(threads), Copy(i)
    PROVE  Posting'
  <1>1. /\ Becomes(i, threads'[i]) /\ threads[i].stage = "handler"
        /\ threads'[i].stage = "looping" /\ threads'[i].posted = <<>>
        /\ threads'[i].loop = PostAll(threads[i].loop, threads[i].posted)
        /\ threads'[i].postedGUI = threads[i].postedGUI
        /\ UNCHANGED <<instance, gui, call, services, log>>
    BY CopyIs DEF Clean
  <1>2. threads[i] \in Threads /\ log \in Logs /\ Lists(threads[i], log, call, i) /\ Fresh(threads[i])
    BY <1>1, ThreadTypes DEF Clean, TaskTypes, Posting, Fresh
  <1>3. Lists(threads'[i], log, call, i)
    BY <1>1, <1>2, CopyLists
  <1> QED  BY <1>1, <1>2, <1>3, ThreadPosting

\* The loop takes a task of the queue, the first, or a delayed one.
LEMMA RunBackgroundPosting ==
    ASSUME Clean, Posting, NEW i \in 1 .. Len(threads), RunBackground(i)
    PROVE  Posting'
  <1> DEFINE b == threads[i]
             T == threads'[i]
             n == Len(log.posts)
  <1>1. /\ Becomes(i, T)
        /\ b.stage = "looping"
        /\ log' \in Logs
        /\ UNCHANGED <<instance, gui, call>>
    BY RunBackgroundIs DEF Clean
  <1>2. PICK t \in Int : Takes(t, b, T)
    BY RunBackgroundIs DEF Clean
  <1>3. /\ b.loop.queue \in Seq(Int) /\ log \in Logs /\ log.ran \in Seq(Int) /\ n \in Nat
        /\ Lists(b, log, call, i) /\ HomeLog
    BY ThreadTypes, LogTypes DEF Clean, TaskTypes, Posting
  <1>4. /\ T.stage = b.stage /\ T.postedGUI = b.postedGUI /\ T.posted = b.posted
        /\ T.loop.delayed \subseteq b.loop.delayed
        /\ ~ T.loop.quit => t # Quitting /\ ~ b.loop.quit
        /\ log'.posts = log.posts /\ log'.late = log.late /\ log'.early = log.early
        /\ t \in Tasks => log'.ran = Append(log.ran, t)
        /\ t \notin Tasks => log'.ran = log.ran
    BY <1>2 DEF Takes, Alike
  <1>5. PICK q \in Seq(Int) :
             /\ \/ t \in b.loop.delayed /\ q = b.loop.queue
                \/ b.loop.queue # <<>> /\ t = Head(b.loop.queue) /\ q = Tail(b.loop.queue)
             /\ T.loop.queue = q \/ (t = Stopping /\ T.loop.queue = Append(q, Quitting))
    BY <1>2 DEF Takes
  <1>6. b.loop.queue # <<>> =>
            Range(b.loop.queue) = Range(Tail(b.loop.queue)) \cup {Head(b.loop.queue)}
    BY <1>3, TailKeeps
  <1>7. /\ Range(q) \subseteq Range(b.loop.queue) /\ Range(b.loop.queue) \subseteq Range(q) \cup {t}
        /\ t \in b.loop.delayed \/ t \in Range(b.loop.queue)
        /\ t \in b.loop.delayed \/ t \notin b.loop.delayed
    BY <1>5, <1>6
  <1>8. Quitting \in Int /\ Quitting < 1 /\ Stopping < 1
    BY DEF Quitting, Stopping
  <1>9. Range(Append(q, Quitting)) = Range(q) \cup {Quitting}
    BY <1>5, <1>8, AppendKeeps
  <1>10. /\ Range(q) \subseteq Range(T.loop.queue)
         /\ Range(T.loop.queue) \subseteq Range(q) \cup {Quitting}
    <2>1. T.loop.queue = q \/ T.loop.queue = Append(q, Quitting)
      BY <1>5
    <2>2. CASE T.loop.queue = q
      BY <2>2
    <2>3. CASE T.loop.queue = Append(q, Quitting)
      BY <1>9, <2>3, Zenon
    <2> QED  BY <2>1, <2>2, <2>3
  <1>11. Range(Append(log.ran, t)) = Range(log.ran) \cup {t}
    <2>1. log.ran \in Seq(Int)
      BY <1>3
    <2> QED  BY <2>1, AppendKeeps
  <1>12. Range(log.ran) \subseteq Range(log'.ran) /\ (t \in Tasks => t \in Range(log'.ran))
    BY <1>4, <1>11
  <1>13. n <= MaxTasks /\ MaxTasks \in Nat /\ \A k \in 1 .. n : k \in Tasks
    BY <1>3, BackgroundThreadAssumption DEF HomeLog, Tasks
  <1> HIDE DEF b, T, n
  <1>14. /\ \A x \in Range(b.loop.queue) \cup Range(b.posted) : x < 1 \/ ForThread(log, x, i)
         /\ \A x \in b.loop.delayed : ForThread(log, x, i) /\ log.posts[x].delay
    BY <1>3 DEF Lists, HomeLists
  <1>15. t \in Tasks => ForThread(log, t, i)
    BY <1>7, <1>14 DEF Tasks
  <1>16. \A x : ForThread(log', x, i) <=> ForThread(log, x, i)
    BY <1>4 DEF ForThread
  <1>17. HomeLists(T, log', i)
    BY <1>4, <1>7, <1>8, <1>10, <1>14, <1>16 DEF HomeLists
  <1>18. ~ Fresh(T) /\ ~ Fresh(b) /\ NotYet(T, log', i)
    BY <1>1, <1>4 DEF Fresh, NotYet
  <1>19. \A x : Kept(log', x, i) => Kept(log, x, i) /\ x \in 1 .. n
    BY <1>4, <1>16 DEF Kept, ForThread, n
  <1>20. Placed(T, log', call', i)
    <2> SUFFICES ASSUME ~ T.loop.quit, NEW a \in 1 .. Len(log'.posts), Kept(log', a, i),
                        ~ InFlight(call', a)
                 PROVE  a \in Range(log'.ran) \cup Range(T.loop.queue)
      BY DEF Placed
    <2>1. Kept(log, a, i) /\ a \in 1 .. n /\ ~ InFlight(call, a) /\ ~ b.loop.quit
      BY <1>1, <1>4, <1>19
    <2>2. a \in Range(log.ran) \cup Range(b.loop.queue)
      BY <1>3, <1>18, <2>1 DEF Lists, Placed, n
    <2>3. a \in Tasks
      BY <1>13, <2>1
    <2> QED  BY <1>7, <1>10, <1>12, <2>2, <2>3
  <1>21. ASSUME NEW a \in 1 .. Len(log'.posts), NEW c \in 1 .. Len(log'.posts), Pair(log', a, c, i),
                c \notin log'.early
         PROVE  Follows(log'.ran, {}, a, c) /\ Follows(T.loop.queue, Range(log'.ran), a, c)
    <2>1. /\ Kept(log, a, i) /\ a < c /\ log.posts[a] = log.posts[c] /\ a \in 1 .. n /\ c \in 1 .. n
          /\ ~ log.posts[c].delay
      BY <1>4, <1>19, <1>21 DEF Pair, Kept, n
    <2>2. Pair(log, a, c, i)
      BY <2>1 DEF Pair, n
    <2>3. Follows(log.ran, {}, a, c) /\ Follows(b.loop.queue, Range(log.ran), a, c)
      BY <1>3, <1>4, <1>21, <2>1, <2>2 DEF Lists, Orders, n
    <2>4. /\ t = c => a \in Range(log.ran)
          /\ Follows(q, Range(log.ran) \cup {t}, a, c)
      <3>1. CASE t \in b.loop.delayed /\ q = b.loop.queue
        <4>1. t # c
          BY <1>14, <2>1, <3>1
        <4>2. Follows(q, Range(log.ran) \cup {t}, a, c)
          BY <2>3, <3>1, FollowsMore
        <4> QED  BY <4>1, <4>2
      <3>2. CASE b.loop.queue # <<>> /\ t = Head(b.loop.queue) /\ q = Tail(b.loop.queue)
        BY <1>3, <2>3, <3>2, FollowsTail
      <3> QED  BY <1>5, <3>1, <3>2
    <2>5. Follows(log'.ran, {}, a, c)
      <3>1. CASE t \in Tasks
        BY <1>2, <1>3, <1>4, <2>3, <2>4, <3>1, FollowsAppend
      <3>2. CASE t \notin Tasks
        BY <1>4, <2>3, <3>2
      <3> QED  BY <3>1, <3>2
    <2>6. a \in Tasks
      BY <1>13, <2>1
    <2>7. a \in Range(log.ran) \cup {t} => a \in Range(log'.ran)
      BY <1>12, <2>6
    <2>8. Follows(q, Range(log'.ran), a, c)
      BY <2>4, <2>7 DEF Follows
    <2>9. c # Quitting
      BY <1>3, <1>8, <2>1
    <2>10. Follows(Append(q, Quitting), Range(log'.ran), a, c)
      BY <1>5, <1>8, <2>8, <2>9, FollowsAppend
    <2> QED  BY <1>5, <2>5, <2>8, <2>10
  <1>22. Orders(T, log', call', i)
    BY <1>18, <1>21 DEF Orders
  <1>23. Lists(T, log', call', i)
    BY <1>17, <1>18, <1>20, <1>22 DEF Lists
  <1>24. \/ log'.ran = log.ran
         \/ \E x \in Int : log'.ran = Append(log.ran, x) /\ ForThread(log, x, i)
    BY <1>2, <1>4, <1>15
  <1> QED  BY <1>1, <1>4, <1>23, <1>24, ThreadPosting DEF b, T

\* A task that was posted goes to its place.
LEMMA BackgroundEndsPosting ==
    ASSUME Clean, Posting, NEW p \in Posters, PostBackgroundEnds(p)
    PROVE  Posting'
  <1> DEFINE c == call[p]
             i == c.thread
             t == c.task
             b == threads[i]
             T == threads'[i]
             n == Len(log.posts)
             l == PostWithDelay(b.loop, t, c.delay)
  <1>1. /\ i \in 1 .. Len(threads) /\ c.op = "background" /\ t \in Int
        /\ Becomes(i, T) /\ TaskEnds(c, t, b, T)
        /\ log' \in Logs /\ log'.posts = log.posts /\ log'.ran = log.ran
        /\ call'[p] = NoCall /\ \A q \in Posters : q # p => call'[q] = call[q]
        /\ UNCHANGED <<instance, gui, services>>
    BY BackgroundEndsIs DEF Clean
  <1>2. /\ b.loop \in TaskLoops /\ b.loop.queue \in Seq(Int) /\ b.posted \in Seq(Int)
        /\ c.delay \in BOOLEAN /\ log \in Logs /\ n \in Nat
        /\ Lists(b, log, call, i) /\ Good(b)
    BY <1>1, ThreadTypes, CallTypes, LogTypes DEF Clean, TaskTypes, AllGood, Posting
  <1>3. \A q \in Posters : HomeCall(call[q], q, threads, log)
    BY DEF Posting
  <1>4. /\ c.seen => b.stage # "new"
        /\ \/ t = Stopping /\ ~ c.delay
           \/ ForThread(log, t, i) /\ log.posts[t].by = p /\ log.posts[t].delay = c.delay
    BY <1>1, <1>3 DEF HomeCall
  <1>5. /\ l.queue = IF b.loop.quit \/ c.delay THEN b.loop.queue ELSE Append(b.loop.queue, t)
        /\ l.delayed = IF b.loop.quit \/ ~ c.delay THEN b.loop.delayed ELSE b.loop.delayed \cup {t}
        /\ l.quit = b.loop.quit
    BY <1>1, <1>2, LoopPostWithDelay
  <1>6. T.stage = b.stage /\ T.postedGUI = b.postedGUI
    BY <1>1, Zenon DEF TaskEnds, Alike
  <1>7. \/ /\ ~ c.seen /\ T.loop = b.loop /\ T.posted = Append(b.posted, t)
           /\ log'.early = log.early
           /\ Fresh(b) => log'.late = log.late
           /\ ~ Fresh(b) => log'.late = log.late \cup {t}
        \/ /\ c.seen /\ HasHandler(b) /\ T.posted = b.posted
           /\ T.loop = l
           /\ log'.late = log.late
           /\ log'.early \in {log.early, log.early \cup {t}}
           /\ b.stage = "handler" => t \in log'.early
        \/ /\ c.seen /\ ~ HasHandler(b) /\ T.loop = b.loop /\ T.posted = b.posted
           /\ log'.late = log.late /\ log'.early = log.early
    BY <1>1, Zenon DEF TaskEnds
  <1> HIDE DEF b, T, l, t, i, n
  <1>8. log.late \subseteq log'.late /\ log.early \subseteq log'.early
    BY <1>7
  <1>9. /\ \A x : ForThread(log', x, i) <=> ForThread(log, x, i)
        /\ \A x : Kept(log', x, i) => Kept(log, x, i) /\ x \in 1 .. n
    BY <1>1, <1>8 DEF Kept, ForThread, n
  <1>10. \A a, d : Pair(log', a, d, i) => Pair(log, a, d, i) /\ a \in 1 .. n /\ d \in 1 .. n
    BY <1>1, <1>9 DEF Pair, n
  <1>11. \A a : InFlight(call, a) => InFlight(call', a) \/ a = t
    BY <1>1 DEF InFlight, t
  <1>12. \A q \in Posters : call'[q].op = "background" => call'[q] = call[q]
    BY <1>1, NoCallIs
  <1>13. /\ Range(Append(b.posted, t)) = Range(b.posted) \cup {t}
         /\ Range(Append(b.loop.queue, t)) = Range(b.loop.queue) \cup {t}
    <2>1. t \in Int /\ b.posted \in Seq(Int) /\ b.loop.queue \in Seq(Int)
      BY <1>1, <1>2
    <2> QED  BY <2>1, AppendKeeps
  <1>14. t < 1 \/ ForThread(log, t, i)
    BY <1>4 DEF Stopping
  <1>15. /\ Fresh(T) <=> Fresh(b)
         /\ Fresh(b) => ~ b.loop.quit /\ \A x \in Range(log.ran) : ~ ForThread(log, x, i)
         /\ b.stage = "new" => b.loop.queue = <<>>
    BY <1>2, <1>6 DEF Lists, NotYet, Fresh
  <1>16. ~ b.loop.quit => \A a \in 1 .. n : Kept(log, a, i) /\ ~ InFlight(call, a) =>
             a \in Range(log.ran) \cup Range(b.loop.queue) \/ (Fresh(b) /\ a \in Range(b.posted))
    BY <1>2 DEF Lists, Placed, n
  <1>17. \A a, d \in 1 .. n : Pair(log, a, d, i) =>
             /\ d \notin log.early => /\ Follows(log.ran, {}, a, d)
                                      /\ Follows(b.loop.queue, Range(log.ran), a, d)
             /\ Fresh(b) =>
                   /\ Follows(b.posted, {}, a, d)
                   /\ \A q \in Posters :
                         call[q].op = "background" /\ call[q].task = d /\ ~ call[q].seen
                             => a \in Range(b.posted)
    BY <1>2 DEF Lists, Orders, n
  <1>18. ASSUME /\ ~ c.seen /\ T.loop = b.loop /\ T.posted = Append(b.posted, t)
                /\ log'.early = log.early
                /\ Fresh(b) => log'.late = log.late
                /\ ~ Fresh(b) => log'.late = log.late \cup {t}
         PROVE  Lists(T, log', call', i)
    <2>1. HomeLists(T, log', i)
      <3>1. HomeLists(b, log, i) /\ log'.posts = log.posts
        BY <1>1, <1>2 DEF Lists
      <3>2. \A x \in Range(T.loop.queue) \cup Range(T.posted) : x < 1 \/ ForThread(log, x, i)
        BY <1>13, <1>14, <1>18, <3>1 DEF HomeLists
      <3>3. \A x \in T.loop.delayed : ForThread(log, x, i) /\ log.posts[x].delay
        BY <1>18, <3>1 DEF HomeLists
      <3> QED  BY <1>9, <3>1, <3>2, <3>3, Zenon DEF HomeLists
    <2>2. NotYet(T, log', i)
      BY <1>1, <1>6, <1>9, <1>15, <1>18 DEF NotYet
    <2>3. Placed(T, log', call', i)
      <3>1. ~ Fresh(b) => ~ Kept(log', t, i)
        BY <1>18 DEF Kept
      <3> QED  BY <1>1, <1>9, <1>11, <1>13, <1>15, <1>16, <1>18, <3>1 DEF Placed
    <2>4. Orders(T, log', call', i)
      <3>1. ASSUME NEW a \in 1 .. n, NEW d \in 1 .. n, Pair(log', a, d, i), Fresh(T)
            PROVE  /\ Follows(T.posted, {}, a, d)
                   /\ \A q \in Posters :
                         call'[q].op = "background" /\ call'[q].task = d /\ ~ call'[q].seen
                             => a \in Range(T.posted)
        <4>1. /\ Follows(b.posted, {}, a, d)
              /\ \A q \in Posters :
                    call[q].op = "background" /\ call[q].task = d /\ ~ call[q].seen
                        => a \in Range(b.posted)
          BY <1>10, <1>15, <1>17, <3>1
        <4>2. t = d => a \in Range(b.posted)
          BY <1>1, <1>18, <4>1 DEF t
        <4>3. Follows(Append(b.posted, t), {}, a, d)
          BY <1>1, <1>2, <4>1, <4>2, FollowsAppend
        <4> QED  BY <1>12, <1>13, <1>18, <4>1, <4>3
      <3> QED  BY <1>1, <1>10, <1>17, <1>18, <3>1 DEF Orders, n
    <2> QED  BY <2>1, <2>2, <2>3, <2>4 DEF Lists
  <1>19. ASSUME /\ c.seen /\ HasHandler(b) /\ T.posted = b.posted
                /\ T.loop = l
                /\ log'.late = log.late
                /\ log'.early \in {log.early, log.early \cup {t}}
                /\ b.stage = "handler" => t \in log'.early
         PROVE  Lists(T, log', call', i)
    <2>1. HomeLists(T, log', i)
      <3>1. c.delay => ForThread(log, t, i) /\ log.posts[t].delay
        BY <1>4
      <3> QED  BY <1>1, <1>2, <1>5, <1>9, <1>13, <1>14, <1>19, <3>1 DEF Lists, HomeLists
    <2>2. NotYet(T, log', i)
      BY <1>1, <1>4, <1>5, <1>6, <1>9, <1>15, <1>19 DEF NotYet
    <2>3. ~ b.loop.quit /\ Kept(log, t, i) => t \in Range(l.queue)
      <3>1. Kept(log, t, i) => ~ c.delay
        BY <1>4, <1>9 DEF Kept, ForThread, Stopping
      <3> QED  BY <1>5, <1>13, <3>1
    <2>4. Range(b.loop.queue) \subseteq Range(l.queue)
      BY <1>5, <1>13
    <2>5. Placed(T, log', call', i)
      BY <1>1, <1>5, <1>9, <1>11, <1>15, <1>16, <1>19, <2>3, <2>4 DEF Placed
    <2>6. Orders(T, log', call', i)
      <3>1. ASSUME NEW a \in 1 .. n, NEW d \in 1 .. n, Pair(log', a, d, i), d \notin log'.early
            PROVE  Follows(log.ran, {}, a, d) /\ Follows(l.queue, Range(log.ran), a, d)
        <4>1. /\ Follows(log.ran, {}, a, d) /\ Follows(b.loop.queue, Range(log.ran), a, d)
              /\ Kept(log, a, i) /\ a < d /\ log.posts[a] = log.posts[d]
          BY <1>8, <1>10, <1>17, <3>1 DEF Pair
        <4>2. CASE l.queue = b.loop.queue
          BY <4>1, <4>2
        <4>3. CASE l.queue # b.loop.queue
          <5>1. l.queue = Append(b.loop.queue, t) /\ ~ b.loop.quit
            BY <1>5, <4>3
          <5>2. ASSUME t = d  PROVE a \in Range(log.ran) \cup Range(b.loop.queue)
            <6>1. ~ Fresh(b)
              BY <1>19, <3>1, <5>2 DEF Fresh, HasHandler
            <6>2. log.posts[a].by = p
              BY <1>2, <1>4, <4>1, <5>2 DEF Stopping, Kept
            <6>3. ~ InFlight(call, a)
              <7>1. ASSUME NEW q \in Posters, call[q].op = "background", call[q].task = a  PROVE FALSE
                <8>1. HomeCall(call[q], q, threads, log) /\ a # Stopping
                  BY <1>2, <1>3 DEF Stopping
                <8>2. log.posts[a].by = q
                  BY <7>1, <8>1 DEF HomeCall
                <8> QED  BY <1>2, <4>1, <5>2, <6>2, <7>1, <8>2 DEF t
              <7> QED  BY <7>1 DEF InFlight
            <6> QED  BY <1>16, <4>1, <5>1, <6>1, <6>3
          <5>3. Follows(Append(b.loop.queue, t), Range(log.ran), a, d)
            BY <1>1, <1>2, <4>1, <5>2, FollowsAppend
          <5> QED  BY <4>1, <5>1, <5>3
        <4> QED  BY <4>2, <4>3
      <3>2. ASSUME NEW a \in 1 .. n, NEW d \in 1 .. n, Pair(log', a, d, i), Fresh(T)
            PROVE  /\ Follows(T.posted, {}, a, d)
                   /\ \A q \in Posters :
                         call'[q].op = "background" /\ call'[q].task = d /\ ~ call'[q].seen
                             => a \in Range(T.posted)
        BY <1>10, <1>12, <1>15, <1>17, <1>19, <3>2
      <3> QED  BY <1>1, <1>19, <3>1, <3>2 DEF Orders, n
    <2> QED  BY <2>1, <2>2, <2>5, <2>6 DEF Lists
  <1>20. ASSUME /\ c.seen /\ ~ HasHandler(b) /\ T.loop = b.loop /\ T.posted = b.posted
                /\ log'.late = log.late /\ log'.early = log.early
         PROVE  Lists(T, log', call', i)
    <2>1. HomeLists(T, log', i)
      <3>1. HomeLists(b, log, i) /\ log'.posts = log.posts
        BY <1>1, <1>2 DEF Lists
      <3> QED  BY <1>9, <1>20, <3>1, Zenon DEF HomeLists
    <2>2. NotYet(T, log', i)
      BY <1>1, <1>6, <1>9, <1>15, <1>20 DEF NotYet
    <2>3. ~ Fresh(b) /\ ~ Fresh(T)
      BY <1>4, <1>15, <1>20 DEF Fresh, HasHandler
    <2>4. b.loop.quit
      <3>1. b.stage \in {"new", "handler", "looping", "left", "ended"}
        BY <1>1, ThreadTypes DEF Clean, b
      <3> QED  BY <1>2, <1>4, <1>20, <3>1 DEF Good, HasHandler
    <2>5. Placed(T, log', call', i)
      BY <1>20, <2>4 DEF Placed
    <2>6. Orders(T, log', call', i)
      BY <1>1, <1>10, <1>17, <1>20, <2>3 DEF Orders, n
    <2> QED  BY <2>1, <2>2, <2>5, <2>6 DEF Lists
  <1>21. Lists(T, log', call', i)
    BY <1>7, <1>18, <1>19, <1>20
  <1>22. \A q \in Posters :
             \/ call'[q] = call[q]
             \/ /\ call'[q].op = "none"
                /\ call[q].task = Stopping \/ ForThread(log, call[q].task, i)
    BY <1>1, <1>4, NoCallIs DEF t
  <1> QED  BY <1>1, <1>6, <1>8, <1>21, <1>22, ThreadPosting DEF b, T

\* In the beginning nothing is posted.
LEMMA InitPosting == Init => Posting
  <1> SUFFICES ASSUME Init  PROVE Posting
    OBVIOUS
  <1>1. /\ threads = <<>> /\ gui = NewLooper /\ log = NoLog
        /\ \A p \in Posters : call[p] = NoCall
    BY DEF Init
  <1>2. log.posts = <<>> /\ log.ran = <<>> /\ Len(threads) = 0
    BY <1>1 DEF NoLog
  <1>3. \A i \in 1 .. Len(threads) : Lists(threads[i], log, call, i)
    BY <1>2
  <1>4. \A p \in Posters : HomeCall(call[p], p, threads, log)
    BY <1>1 DEF HomeCall, NoCall
  <1>5. HomeGUI
    <2>1. GUITasks(gui) = {}
      BY <1>1 DEF GUITasks, NewLooper, Range
    <2> QED  BY <1>2, <2>1 DEF HomeGUI
  <1>6. HomeLog
    BY <1>2, BackgroundThreadAssumption DEF HomeLog, Range
  <1> QED  BY <1>3, <1>4, <1>5, <1>6 DEF Posting

\* A step keeps Posting: one case per action.
LEMMA PostingSteps == Clean /\ Posting /\ [Next]_vars => Posting'
  <1> SUFFICES ASSUME Clean, Posting, [Next]_vars  PROVE Posting'
    OBVIOUS
  <1>1. CASE \E p \in Posters, delay, wait \in BOOLEAN :
            PostBackground(p, delay) \/ PostGUI(p, delay, wait)
    <2>1. PICK p \in Posters, delay \in BOOLEAN, wait \in BOOLEAN :
              PostBackground(p, delay) \/ PostGUI(p, delay, wait)
      BY <1>1
    <2>2. \E to \in {"background", "gui"} :
              Asks(p, to) /\ call[p].op = "none" /\ Len(log.posts) + 1 \in Tasks
      BY <2>1, PostBackgroundIs, PostGUIIs DEF Clean
    <2> QED  BY <2>2, AsksPosting
  <1>2. CASE StartServices \/ StopServices
    BY <1>2, StartServicesPosting, StopServicesPosting
  <1>3. CASE \E p \in Posters : PostBackgroundEnds(p) \/ PostGUIEnds(p)
    BY <1>3, BackgroundEndsPosting, GUIEndsPosting
  <1>4. CASE (\E p \in Posters : Get(p) \/ Lock(p)) \/ Notify \/ UNCHANGED vars
    BY <1>4, SyncPosting
  <1>5. CASE \E i \in DOMAIN threads : Background(i)
    <2>1. DOMAIN threads = 1 .. Len(threads)
      BY DEF Clean, TaskTypes
    <2>2. PICK i \in 1 .. Len(threads) : Background(i)
      BY <1>5, <2>1
    <2> QED  BY <2>2, StagePosting, CopyPosting, RunBackgroundPosting DEF Background
  <1>6. CASE RunGUI \/ Forward
    BY <1>6, RunGUIPosting, ForwardPosting
  <1> QED  BY <1>1, <1>2, <1>3, <1>4, <1>5, <1>6 DEF Next, Continue, GUI

LEMMA PostingAlways == Spec => [](Clean /\ Posting)
  <1>1. Init => Clean /\ Posting
    BY InitClean, InitPosting
  <1>2. (Clean /\ Posting) /\ [Next]_vars => (Clean /\ Posting)'
    BY CleanSteps, PostingSteps
  <1> QED  BY <1>1, <1>2, PTL DEF Spec

\* Tasks that a thread posts to the same BackgroundThread run in the order in which it
\* posted them, over the list that is copied and the queue of the looper, unless one was
\* delayed, the first was lost in the list, or the second overtook the list.
THEOREM TasksRunInOrder == Spec => []InOrder
  <1>1. Clean /\ Posting => InOrder
    <2> SUFFICES ASSUME Clean, Posting, NEW a \in DOMAIN log.posts, NEW b \in DOMAIN log.posts,
                        a < b, log.posts[a] = log.posts[b], log.posts[a].to = "background",
                        ~ log.posts[a].delay, Ran(b), b \notin log.early, a \notin log.late
                 PROVE  \E x, y \in DOMAIN log.ran : x < y /\ log.ran[x] = a /\ log.ran[y] = b
      BY DEF InOrder
    <2> DEFINE i == log.posts[a].thread
    <2>1. log \in Logs /\ DOMAIN log.posts = 1 .. Len(log.posts) /\ DOMAIN log.ran = 1 .. Len(log.ran)
      BY LogTypes DEF Clean, TaskTypes
    <2>2. i \in 1 .. Len(threads) /\ Lists(threads[i], log, call, i)
      BY <2>1 DEF Posting, HomeLog
    <2>3. Pair(log, a, b, i)
      BY <2>1 DEF Pair, Kept, ForThread
    <2>4. Follows(log.ran, {}, a, b)
      BY <2>1, <2>2, <2>3 DEF Lists, Orders
    <2>5. PICK y \in 1 .. Len(log.ran) : log.ran[y] = b
      BY <2>1 DEF Ran, Range
    <2>6. PICK x \in 1 .. y - 1 : log.ran[x] = a
      BY <2>4, <2>5 DEF Follows
    <2>7. Len(log.ran) \in Nat
      BY <2>1, LogTypes
    <2> QED  BY <2>1, <2>5, <2>6, <2>7
  <1> QED  BY <1>1, PostingAlways, PTL
=============================================================================
