-------------------------- MODULE StreamLoopProofs --------------------------
(***************************************************************************)
(* For every number of buffers and workers and whatever consumers are in   *)
(* use: no consumer has a buffer that the driver may overwrite, a buffer   *)
(* is given back exactly once and without references, the only references  *)
(* that get lost are those of the two known paths, and the buffers are     *)
(* unmapped only when nobody is left who could read them.                  *)
(***************************************************************************)
EXTENDS StreamLoop, FiniteSetTheorems, SequenceTheorems, TLAPS

\* Buffer b is somewhere in queue q; the queue has no buffer twice.
In(b, q) == \E i \in 1 .. Len(q) : q[i] = b
Distinct(q) == \A i, j \in 1 .. Len(q) : q[i] = q[j] => i = j

\* Consumer c has buffer b: in its queue, in its hands, with one of the workers
\* of the encoder, or on the screen.
Holds(c, b) ==
    \/ In(b, queue[c])
    \/ hw[c] = b
    \/ c = "jpeg" /\ \E w \in Workers : job[w] = b
    \/ c = "drm" /\ prev = b

HeldBy(b) == {c \in Consumers : Holds(c, b)}

\* What each thread has in its hands follows from where it is.
ThreadsInv ==
    /\ \A c \in Consumers : hw[c] # None <=> cpc[c] \in {"drain", "use"}
    /\ \A c \in Consumers : cpc[c] = "wait" => c = "jpeg"
    /\ \A c \in Consumers : cpc[c] \in {"open", "vsync", "close", "slow"} => c = "drm"
    /\ prev # None => "drm" \in Consumers /\ cpc["drm"] \in {"vsync", "close"}
    /\ picked # None <=> cpc["jpeg"] \in {"get", "drain", "use"}
    /\ picked # None => job[picked] = None /\ busy[picked] = "idle"

\* The stream thread has a buffer in its hands only while it hands it out, and
\* ends a session in the order of us_stream_loop().
SessionInv ==
    /\ current # None <=> spc = "hand"
    /\ spc # "hand" => todo = <<>>
    /\ spc \in {"encoder", "capture", "closed"} =>
          /\ \A c \in Consumers : cpc[c] = "exited"
          /\ \A b \in Bufs : rpc[b] = "exited"
    /\ spc \in {"capture", "closed"} =>
          \A w \in Workers : busy[w] = "idle" /\ job[w] = None

\* A buffer that we have is in one stage of its way back: being handed out,
\* planned for its releaser, with it, or left by it at the end of the session.
BufferInv ==
    \A b \in Bufs :
        /\ driver[b] = "user" => grabbed[b]
        /\ current = b => driver[b] = "user" /\ b \notin planned
                          /\ rpc[b] \in {"get", "exited"}
        /\ b \in planned => driver[b] = "user" /\ rpc[b] \in {"get", "exited"}
        /\ rpc[b] \in {"spin", "release"} => driver[b] = "user"
        /\ rpc[b] = "release" => refs[b] = 0
        /\ rpc[b] = "clear" => grabbed[b] /\ driver[b] # "user"
        /\ \A c \in Consumers : Holds(c, b) => driver[b] = "user"

\* No consumer has the same buffer in two places.
PlacesInv ==
    /\ \A c \in Consumers : Distinct(queue[c]) /\ ~In(hw[c], queue[c])
    /\ \A w \in Workers : job[w] # None =>
          /\ job[w] # hw["jpeg"]
          /\ ~In(job[w], queue["jpeg"])
          /\ \A v \in Workers : job[v] = job[w] => v = w
    /\ prev # None => ~In(prev, queue["drm"])

\* Those to whom the current buffer is still to be handed do not have it.
TodoInv ==
    /\ Distinct(todo)
    /\ spc = "hand" => \A c \in Consumers : In(c, todo) => ~Holds(c, current)

\* One reference for each consumer that has the buffer, and during a session
\* none beside them but the lost ones
CountInv ==
    \A b \in Bufs :
        /\ Cardinality(HeldBy(b)) <= refs[b]
        /\ Open /\ b \notin lost => refs[b] = Cardinality(HeldBy(b))

IInv ==
    /\ TypeOK
    /\ ThreadsInv
    /\ SessionInv
    /\ BufferInv
    /\ PlacesInv
    /\ TodoInv
    /\ CountInv
-----------------------------------------------------------------------------
(* The queues of the consumers, and the consumers themselves *)

\* What us_queue_get() does to the content of a queue
LEMMA TailFacts ==
    ASSUME NEW S, NEW q \in Seq(S), q # <<>>
    PROVE  /\ Head(q) \in S
           /\ In(Head(q), q)
           /\ Tail(q) \in Seq(S)
           /\ \A x : In(x, q) <=> In(x, Tail(q)) \/ x = Head(q)
           /\ Distinct(q) => Distinct(Tail(q)) /\ ~In(Head(q), Tail(q))
<1> DEFINE t == Tail(q)
<1>1. /\ Head(q) \in S /\ t \in Seq(S)
      /\ Len(t) = Len(q) - 1
      /\ \A i \in 1 .. Len(t) : t[i] = q[i + 1]
  BY HeadTailProperties
<1>2. Len(q) \in Nat /\ Len(q) > 0 /\ Head(q) = q[1]
  BY EmptySeq, LenProperties
<1>3. In(Head(q), q)
  BY <1>2 DEF In
<1>4. ASSUME NEW x PROVE In(x, q) <=> In(x, t) \/ x = Head(q)
  <2>1. ASSUME In(x, q) PROVE In(x, t) \/ x = Head(q)
    <3>1. PICK i \in 1 .. Len(q) : q[i] = x
      BY <2>1 DEF In
    <3>2. CASE i = 1
      BY <3>1, <3>2, <1>2
    <3>3. CASE i # 1
      <4>1. i - 1 \in 1 .. Len(t) /\ t[i - 1] = q[(i - 1) + 1]
        BY <3>3, <1>1, <1>2
      <4>2. (i - 1) + 1 = i
        OBVIOUS
      <4> QED
        BY <4>1, <4>2, <3>1 DEF In
    <3> QED
      BY <3>2, <3>3
  <2>2. ASSUME In(x, t) PROVE In(x, q)
    <3>1. PICK i \in 1 .. Len(t) : t[i] = x
      BY <2>2 DEF In
    <3>2. i + 1 \in 1 .. Len(q) /\ q[i + 1] = x
      BY <3>1, <1>1, <1>2
    <3> QED
      BY <3>2 DEF In
  <2> QED
    BY <2>1, <2>2, <1>3
<1>5. ASSUME Distinct(q) PROVE Distinct(t) /\ ~In(Head(q), t)
  <2>1. ASSUME NEW i \in 1 .. Len(t), NEW j \in 1 .. Len(t), t[i] = t[j] PROVE i = j
    <3>1. i + 1 \in 1 .. Len(q) /\ j + 1 \in 1 .. Len(q) /\ q[i + 1] = q[j + 1]
      BY <1>1, <1>2, <2>1
    <3>2. i + 1 = j + 1
      BY <3>1, <1>5 DEF Distinct
    <3> QED
      BY <3>2
  <2>2. ASSUME NEW i \in 1 .. Len(t), t[i] = Head(q) PROVE FALSE
    <3>1. i + 1 \in 1 .. Len(q) /\ 1 \in 1 .. Len(q) /\ q[i + 1] = q[1] /\ i + 1 # 1
      BY <1>1, <1>2, <2>2
    <3> QED
      BY <3>1, <1>5 DEF Distinct
  <2> QED
    BY <2>1, <2>2 DEF Distinct, In
<1> HIDE DEF t
<1> QED
  BY <1>1, <1>3, <1>4, <1>5 DEF t

\* What us_queue_put() does to it
LEMMA AppendFacts ==
    ASSUME NEW S, NEW q \in Seq(S), NEW e \in S
    PROVE  /\ Append(q, e) \in Seq(S)
           /\ \A x : In(x, Append(q, e)) <=> In(x, q) \/ x = e
           /\ Distinct(q) /\ ~In(e, q) => Distinct(Append(q, e))
<1> DEFINE a == Append(q, e)
<1>1. /\ a \in Seq(S) /\ Len(a) = Len(q) + 1
      /\ \A i \in 1 .. Len(q) : a[i] = q[i]
      /\ a[Len(q) + 1] = e
  BY AppendProperties
<1>2. Len(q) \in Nat
  BY LenProperties
<1>3. \A i \in 1 .. Len(a) : i \in 1 .. Len(q) \/ i = Len(q) + 1
  BY <1>1, <1>2
<1>4. 1 .. Len(q) \subseteq 1 .. Len(a) /\ Len(q) + 1 \in 1 .. Len(a)
  BY <1>1, <1>2
<1> HIDE DEF a
<1>5. \A x : In(x, a) <=> In(x, q) \/ x = e
  BY <1>1, <1>3, <1>4 DEF In
<1>6. Distinct(q) /\ ~In(e, q) => Distinct(a)
  BY <1>1, <1>3 DEF In, Distinct
<1> QED
  BY <1>1, <1>5, <1>6 DEF a

LEMMA EmptyFacts ==
    /\ \A S : <<>> \in Seq(S)
    /\ \A x : ~In(x, <<>>)
    /\ Distinct(<<>>)
<1>1. Len(<<>>) = 0 /\ 1 .. 0 = {}
  BY EmptySeq
<1> QED
  BY <1>1, EmptySeq DEF In, Distinct

\* A queue as long as there are buffers has every buffer in it: this is why the
\* result of us_queue_put() may be ignored.
LEMMA QueueHasRoom ==
    ASSUME setup \in Setups, NEW q \in Seq(Bufs), Distinct(q), NEW b \in Bufs, ~In(b, q)
    PROVE  Len(q) < setup.bufs
<1> DEFINE Others == Bufs \ {b}
<1>1. setup.bufs \in Nat \ {0}
  BY SetupsAssumption
<1>2. IsFiniteSet(Bufs) /\ Cardinality(Bufs) = setup.bufs
  <2>1. 0 \in Int /\ setup.bufs - 1 \in Int /\ ~(0 > setup.bufs - 1)
    BY <1>1
  <2>2. IsFiniteSet(Bufs) /\ Cardinality(Bufs) = (setup.bufs - 1) - 0 + 1
    BY <2>1, FS_Interval DEF Bufs
  <2> QED
    BY <1>1, <2>2
<1>3. IsFiniteSet(Others) /\ Cardinality(Others) = setup.bufs - 1
  BY <1>2, FS_RemoveElement
<1>4. Len(q) \in Nat /\ q \in [1 .. Len(q) -> Bufs]
  BY LenProperties
<1>5. q \in [1 .. Len(q) -> Others]
  BY <1>4 DEF In
<1>6. q \in Injection(1 .. Len(q), Others)
  BY <1>5 DEF Injection, IsInjective, Distinct
<1>7. Cardinality(1 .. Len(q)) <= Cardinality(Others)
  BY <1>3, <1>6, FS_Injection
<1>8. Cardinality(1 .. Len(q)) = Len(q)
  BY <1>4, FS_Interval
<1> QED
  BY <1>1, <1>3, <1>4, <1>7, <1>8

LEMMA ConsumersFacts ==
    ASSUME setup \in Setups
    PROVE  /\ "jpeg" \in Consumers
           /\ setup.drm => "drm" \in Consumers
           /\ Consumers \subseteq {"jpeg", "raw", "h264", "drm"}
           /\ IsFiniteSet(Consumers)
           /\ None \notin Bufs /\ None \notin Workers
<1>1. /\ "jpeg" \in Consumers
      /\ setup.drm => "drm" \in Consumers
      /\ Consumers \subseteq {"jpeg", "raw", "h264", "drm"}
  BY SetupsAssumption DEF Consumers
<1>2. IsFiniteSet({"jpeg", "raw", "h264", "drm"})
  <2>1. \A S, x : IsFiniteSet(S) => IsFiniteSet(S \cup {x})
    BY FS_AddElement
  <2>2. IsFiniteSet({"jpeg"})
    BY FS_Singleton
  <2>3. IsFiniteSet(({"jpeg"} \cup {"raw"}) \cup {"h264"})
    BY <2>1, <2>2
  <2>4. IsFiniteSet((({"jpeg"} \cup {"raw"}) \cup {"h264"}) \cup {"drm"})
    BY <2>1, <2>3
  <2>5. (({"jpeg"} \cup {"raw"}) \cup {"h264"}) \cup {"drm"} = {"jpeg", "raw", "h264", "drm"}
    OBVIOUS
  <2> QED
    BY <2>4, <2>5
<1>3. IsFiniteSet(Consumers)
  BY <1>1, <1>2, FS_Subset
<1>4. None \notin Bufs /\ None \notin Workers
  BY SetupsAssumption DEF None, Bufs, Workers
<1> QED
  BY <1>1, <1>3, <1>4

LEMMA HeldByFinite ==
    ASSUME setup \in Setups, NEW b
    PROVE  IsFiniteSet(HeldBy(b)) /\ Cardinality(HeldBy(b)) \in Nat
<1>1. HeldBy(b) \in SUBSET Consumers
  BY DEF HeldBy
<1> QED
  BY <1>1, ConsumersFacts, FS_Subset, FS_CardinalityType

\* A buffer is handed to each consumer of the session at most once.
LEMMA HandOutFacts ==
    ASSUME setup \in Setups
    PROVE  HandOut \in Seq(Consumers) /\ Distinct(HandOut)
<1> DEFINE With(others, c) == IF c \in Consumers THEN Append(others, c) ELSE others
           Fit(q, C) == q \in Seq(Consumers) /\ Distinct(q) /\ \A x : In(x, q) => x \in C
<1>1. ASSUME NEW q, NEW C, NEW c, Fit(q, C), c \notin C
      PROVE  Fit(With(q, c), C \cup {c})
  <2>1. CASE c \in Consumers
    BY <1>1, <2>1, AppendFacts, Zenon
  <2>2. CASE c \notin Consumers
    BY <1>1, <2>2, Zenon
  <2> QED
    BY <2>1, <2>2
<1>2. Fit(<<"jpeg">>, {"jpeg"})
  <2>1. <<"jpeg">> \in Seq(Consumers) /\ Len(<<"jpeg">>) = 1 /\ <<"jpeg">>[1] = "jpeg"
    BY ConsumersFacts
  <2> QED
    BY <2>1 DEF In, Distinct
<1> HIDE DEF Fit, With
<1>3. Fit(With(<<"jpeg">>, "raw"), {"jpeg"} \cup {"raw"})
  BY <1>1, <1>2
<1>4. Fit(With(With(<<"jpeg">>, "raw"), "h264"), ({"jpeg"} \cup {"raw"}) \cup {"h264"})
  BY <1>1, <1>3
<1>5. Fit(With(With(With(<<"jpeg">>, "raw"), "h264"), "drm"),
          (({"jpeg"} \cup {"raw"}) \cup {"h264"}) \cup {"drm"})
  BY <1>1, <1>4
<1> QED
  BY <1>5 DEF Fit, With, HandOut

-----------------------------------------------------------------------------
(* What a step does to the places a buffer is in, and the count of references *)

\* Every consumer has the buffers it had, ...
Kept == \A c \in Consumers, b \in Bufs : Holds(c, b)' <=> Holds(c, b)

\* ... or consumer d no longer has f, ...
GivenUp(d, f) ==
    /\ Holds(d, f)
    /\ \A c \in Consumers, b \in Bufs :
          Holds(c, b)' <=> Holds(c, b) /\ ~(c = d /\ b = f)

\* ... or it has got f.
Given(d, f) ==
    /\ ~Holds(d, f)
    /\ \A c \in Consumers, b \in Bufs :
          Holds(c, b)' <=> Holds(c, b) \/ (c = d /\ b = f)

\* A reference of f is taken, or given back.
Referenced(f) == refs' = [refs EXCEPT ![f] = refs[f] + 1]
Dropped(f) == refs' = [refs EXCEPT ![f] = refs[f] - 1]

LEMMA SetupKept ==
    ASSUME setup' = setup
    PROVE  Consumers' = Consumers /\ Bufs' = Bufs /\ Workers' = Workers
           /\ HandOut' = HandOut
BY DEF Consumers, Bufs, Workers, HandOut

LEMMA KeptCounts ==
    ASSUME setup' = setup, Kept, NEW b \in Bufs
    PROVE  HeldBy(b)' = HeldBy(b)
BY SetupKept DEF Kept, HeldBy

LEMMA GivenUpCounts ==
    ASSUME setup \in Setups, setup' = setup,
           NEW d \in Consumers, NEW f \in Bufs, GivenUp(d, f), NEW b \in Bufs
    PROVE  /\ b = f => Cardinality(HeldBy(b)') = Cardinality(HeldBy(b)) - 1
           /\ b # f => HeldBy(b)' = HeldBy(b)
           /\ Cardinality(HeldBy(f)) \in Nat \ {0}
<1>1. HeldBy(f)' = HeldBy(f) \ {d} /\ d \in HeldBy(f)
  BY SetupKept DEF GivenUp, HeldBy
<1>2. b # f => HeldBy(b)' = HeldBy(b)
  BY SetupKept DEF GivenUp, HeldBy
<1>3. IsFiniteSet(HeldBy(f)) /\ Cardinality(HeldBy(f)) \in Nat
  BY HeldByFinite
<1>4. Cardinality(HeldBy(f)') = Cardinality(HeldBy(f)) - 1
  BY <1>1, <1>3, FS_RemoveElement
<1>5. Cardinality(HeldBy(f)) # 0
  BY <1>1, <1>3, FS_EmptySet
<1> QED
  BY <1>2, <1>3, <1>4, <1>5

LEMMA GivenCounts ==
    ASSUME setup \in Setups, setup' = setup,
           NEW d \in Consumers, NEW f \in Bufs, Given(d, f), NEW b \in Bufs
    PROVE  /\ b = f => Cardinality(HeldBy(b)') = Cardinality(HeldBy(b)) + 1
           /\ b # f => HeldBy(b)' = HeldBy(b)
<1>1. HeldBy(f)' = HeldBy(f) \cup {d} /\ d \notin HeldBy(f)
  BY SetupKept DEF Given, HeldBy
<1>2. b # f => HeldBy(b)' = HeldBy(b)
  BY SetupKept DEF Given, HeldBy
<1>3. IsFiniteSet(HeldBy(f))
  BY HeldByFinite
<1>4. Cardinality(HeldBy(f)') = Cardinality(HeldBy(f)) + 1
  BY <1>1, <1>3, FS_AddElement
<1> QED
  BY <1>2, <1>4

\* A step that leaves the places and the references alone
LEMMA CountKept ==
    ASSUME setup' = setup, Kept, CountInv, Open' => Open, refs' = refs,
           lost \subseteq lost'
    PROVE  CountInv'
<1> SUFFICES ASSUME NEW b \in Bufs'
             PROVE  /\ Cardinality(HeldBy(b)') <= refs'[b]
                    /\ Open' /\ b \notin lost' => refs'[b] = Cardinality(HeldBy(b)')
  BY DEF CountInv
<1>1. b \in Bufs /\ HeldBy(b)' = HeldBy(b)
  BY SetupKept, KeptCounts
<1> QED
  BY <1>1 DEF CountInv

\* A reference that is given back by the consumer that had the buffer: it was
\* there, so refs does not fall below zero.
LEMMA CountDropped ==
    ASSUME TypeOK, setup' = setup, CountInv, Open' => Open, lost' = lost,
           NEW d \in Consumers, NEW f \in Bufs, GivenUp(d, f), Dropped(f)
    PROVE  CountInv' /\ refs[f] > 0 /\ refs' \in [Bufs -> Nat]
<1>1. refs \in [Bufs -> Nat] /\ setup \in Setups
  BY DEF TypeOK
<1>2. /\ Cardinality(HeldBy(f)) \in Nat \ {0}
      /\ Cardinality(HeldBy(f)) <= refs[f]
  BY <1>1, GivenUpCounts DEF CountInv
<1>3. refs[f] > 0 /\ refs[f] - 1 \in Nat
  BY <1>1, <1>2
<1>4. /\ refs'[f] = refs[f] - 1
      /\ \A b \in Bufs : b # f => refs'[b] = refs[b]
      /\ refs' \in [Bufs -> Nat]
  BY <1>1, <1>3 DEF Dropped
<1>5. ASSUME NEW b \in Bufs
      PROVE  /\ Cardinality(HeldBy(b)') <= refs'[b]
             /\ Open' /\ b \notin lost' => refs'[b] = Cardinality(HeldBy(b)')
  <2>1. CASE b = f
    <3>1. Cardinality(HeldBy(b)') = Cardinality(HeldBy(b)) - 1
      BY <1>1, <2>1, GivenUpCounts
    <3>2. Open /\ b \notin lost => refs[b] = Cardinality(HeldBy(b))
      BY DEF CountInv
    <3> QED
      BY <1>1, <1>2, <1>4, <2>1, <3>1, <3>2
  <2>2. CASE b # f
    <3>1. HeldBy(b)' = HeldBy(b)
      BY <1>1, <2>2, GivenUpCounts
    <3> QED
      BY <1>4, <2>2, <3>1 DEF CountInv
  <2> QED
    BY <2>1, <2>2
<1>6. CountInv'
  BY <1>5, SetupKept DEF CountInv
<1> QED
  BY <1>3, <1>4, <1>6

\* A reference that is not given back by the consumer that had the buffer
LEMMA CountLost ==
    ASSUME TypeOK, setup' = setup, CountInv, Open' => Open,
           NEW d \in Consumers, NEW f \in Bufs, GivenUp(d, f),
           refs' = refs, lost' = lost \cup {f}
    PROVE  CountInv'
<1>1. refs \in [Bufs -> Nat] /\ setup \in Setups
  BY DEF TypeOK
<1>2. ASSUME NEW b \in Bufs
      PROVE  /\ Cardinality(HeldBy(b)') <= refs'[b]
             /\ Open' /\ b \notin lost' => refs'[b] = Cardinality(HeldBy(b)')
  <2>1. CASE b = f
    <3>1. /\ Cardinality(HeldBy(b)') = Cardinality(HeldBy(b)) - 1
          /\ Cardinality(HeldBy(b)) \in Nat
      BY <1>1, <2>1, GivenUpCounts
    <3>2. Cardinality(HeldBy(b)) <= refs[b] /\ refs[b] \in Nat
      BY <1>1 DEF CountInv
    <3> QED
      BY <2>1, <3>1, <3>2
  <2>2. CASE b # f
    <3>1. HeldBy(b)' = HeldBy(b)
      BY <1>1, <2>2, GivenUpCounts
    <3> QED
      BY <2>2, <3>1 DEF CountInv
  <2> QED
    BY <2>1, <2>2
<1> QED
  BY <1>2, SetupKept DEF CountInv

\* A reference that is taken for a consumer that gets the buffer, ...
LEMMA CountGiven ==
    ASSUME TypeOK, setup' = setup, CountInv, Open' => Open, lost' = lost,
           NEW d \in Consumers, NEW f \in Bufs, Given(d, f), Referenced(f)
    PROVE  CountInv'
<1>1. refs \in [Bufs -> Nat] /\ setup \in Setups
  BY DEF TypeOK
<1>2. /\ refs'[f] = refs[f] + 1
      /\ \A b \in Bufs : b # f => refs'[b] = refs[b]
  BY <1>1 DEF Referenced
<1>3. ASSUME NEW b \in Bufs
      PROVE  /\ Cardinality(HeldBy(b)') <= refs'[b]
             /\ Open' /\ b \notin lost' => refs'[b] = Cardinality(HeldBy(b)')
  <2>1. CASE b = f
    <3>1. Cardinality(HeldBy(b)') = Cardinality(HeldBy(b)) + 1
      BY <1>1, <2>1, GivenCounts
    <3>2. /\ Cardinality(HeldBy(b)) <= refs[b]
          /\ Open /\ b \notin lost => refs[b] = Cardinality(HeldBy(b))
      BY DEF CountInv
    <3>3. Cardinality(HeldBy(b)) \in Nat /\ refs[b] \in Nat
      BY <1>1, HeldByFinite
    <3> QED
      BY <1>2, <2>1, <3>1, <3>2, <3>3
  <2>2. CASE b # f
    <3>1. HeldBy(b)' = HeldBy(b)
      BY <1>1, <2>2, GivenCounts
    <3> QED
      BY <1>2, <2>2, <3>1 DEF CountInv
  <2> QED
    BY <2>1, <2>2
<1> QED
  BY <1>3, SetupKept DEF CountInv

\* ... or whose full queue refuses it
LEMMA CountRefused ==
    ASSUME TypeOK, setup' = setup, CountInv, Open' => Open,
           NEW f \in Bufs, Kept, Referenced(f), lost' = lost \cup {f}
    PROVE  CountInv'
<1>1. refs \in [Bufs -> Nat] /\ setup \in Setups
  BY DEF TypeOK
<1>2. /\ refs'[f] = refs[f] + 1
      /\ \A b \in Bufs : b # f => refs'[b] = refs[b]
  BY <1>1 DEF Referenced
<1>3. ASSUME NEW b \in Bufs
      PROVE  /\ Cardinality(HeldBy(b)') <= refs'[b]
             /\ Open' /\ b \notin lost' => refs'[b] = Cardinality(HeldBy(b)')
  <2>1. HeldBy(b)' = HeldBy(b)
    BY KeptCounts
  <2>2. /\ Cardinality(HeldBy(b)) <= refs[b] /\ refs[b] \in Nat
        /\ Cardinality(HeldBy(b)) \in Nat
        /\ Open /\ b \notin lost => refs[b] = Cardinality(HeldBy(b))
    BY <1>1, HeldByFinite DEF CountInv
  <2> QED
    BY <1>2, <2>1, <2>2
<1> QED
  BY <1>3, SetupKept DEF CountInv

-----------------------------------------------------------------------------
(* The steps of the consumers and their workers *)

\* They touch neither the driver nor a releaser nor the stream thread, ...
ConsumerSide ==
    UNCHANGED <<driverVars, releaserVars, streamVars, threadsStop, setup>>

\* ... and move buffers between places, or give one up: with its reference, or
\* without.
Moves ==
    \/ Kept /\ refs' = refs /\ lost' = lost
    \/ \E d \in Consumers, f \in Bufs : GivenUp(d, f) /\ Dropped(f) /\ lost' = lost
    \/ \E d \in Consumers, f \in Bufs :
          GivenUp(d, f) /\ refs' = refs /\ lost' = lost \cup {f}

\* The buffers of the driver and of the releasers, the references and the rest
\* of the handing out are not disturbed by such a step.
LEMMA ConsumerSideKeeps ==
    ASSUME TypeOK, SessionInv, BufferInv, TodoInv, CountInv, ConsumerSide, Moves
    PROVE  /\ refs' \in [Bufs -> Nat] /\ lost' \subseteq Bufs
           /\ BufferInv' /\ TodoInv' /\ CountInv'
<1>1. /\ driver' = driver /\ grabbed' = grabbed /\ planned' = planned /\ rpc' = rpc
      /\ spc' = spc /\ current' = current /\ todo' = todo /\ setup' = setup
      /\ Open' = Open
  BY DEF ConsumerSide, driverVars, releaserVars, streamVars, Open
<1>2. refs \in [Bufs -> Nat] /\ lost \subseteq Bufs
  BY DEF TypeOK
<1>3. \A c \in Consumers, b \in Bufs : Holds(c, b)' => Holds(c, b)
  BY DEF Moves, Kept, GivenUp
<1>4. /\ refs' \in [Bufs -> Nat] /\ lost' \subseteq Bufs /\ CountInv'
      /\ \A b \in Bufs : refs[b] = 0 => refs'[b] = 0
  <2>1. CASE Kept /\ refs' = refs /\ lost' = lost
    BY <1>1, <1>2, <2>1, CountKept
  <2>2. ASSUME NEW d \in Consumers, NEW f \in Bufs, GivenUp(d, f), Dropped(f), lost' = lost
        PROVE  /\ refs' \in [Bufs -> Nat] /\ lost' \subseteq Bufs /\ CountInv'
               /\ \A b \in Bufs : refs[b] = 0 => refs'[b] = 0
    <3>1. CountInv' /\ refs[f] > 0 /\ refs' \in [Bufs -> Nat]
      BY <1>1, <2>2, CountDropped
    <3>2. \A b \in Bufs : b # f => refs'[b] = refs[b]
      BY <1>2, <2>2 DEF Dropped
    <3> QED
      BY <1>2, <2>2, <3>1, <3>2
  <2>3. ASSUME NEW d \in Consumers, NEW f \in Bufs, GivenUp(d, f), refs' = refs,
               lost' = lost \cup {f}
        PROVE  /\ refs' \in [Bufs -> Nat] /\ lost' \subseteq Bufs /\ CountInv'
               /\ \A b \in Bufs : refs[b] = 0 => refs'[b] = 0
    BY <1>1, <1>2, <2>3, CountLost
  <2> QED
    BY <2>1, <2>2, <2>3 DEF Moves
<1>5. BufferInv'
  BY <1>1, <1>3, <1>4, SetupKept DEF BufferInv
<1>6. TodoInv'
  <2>1. Distinct(todo)'
    BY <1>1 DEF TodoInv, Distinct
  <2>2. ASSUME spc = "hand", NEW c \in Consumers, In(c, todo) PROVE ~Holds(c, current)'
    <3>1. ~Holds(c, current)
      BY <2>2 DEF TodoInv
    <3>2. PICK b \in Bufs : b = current
      BY <2>2 DEF SessionInv, TypeOK
    <3>3. ~Holds(c, b)'
      BY <1>3, <3>1, <3>2
    <3>4. Holds(c, current)' <=> Holds(c, b)'
      BY <1>1, <3>2 DEF Holds
    <3> QED
      BY <3>3, <3>4
  <2> QED
    BY <1>1, <2>1, <2>2, SetupKept DEF TodoInv, In
<1> QED
  BY <1>4, <1>5, <1>6

\* A step that moves nothing at all
LEMMA NothingMoves ==
    ASSUME UNCHANGED <<queue, hw, job, prev, setup>>
    PROVE  Kept /\ (PlacesInv => PlacesInv')
BY SetupKept DEF Kept, Holds, PlacesInv, In, Distinct

\* The types of what a step on the consumers' side may change
SideTypes ==
    /\ queue \in [Consumers -> Seq(Bufs)]
    /\ hw \in [Consumers -> Bufs \cup {None}]
    /\ cpc \in [Consumers -> {"top", "wait", "get", "drain", "use", "open",
                              "vsync", "close", "slow", "exited"}]
    /\ prev \in Bufs \cup {None}
    /\ slowRet \in {"top", "vsync"}
    /\ job \in [Workers -> Bufs \cup {None}]
    /\ busy \in [Workers -> {"idle", "assigned", "running"}]
    /\ picked \in Workers \cup {None}

\* What is left to show of such a step
LEMMA SideStep ==
    ASSUME IInv, ConsumerSide, Moves, SideTypes', ThreadsInv', PlacesInv',
           spc \in {"encoder", "capture", "closed"} => cpc' = cpc,
           spc \in {"capture", "closed"} => busy' = busy /\ job' = job
    PROVE  IInv'
<1>1. /\ driver' = driver /\ grabbed' = grabbed /\ planned' = planned /\ rpc' = rpc
      /\ spc' = spc /\ current' = current /\ todo' = todo /\ setup' = setup
      /\ threadsStop' = threadsStop
  BY DEF ConsumerSide, driverVars, releaserVars, streamVars
<1>2. /\ refs' \in [Bufs -> Nat] /\ lost' \subseteq Bufs
      /\ BufferInv' /\ TodoInv' /\ CountInv'
  BY ConsumerSideKeeps DEF IInv
<1>3. TypeOK'
  BY <1>1, <1>2, SetupKept DEF IInv, TypeOK, SideTypes
<1>4. SessionInv'
  BY <1>1, SetupKept DEF IInv, SessionInv
<1> QED
  BY <1>2, <1>3, <1>4 DEF IInv

\* A thread goes on with what it has.
LEMMA QuietStep ==
    ASSUME IInv, NEW c \in Consumers,
           LoopTop(c) \/ GetTimeout(c) \/ DrainDone(c)
    PROVE  IInv'
<1> USE DEF setupVars, jpegVars, drmVars
<1>1. setup \in Setups /\ c \in {"jpeg", "raw", "h264", "drm"}
  BY ConsumersFacts DEF IInv, TypeOK
<1>2. /\ ConsumerSide /\ cpc[c] \in {"top", "get", "drain"}
      /\ UNCHANGED <<queue, hw, job, busy, prev, slowRet, refs, setup, lost, threadsStop>>
  BY DEF LoopTop, GetTimeout, DrainDone, ConsumerSide
<1>3. Moves /\ PlacesInv'
  BY <1>2, NothingMoves DEF Moves, IInv
<1>4. PICK s \in {"top", "wait", "get", "open", "close", "vsync", "use", "exited"} :
         /\ cpc' = [cpc EXCEPT ![c] = s]
         /\ s = "wait" => c = "jpeg"
         /\ s \in {"open", "close", "vsync"} => c = "drm"
         /\ s = "get" => c # "jpeg"
         /\ s = "use" <=> cpc[c] = "drain"
         /\ picked' = IF c = "jpeg" /\ s # "use" THEN None ELSE picked
  <2>1. CASE LoopTop(c)
    <3>1. c = "jpeg" => picked = None
      BY <2>1 DEF LoopTop, IInv, ThreadsInv
    <3>2. cpc[c] = "top" /\ picked' = picked
      BY <2>1 DEF LoopTop
    <3>3. CASE threadsStop
      <4>1. cpc' = [cpc EXCEPT ![c] = "exited"]
        BY <2>1, <3>3 DEF LoopTop
      <4> QED
        BY <3>1, <3>2, <4>1
    <3>4. CASE ~threadsStop /\ c = "jpeg"
      <4>1. cpc' = [cpc EXCEPT ![c] = "wait"]
        BY <2>1, <3>4 DEF LoopTop
      <4> QED
        BY <3>1, <3>2, <3>4, <4>1
    <3>5. CASE ~threadsStop /\ c = "drm"
      <4>1. cpc' = [cpc EXCEPT ![c] = "open"]
        BY <2>1, <3>5 DEF LoopTop
      <4> QED
        BY <3>2, <3>5, <4>1
    <3>6. CASE ~threadsStop /\ c \notin {"jpeg", "drm"}
      <4>1. cpc' = [cpc EXCEPT ![c] = "get"]
        BY <2>1, <3>6 DEF LoopTop
      <4> QED
        BY <3>2, <3>6, <4>1
    <3> QED
      BY <3>3, <3>4, <3>5, <3>6
  <2>2. CASE GetTimeout(c)
    BY <1>1, <2>2 DEF GetTimeout, ForgetPicked, DrmInner
  <2>3. CASE DrainDone(c)
    BY <1>1, <2>3 DEF DrainDone
  <2> QED
    BY <2>1, <2>2, <2>3
<1>5. /\ cpc' \in [Consumers -> {"top", "wait", "get", "drain", "use", "open",
                                 "vsync", "close", "slow", "exited"}]
      /\ cpc'[c] = s /\ \A d \in Consumers : d # c => cpc'[d] = cpc[d]
  BY <1>4 DEF IInv, TypeOK
<1>6. SideTypes'
  BY <1>2, <1>4, <1>5, SetupKept DEF IInv, TypeOK, SideTypes
<1>7. ThreadsInv'
  BY <1>1, <1>2, <1>4, <1>5, ConsumersFacts, SetupKept DEF IInv, ThreadsInv
<1>8. spc \notin {"encoder", "capture", "closed"}
  BY <1>2 DEF IInv, SessionInv
<1> QED
  BY <1>2, <1>3, <1>6, <1>7, <1>8, SideStep

\* us_queue_get() takes the oldest buffer of the queue in the consumer's hands;
\* in _get_latest_hw() the one it had is given back.
LEMMA GetStep ==
    ASSUME IInv, NEW c \in Consumers, Get(c) \/ DrainOne(c)
    PROVE  IInv'
<1> USE DEF setupVars, jpegVars, drmVars
<1>1. setup \in Setups /\ None \notin Bufs /\ queue[c] \in Seq(Bufs) /\ setup' = setup
  BY ConsumersFacts DEF IInv, TypeOK, Get, DrainOne
<1>2. queue[c] # <<>>
  <2>1. CASE Get(c)
    BY <2>1 DEF Get
  <2>2. CASE DrainOne(c)
    <3>1. QueueCapacity(c) - Len(queue[c]) = 0
      BY <2>2 DEF DrainOne, us_queue_is_empty
    <3>2. QueueCapacity(c) \in Nat \ {0}
      BY <1>1, SetupsAssumption DEF QueueCapacity
    <3>3. queue[c] = <<>> => Len(queue[c]) = 0
      BY EmptySeq
    <3> QED
      BY <3>1, <3>2, <3>3
  <2> QED
    BY <2>1, <2>2
<1> DEFINE h == Head(queue[c])
           t == Tail(queue[c])
<1>3. /\ h \in Bufs /\ In(h, queue[c]) /\ t \in Seq(Bufs)
      /\ \A x : In(x, queue[c]) <=> In(x, t) \/ x = h
      /\ Distinct(t) /\ ~In(h, t)
  BY <1>1, <1>2, TailFacts DEF IInv, PlacesInv
<1>4. /\ queue' = [queue EXCEPT ![c] = t] /\ hw' = [hw EXCEPT ![c] = h]
      /\ cpc[c] \in {"get", "drain"} /\ ConsumerSide
      /\ UNCHANGED <<job, busy, picked, prev, slowRet, lost>>
      /\ cpc' = IF cpc[c] = "get" THEN [cpc EXCEPT ![c] = "drain"] ELSE cpc
  BY DEF Get, DrainOne, ConsumerSide
<1> HIDE DEF h, t
<1>5. /\ queue' \in [Consumers -> Seq(Bufs)] /\ hw' \in [Consumers -> Bufs \cup {None}]
      /\ queue'[c] = t /\ hw'[c] = h
      /\ \A d \in Consumers : d # c => queue'[d] = queue[d] /\ hw'[d] = hw[d]
  BY <1>3, <1>4 DEF IInv, TypeOK
<1>6. /\ cpc' \in [Consumers -> {"top", "wait", "get", "drain", "use", "open",
                                 "vsync", "close", "slow", "exited"}]
      /\ cpc'[c] = "drain" /\ \A d \in Consumers : d # c => cpc'[d] = cpc[d]
  BY <1>4 DEF IInv, TypeOK
<1>7. c = "drm" => prev = None
  BY <1>4 DEF IInv, ThreadsInv
<1>8. PlacesInv'
  <2>1. ASSUME NEW d \in Consumers PROVE Distinct(queue[d])' /\ ~In(hw[d], queue[d])'
    <3>1. CASE d = c
      BY <1>3, <1>5, <3>1 DEF Distinct, In
    <3>2. CASE d # c
      BY <1>5, <3>2 DEF IInv, PlacesInv, Distinct, In
    <3> QED
      BY <3>1, <3>2
  <2>2. ASSUME NEW w \in Workers, job[w] # None
        PROVE  /\ job[w] # hw'["jpeg"]
               /\ ~In(job[w], queue'["jpeg"])
               /\ \A v \in Workers : job[v] = job[w] => v = w
    <3>1. /\ job[w] # hw["jpeg"]
          /\ ~In(job[w], queue["jpeg"])
          /\ \A v \in Workers : job[v] = job[w] => v = w
      BY <2>2 DEF IInv, PlacesInv
    <3> QED
      BY <1>1, <1>3, <1>5, <3>1, ConsumersFacts
  <2>3. ASSUME prev # None PROVE ~In(prev, queue'["drm"])
    <3>1. "drm" \in Consumers /\ ~In(prev, queue["drm"])
      BY <2>3 DEF IInv, PlacesInv, ThreadsInv
    <3> QED
      BY <1>5, <1>7, <2>3, <3>1
  <2> QED
    BY <1>1, <1>4, <2>1, <2>2, <2>3, SetupKept DEF PlacesInv, In
<1>9. \A d \in Consumers, b \in Bufs : d # c => (Holds(d, b)' <=> Holds(d, b))
  BY <1>1, <1>4, <1>5, SetupKept DEF Holds, In
<1>10. \A b \in Bufs :
         /\ Holds(c, b) <=> \/ In(b, t) \/ b = h \/ hw[c] = b
                            \/ c = "jpeg" /\ \E w \in Workers : job[w] = b
         /\ Holds(c, b)' <=> \/ In(b, t) \/ h = b
                             \/ c = "jpeg" /\ \E w \in Workers : job[w] = b
  <2>1. \A b \in Bufs : In(b, queue[c])' <=> In(b, t)
    BY <1>5 DEF In
  <2> QED
    BY <1>1, <1>3, <1>4, <1>5, <1>7, <2>1, SetupKept DEF Holds
<1>11. Moves
  <2>1. CASE Get(c)
    <3>1. hw[c] = None /\ refs' = refs
      BY <2>1 DEF Get, IInv, ThreadsInv
    <3> QED
      BY <1>1, <1>4, <1>9, <1>10, <3>1 DEF Moves, Kept
  <2>2. CASE DrainOne(c)
    <3>1. hw[c] \in Bufs /\ Dropped(hw[c])
      BY <2>2 DEF DrainOne, IInv, ThreadsInv, TypeOK, Dropped
    <3>2. hw[c] # h /\ ~In(hw[c], t)
      BY <1>3 DEF IInv, PlacesInv
    <3>3. c = "jpeg" => \A w \in Workers : job[w] # hw[c]
      BY <1>1, <3>1 DEF IInv, PlacesInv
    <3>4. GivenUp(c, hw[c])
      BY <1>9, <1>10, <3>1, <3>2, <3>3 DEF GivenUp
    <3> QED
      BY <1>4, <3>1, <3>4 DEF Moves
  <2> QED
    BY <2>1, <2>2
<1>12. SideTypes'
  BY <1>1, <1>4, <1>5, <1>6, SetupKept DEF IInv, TypeOK, SideTypes
<1>13. ThreadsInv'
  BY <1>1, <1>3, <1>4, <1>5, <1>6, ConsumersFacts, SetupKept DEF IInv, ThreadsInv
<1>14. spc \notin {"encoder", "capture", "closed"}
  BY <1>4 DEF IInv, SessionInv
<1> QED
  BY <1>4, <1>8, <1>11, <1>12, <1>13, <1>14, SideStep

\* A consumer is done with its buffer, or has it encoded or shown.
LEMMA HandsEmpty ==
    ASSUME IInv, NEW c \in Consumers, setup' = setup,
           hw' = [hw EXCEPT ![c] = None], queue' = queue
    PROVE  /\ hw' \in [Consumers -> Bufs \cup {None}]
           /\ hw'[c] = None /\ \A d \in Consumers : d # c => hw'[d] = hw[d]
           /\ \A d \in Consumers : Distinct(queue[d])' /\ ~In(hw[d], queue[d])'
<1>1. /\ hw' \in [Consumers -> Bufs \cup {None}]
      /\ hw'[c] = None /\ \A d \in Consumers : d # c => hw'[d] = hw[d]
  BY DEF IInv, TypeOK
<1>2. ASSUME NEW d \in Consumers PROVE Distinct(queue[d])' /\ ~In(hw[d], queue[d])'
  <2>1. queue[d] \in Seq(Bufs) /\ None \notin Bufs
    BY ConsumersFacts DEF IInv, TypeOK
  <2>2. ~In(None, queue[d])
    BY <2>1, ElementOfSeq DEF In
  <2> QED
    BY <1>1, <2>2 DEF IInv, PlacesInv, Distinct, In
<1> QED
  BY <1>1, <1>2

LEMMA DropStep ==
    ASSUME IInv, NEW c \in Consumers, DropRef(c)
    PROVE  IInv'
<1> USE DEF setupVars, drmVars
<1>1. setup \in Setups /\ None \notin Bufs /\ setup' = setup /\ c # "drm"
  BY ConsumersFacts DEF IInv, TypeOK, DropRef
<1>2. /\ queue' = queue /\ hw' = [hw EXCEPT ![c] = None] /\ ConsumerSide
      /\ UNCHANGED <<job, busy, prev, slowRet, lost>>
      /\ cpc[c] = "use" /\ cpc' = [cpc EXCEPT ![c] = "top"]
      /\ picked' = IF c = "jpeg" THEN None ELSE picked
  BY DEF DropRef, ForgetPicked, ConsumerSide
<1>3. hw[c] \in Bufs /\ Dropped(hw[c])
  BY <1>2 DEF DropRef, Dropped, IInv, TypeOK, ThreadsInv
<1>4. /\ hw' \in [Consumers -> Bufs \cup {None}]
      /\ hw'[c] = None /\ \A d \in Consumers : d # c => hw'[d] = hw[d]
      /\ \A d \in Consumers : Distinct(queue[d])' /\ ~In(hw[d], queue[d])'
  BY <1>1, <1>2, HandsEmpty
<1>5. /\ cpc' \in [Consumers -> {"top", "wait", "get", "drain", "use", "open",
                                 "vsync", "close", "slow", "exited"}]
      /\ cpc'[c] = "top" /\ \A d \in Consumers : d # c => cpc'[d] = cpc[d]
  BY <1>2 DEF IInv, TypeOK
<1>6. PlacesInv'
  <2>1. hw'["jpeg"] \in {None, hw["jpeg"]}
    BY <1>1, <1>4, ConsumersFacts
  <2> QED
    BY <1>1, <1>2, <1>4, <2>1, SetupKept DEF IInv, PlacesInv, In
<1>7. Moves
  <2>1. \A d \in Consumers, b \in Bufs : In(b, queue[d])' <=> In(b, queue[d])
    BY <1>2 DEF In
  <2>2. \A d \in Consumers, b \in Bufs : d # c => (Holds(d, b)' <=> Holds(d, b))
    BY <1>1, <1>2, <1>4, <2>1, SetupKept DEF Holds
  <2>3. \A b \in Bufs :
          /\ Holds(c, b) <=> \/ In(b, queue[c]) \/ hw[c] = b
                             \/ c = "jpeg" /\ \E w \in Workers : job[w] = b
          /\ Holds(c, b)' <=> \/ In(b, queue[c])
                              \/ c = "jpeg" /\ \E w \in Workers : job[w] = b
    BY <1>1, <1>2, <1>4, <2>1, SetupKept DEF Holds
  <2>4. /\ ~In(hw[c], queue[c])
        /\ c = "jpeg" => \A w \in Workers : job[w] # hw[c]
    BY <1>1, <1>3 DEF IInv, PlacesInv
  <2>5. GivenUp(c, hw[c])
    BY <1>3, <2>2, <2>3, <2>4 DEF GivenUp
  <2> QED
    BY <1>2, <1>3, <2>5 DEF Moves
<1>8. SideTypes'
  BY <1>1, <1>2, <1>4, <1>5, SetupKept DEF IInv, TypeOK, SideTypes
<1>9. ThreadsInv'
  BY <1>1, <1>2, <1>4, <1>5, ConsumersFacts, SetupKept DEF IInv, ThreadsInv
<1>10. spc \notin {"encoder", "capture", "closed"}
  BY <1>2 DEF IInv, SessionInv
<1> QED
  BY <1>2, <1>6, <1>7, <1>8, <1>9, <1>10, SideStep

-----------------------------------------------------------------------------
(* _jpeg_thread() and the workers *)

\* The buffer of the job that the picked worker has finished is given back.
LEMMA PickStep ==
    ASSUME IInv, NEW w \in Workers, PickWorker(w)
    PROVE  IInv'
<1> USE DEF setupVars, drmVars
<1>1. /\ setup \in Setups /\ None \notin Bufs /\ None \notin Workers
      /\ setup' = setup /\ "jpeg" \in Consumers
  BY ConsumersFacts DEF IInv, TypeOK, PickWorker
<1>2. /\ queue' = queue /\ hw' = hw /\ ConsumerSide
      /\ UNCHANGED <<busy, prev, slowRet, lost>>
      /\ cpc["jpeg"] = "wait" /\ cpc' = [cpc EXCEPT !["jpeg"] = "get"]
      /\ picked' = w /\ busy[w] = "idle" /\ job' = [job EXCEPT ![w] = None]
  BY DEF PickWorker, Idle, ConsumerSide
<1>3. /\ job' \in [Workers -> Bufs \cup {None}] /\ job[w] \in Bufs \cup {None}
      /\ job'[w] = None /\ \A v \in Workers : v # w => job'[v] = job[v]
  BY <1>2 DEF IInv, TypeOK
<1>4. /\ cpc' \in [Consumers -> {"top", "wait", "get", "drain", "use", "open",
                                 "vsync", "close", "slow", "exited"}]
      /\ cpc'["jpeg"] = "get" /\ \A d \in Consumers : d # "jpeg" => cpc'[d] = cpc[d]
  BY <1>1, <1>2 DEF IInv, TypeOK
<1>5. PlacesInv'
  BY <1>1, <1>2, <1>3, SetupKept DEF IInv, PlacesInv, In, Distinct
<1>6. Moves
  <2>1. \A d \in Consumers, b \in Bufs : In(b, queue[d])' <=> In(b, queue[d])
    BY <1>2 DEF In
  <2>2. \A d \in Consumers, b \in Bufs : d # "jpeg" => (Holds(d, b)' <=> Holds(d, b))
    BY <1>1, <1>2, <2>1, SetupKept DEF Holds
  <2>3. \A b \in Bufs :
          (\E v \in Workers : job[v] = b) <=> job[w] = b \/ (\E v \in Workers : job'[v] = b)
    BY <1>1, <1>3
  <2>4. \A b \in Bufs :
          /\ Holds("jpeg", b) <=> \/ In(b, queue["jpeg"]) \/ hw["jpeg"] = b \/ job[w] = b
                                  \/ \E v \in Workers : job'[v] = b
          /\ Holds("jpeg", b)' <=> \/ In(b, queue["jpeg"]) \/ hw["jpeg"] = b
                                   \/ \E v \in Workers : job'[v] = b
    BY <1>1, <1>2, <2>1, <2>3, SetupKept DEF Holds
  <2>5. CASE job[w] = None
    <3>1. refs' = refs
      BY <2>5 DEF PickWorker
    <3>2. Kept
      BY <1>1, <2>2, <2>4, <2>5 DEF Kept
    <3> QED
      BY <1>2, <3>1, <3>2 DEF Moves
  <2>6. CASE job[w] # None
    <3>1. job[w] \in Bufs /\ Dropped(job[w])
      BY <1>3, <2>6 DEF PickWorker, Dropped
    <3>2. /\ ~In(job[w], queue["jpeg"]) /\ hw["jpeg"] # job[w]
          /\ \A v \in Workers : job'[v] # job[w]
      BY <1>3, <2>6 DEF IInv, PlacesInv
    <3>3. GivenUp("jpeg", job[w])
      BY <1>1, <2>2, <2>4, <3>1, <3>2 DEF GivenUp
    <3> QED
      BY <1>1, <1>2, <3>1, <3>3 DEF Moves
  <2> QED
    BY <2>5, <2>6
<1>7. SideTypes'
  BY <1>1, <1>2, <1>3, <1>4, SetupKept DEF IInv, TypeOK, SideTypes
<1>8. ThreadsInv'
  BY <1>1, <1>2, <1>3, <1>4, SetupKept DEF IInv, ThreadsInv
<1>9. spc \notin {"encoder", "capture", "closed"}
  BY <1>1, <1>2 DEF IInv, SessionInv
<1> QED
  BY <1>2, <1>5, <1>6, <1>7, <1>8, <1>9, SideStep

\* The buffer goes from the hands of _jpeg_thread() to the worker, which had none.
LEMMA AssignStep ==
    ASSUME IInv, AssignWorker
    PROVE  IInv'
<1> USE DEF setupVars, drmVars
<1>1. /\ setup \in Setups /\ None \notin Bufs /\ None \notin Workers
      /\ setup' = setup /\ "jpeg" \in Consumers
  BY ConsumersFacts DEF IInv, TypeOK, AssignWorker
<1>2. /\ queue' = queue /\ hw' = [hw EXCEPT !["jpeg"] = None] /\ ConsumerSide
      /\ UNCHANGED <<prev, slowRet, lost, refs>>
      /\ cpc["jpeg"] = "use" /\ cpc' = [cpc EXCEPT !["jpeg"] = "top"]
      /\ picked' = None /\ busy' = [busy EXCEPT ![picked] = "assigned"]
      /\ job' = [job EXCEPT ![picked] = hw["jpeg"]]
  BY DEF AssignWorker, ConsumerSide
<1>3. hw["jpeg"] \in Bufs /\ picked \in Workers /\ job[picked] = None
  BY <1>1, <1>2 DEF IInv, TypeOK, ThreadsInv
<1>4. /\ hw' \in [Consumers -> Bufs \cup {None}]
      /\ hw'["jpeg"] = None /\ \A d \in Consumers : d # "jpeg" => hw'[d] = hw[d]
      /\ \A d \in Consumers : Distinct(queue[d])' /\ ~In(hw[d], queue[d])'
  BY <1>1, <1>2, HandsEmpty
<1>5. /\ job' \in [Workers -> Bufs \cup {None}]
      /\ job'[picked] = hw["jpeg"] /\ \A v \in Workers : v # picked => job'[v] = job[v]
      /\ busy' \in [Workers -> {"idle", "assigned", "running"}]
  BY <1>2, <1>3 DEF IInv, TypeOK
<1>6. /\ cpc' \in [Consumers -> {"top", "wait", "get", "drain", "use", "open",
                                 "vsync", "close", "slow", "exited"}]
      /\ cpc'["jpeg"] = "top" /\ \A d \in Consumers : d # "jpeg" => cpc'[d] = cpc[d]
  BY <1>1, <1>2 DEF IInv, TypeOK
<1>7. PlacesInv'
  <2>1. ASSUME NEW w \in Workers, job'[w] # None
        PROVE  /\ job'[w] # hw'["jpeg"]
               /\ ~In(job'[w], queue["jpeg"])
               /\ \A v \in Workers : job'[v] = job'[w] => v = w
    <3>1. /\ ~In(hw["jpeg"], queue["jpeg"])
          /\ \A v \in Workers : job[v] # None => /\ job[v] # hw["jpeg"]
                                                 /\ ~In(job[v], queue["jpeg"])
                                                 /\ \A u \in Workers : job[u] = job[v] => u = v
      BY <1>1 DEF IInv, PlacesInv
    <3> QED
      BY <1>1, <1>3, <1>4, <1>5, <2>1, <3>1
  <2> QED
    BY <1>1, <1>2, <1>4, <2>1, SetupKept DEF IInv, PlacesInv, In
<1>8. Moves
  <2>1. \A d \in Consumers, b \in Bufs : In(b, queue[d])' <=> In(b, queue[d])
    BY <1>2 DEF In
  <2>2. \A d \in Consumers, b \in Bufs : d # "jpeg" => (Holds(d, b)' <=> Holds(d, b))
    BY <1>1, <1>2, <1>4, <2>1, SetupKept DEF Holds
  <2>3. \A b \in Bufs :
          (\E v \in Workers : job'[v] = b) <=> hw["jpeg"] = b \/ (\E v \in Workers : job[v] = b)
    BY <1>1, <1>3, <1>5
  <2>4. \A b \in Bufs : Holds("jpeg", b)' <=> Holds("jpeg", b)
    BY <1>1, <1>2, <1>4, <2>1, <2>3, SetupKept DEF Holds
  <2>5. Kept
    BY <2>2, <2>4 DEF Kept
  <2> QED
    BY <1>2, <2>5 DEF Moves
<1>9. SideTypes'
  BY <1>1, <1>2, <1>4, <1>5, <1>6, SetupKept DEF IInv, TypeOK, SideTypes
<1>10. ThreadsInv'
  BY <1>1, <1>2, <1>4, <1>5, <1>6, SetupKept DEF IInv, ThreadsInv
<1>11. spc \notin {"encoder", "capture", "closed"}
  BY <1>1, <1>2 DEF IInv, SessionInv
<1> QED
  BY <1>2, <1>7, <1>8, <1>9, <1>10, <1>11, SideStep

\* An encoding begins and ends.
LEMMA WorkerSteps ==
    ASSUME IInv, NEW w \in Workers, WorkerStep(w)
    PROVE  IInv'
<1> USE DEF setupVars, drmVars
<1>1. PICK s \in {"running", "idle"} :
         /\ busy[w] # "idle" /\ busy' = [busy EXCEPT ![w] = s] /\ ConsumerSide
         /\ UNCHANGED <<queue, hw, job, prev, cpc, picked, slowRet, setup, lost, refs>>
  BY DEF WorkerStep, WorkerStart, WorkerDone, ConsumerSide
<1>2. Moves /\ PlacesInv'
  BY <1>1, NothingMoves DEF Moves, IInv
<1>3. /\ busy' \in [Workers -> {"idle", "assigned", "running"}]
      /\ \A v \in Workers : v # w => busy'[v] = busy[v]
  BY <1>1 DEF IInv, TypeOK
<1>4. SideTypes'
  BY <1>1, <1>3, SetupKept DEF IInv, TypeOK, SideTypes
<1>5. ThreadsInv'
  BY <1>1, <1>3, SetupKept DEF IInv, TypeOK, ThreadsInv
<1>6. spc \notin {"capture", "closed"}
  BY <1>1 DEF IInv, SessionInv
<1> QED
  BY <1>1, <1>2, <1>4, <1>5, <1>6, SideStep

-----------------------------------------------------------------------------
(* _drm_thread() *)

\* It goes somewhere with a buffer on the screen only to vsync or close.
LEMMA DrmThreads ==
    ASSUME IInv, "drm" \in Consumers, setup' = setup,
           NEW s \in {"top", "get", "vsync", "close", "slow", "use"},
           cpc' = [cpc EXCEPT !["drm"] = s], s = "use" => hw' = hw /\ cpc["drm"] = "use",
           s # "use" => hw'["drm"] = None,
           \A d \in Consumers : d # "drm" => hw'[d] = hw[d],
           prev' # None => s \in {"vsync", "close"},
           UNCHANGED <<job, busy, picked>>
    PROVE  /\ cpc' \in [Consumers -> {"top", "wait", "get", "drain", "use", "open",
                                      "vsync", "close", "slow", "exited"}]
           /\ ThreadsInv'
<1>1. /\ cpc' \in [Consumers -> {"top", "wait", "get", "drain", "use", "open",
                                 "vsync", "close", "slow", "exited"}]
      /\ cpc'["drm"] = s /\ \A d \in Consumers : d # "drm" => cpc'[d] = cpc[d]
  BY DEF IInv, TypeOK
<1>2. "jpeg" \in Consumers
  BY ConsumersFacts DEF IInv, TypeOK
<1>3. ThreadsInv'
  BY <1>1, <1>2, SetupKept DEF IInv, ThreadsInv
<1> QED
  BY <1>1, <1>3

\* Steps that move no buffer
LEMMA DrmQuietStep ==
    ASSUME IInv, "drm" \in Consumers,
           DrmOpen \/ DrmResume \/ (DrmVsync /\ cpc'["drm"] = "close")
    PROVE  IInv'
<1> USE DEF setupVars, jpegVars, drmVars, DrmGoto, DrmInner, DrmSlowEnds
<1>1. /\ cpc["drm"] \in {"open", "slow", "vsync"} /\ ConsumerSide
      /\ UNCHANGED <<queue, hw, job, busy, picked, prev, slowRet, setup, lost, refs>>
      /\ \E s \in {"top", "vsync", "close"} :
            /\ cpc' = [cpc EXCEPT !["drm"] = s]
            /\ cpc["drm"] = "slow" \/ s # "top"
  <2>1. CASE DrmOpen
    BY <2>1 DEF DrmOpen, ConsumerSide
  <2>2. CASE DrmResume
    BY <2>2 DEF DrmResume, ConsumerSide
  <2>3. CASE DrmVsync /\ cpc'["drm"] = "close"
    <3>1. cpc' = [cpc EXCEPT !["drm"] = "get"] => cpc'["drm"] = "get"
      BY DEF IInv, TypeOK
    <3> QED
      BY <2>3, <3>1 DEF DrmVsync, ConsumerSide
  <2> QED
    BY <2>1, <2>2, <2>3
<1>2. PICK s \in {"top", "vsync", "close"} :
         /\ cpc' = [cpc EXCEPT !["drm"] = s]
         /\ cpc["drm"] = "slow" \/ s # "top"
  BY <1>1
<1>3. Moves /\ PlacesInv'
  BY <1>1, NothingMoves DEF Moves, IInv
<1>4. hw["drm"] = None /\ (cpc["drm"] = "slow" => prev = None)
  BY <1>1 DEF IInv, ThreadsInv
<1>5. /\ cpc' \in [Consumers -> {"top", "wait", "get", "drain", "use", "open",
                                 "vsync", "close", "slow", "exited"}]
      /\ ThreadsInv'
  BY <1>1, <1>2, <1>4, DrmThreads
<1>6. SideTypes'
  BY <1>1, <1>5, SetupKept DEF IInv, TypeOK, SideTypes
<1>7. spc \notin {"encoder", "capture", "closed"}
  BY <1>1 DEF IInv, SessionInv
<1> QED
  BY <1>1, <1>3, <1>5, <1>6, <1>7, SideStep

\* The next frame is on the screen, or the output is closed: the buffer of the
\* previous frame is given back.
LEMMA DrmPrevStep ==
    ASSUME IInv, "drm" \in Consumers,
           DrmClose \/ (DrmVsync /\ cpc'["drm"] # "close")
    PROVE  IInv'
<1> USE DEF setupVars, jpegVars, drmVars, DrmGoto
<1>1. setup \in Setups /\ None \notin Bufs
  BY ConsumersFacts DEF IInv, TypeOK
<1>2. /\ cpc["drm"] \in {"close", "vsync"} /\ ConsumerSide
      /\ UNCHANGED <<queue, hw, job, busy, picked, setup, lost>>
      /\ NoPrev /\ prev' = None /\ slowRet' \in {slowRet, "top"}
      /\ \E s \in {"get", "slow"} : cpc' = [cpc EXCEPT !["drm"] = s]
  <2>1. CASE DrmClose
    BY <2>1 DEF DrmClose, ConsumerSide
  <2>2. CASE DrmVsync /\ cpc'["drm"] # "close"
    <3>1. cpc' = [cpc EXCEPT !["drm"] = "close"] => cpc'["drm"] = "close"
      BY DEF IInv, TypeOK
    <3> QED
      BY <2>2, <3>1 DEF DrmVsync, ConsumerSide
  <2> QED
    BY <2>1, <2>2
<1>3. hw["drm"] = None
  BY <1>2 DEF IInv, ThreadsInv
<1>4. PICK s \in {"get", "slow"} : cpc' = [cpc EXCEPT !["drm"] = s]
  BY <1>2
<1>5. /\ cpc' \in [Consumers -> {"top", "wait", "get", "drain", "use", "open",
                                 "vsync", "close", "slow", "exited"}]
      /\ ThreadsInv'
  BY <1>2, <1>3, <1>4, DrmThreads
<1>6. PlacesInv'
  BY <1>2, SetupKept DEF IInv, PlacesInv, In, Distinct
<1>7. Moves
  <2>1. \A d \in Consumers, b \in Bufs : In(b, queue[d])' <=> In(b, queue[d])
    BY <1>2 DEF In
  <2>2. \A d \in Consumers, b \in Bufs : d # "drm" => (Holds(d, b)' <=> Holds(d, b))
    BY <1>2, <2>1, SetupKept DEF Holds
  <2>3. \A b \in Bufs :
          /\ Holds("drm", b) <=> In(b, queue["drm"]) \/ prev = b
          /\ Holds("drm", b)' <=> In(b, queue["drm"])
    BY <1>1, <1>2, <1>3, <2>1, SetupKept DEF Holds
  <2>4. CASE prev = None
    <3>1. refs' = refs
      BY <1>2, <2>4 DEF NoPrev
    <3>2. Kept
      BY <1>1, <2>2, <2>3, <2>4 DEF Kept
    <3> QED
      BY <1>2, <3>1, <3>2 DEF Moves
  <2>5. CASE prev # None
    <3>1. prev \in Bufs /\ Dropped(prev)
      BY <1>2, <2>5 DEF NoPrev, Dropped, IInv, TypeOK
    <3>2. ~In(prev, queue["drm"])
      BY <2>5 DEF IInv, PlacesInv
    <3>3. GivenUp("drm", prev)
      BY <2>2, <2>3, <3>1, <3>2 DEF GivenUp
    <3> QED
      BY <1>2, <3>1, <3>3 DEF Moves
  <2> QED
    BY <2>4, <2>5
<1>8. SideTypes'
  BY <1>2, <1>5, SetupKept DEF IInv, TypeOK, SideTypes
<1>9. spc \notin {"encoder", "capture", "closed"}
  BY <1>2 DEF IInv, SessionInv
<1> QED
  BY <1>2, <1>5, <1>6, <1>7, <1>8, <1>9, SideStep

\* The frame is shown, or replaced by a stub picture, or neither works.
LEMMA DrmExposeStep ==
    ASSUME IInv, "drm" \in Consumers, DrmShow \/ DrmStub \/ DrmShowFails
    PROVE  IInv'
<1> USE DEF setupVars, jpegVars, drmVars, DrmGoto, DrmInner
<1>1. setup \in Setups /\ None \notin Bufs
  BY ConsumersFacts DEF IInv, TypeOK
<1>2. /\ cpc["drm"] = "use" /\ ConsumerSide
      /\ queue' = queue /\ hw' = [hw EXCEPT !["drm"] = None]
      /\ UNCHANGED <<job, busy, picked, setup>>
      /\ slowRet' \in {slowRet, "vsync"}
      /\ prev' = IF DrmShow THEN hw["drm"] ELSE prev
      /\ \E s \in {"vsync", "close", "slow"} :
            /\ cpc' = [cpc EXCEPT !["drm"] = s]
            /\ DrmShow => s # "slow"
  <2>1. CASE DrmShow
    BY <2>1 DEF DrmShow, ConsumerSide
  <2>2. CASE ~DrmShow /\ DrmStub
    BY <2>2 DEF DrmStub, ConsumerSide
  <2>3. CASE ~DrmShow /\ DrmShowFails
    BY <2>3 DEF DrmShowFails, ConsumerSide
  <2> QED
    BY <2>1, <2>2, <2>3
<1>3. hw["drm"] \in Bufs /\ prev = None
  BY <1>2 DEF IInv, TypeOK, ThreadsInv
<1>4. /\ hw' \in [Consumers -> Bufs \cup {None}]
      /\ hw'["drm"] = None /\ \A d \in Consumers : d # "drm" => hw'[d] = hw[d]
      /\ \A d \in Consumers : Distinct(queue[d])' /\ ~In(hw[d], queue[d])'
  BY <1>2, HandsEmpty
<1>5. PICK s \in {"vsync", "close", "slow"} :
         cpc' = [cpc EXCEPT !["drm"] = s] /\ (DrmShow => s # "slow")
  BY <1>2
<1>6. /\ cpc' \in [Consumers -> {"top", "wait", "get", "drain", "use", "open",
                                 "vsync", "close", "slow", "exited"}]
      /\ ThreadsInv'
  <2>1. prev' # None => s \in {"vsync", "close"}
    BY <1>2, <1>3, <1>5
  <2> QED
    BY <1>2, <1>4, <1>5, <2>1, DrmThreads
<1>7. PlacesInv'
  <2>1. ~In(hw["drm"], queue["drm"]) /\ hw'["jpeg"] = hw["jpeg"]
    BY <1>1, <1>4, ConsumersFacts DEF IInv, PlacesInv
  <2>2. prev' # None => ~In(prev', queue["drm"])
    BY <1>2, <1>3, <2>1
  <2> QED
    BY <1>2, <1>4, <2>1, <2>2, SetupKept DEF IInv, PlacesInv, In
<1>8. Moves
  <2>1. \A d \in Consumers, b \in Bufs : In(b, queue[d])' <=> In(b, queue[d])
    BY <1>2 DEF In
  <2>2. \A d \in Consumers, b \in Bufs : d # "drm" => (Holds(d, b)' <=> Holds(d, b))
    BY <1>2, <1>4, <2>1, SetupKept DEF Holds
  <2>3. \A b \in Bufs :
          /\ Holds("drm", b) <=> In(b, queue["drm"]) \/ hw["drm"] = b
          /\ Holds("drm", b)' <=> In(b, queue["drm"]) \/ prev' = b
    BY <1>1, <1>2, <1>3, <1>4, <2>1, SetupKept DEF Holds
  <2>4. CASE DrmShow
    <3>1. refs' = refs /\ lost' = lost /\ prev' = hw["drm"]
      BY <2>4 DEF DrmShow
    <3>2. Kept
      BY <2>2, <2>3, <3>1 DEF Kept
    <3> QED
      BY <3>1, <3>2 DEF Moves
  <2>5. CASE ~DrmShow
    <3>1. ~In(hw["drm"], queue["drm"]) /\ prev' = None
      BY <1>2, <1>3, <2>5 DEF IInv, PlacesInv
    <3>2. GivenUp("drm", hw["drm"])
      BY <1>1, <1>3, <2>2, <2>3, <3>1 DEF GivenUp
    <3>3. CASE DrmStub
      BY <1>3, <3>2, <3>3 DEF DrmStub, Dropped, Moves
    <3>4. CASE DrmShowFails
      BY <1>3, <3>2, <3>4 DEF DrmShowFails, Moves
    <3> QED
      BY <2>5, <3>3, <3>4
  <2> QED
    BY <2>4, <2>5
<1>9. SideTypes'
  BY <1>2, <1>3, <1>4, <1>6, SetupKept DEF IInv, TypeOK, SideTypes
<1>10. spc \notin {"encoder", "capture", "closed"}
  BY <1>2 DEF IInv, SessionInv
<1> QED
  BY <1>2, <1>6, <1>7, <1>8, <1>9, <1>10, SideStep

\* A frame is thrown away as it comes.
LEMMA DrmDiscardStep ==
    ASSUME IInv, "drm" \in Consumers, DrmDiscard
    PROVE  IInv'
<1> USE DEF setupVars, jpegVars, drmVars, DrmGoto, DrmInner, DrmSlowEnds
<1> DEFINE h == Head(queue["drm"])
           t == Tail(queue["drm"])
<1>1. /\ setup \in Setups /\ None \notin Bufs /\ setup' = setup
      /\ queue["drm"] \in Seq(Bufs) /\ queue["drm"] # <<>>
  BY ConsumersFacts DEF IInv, TypeOK, DrmDiscard
<1>2. /\ h \in Bufs /\ t \in Seq(Bufs)
      /\ \A x : In(x, queue["drm"]) <=> In(x, t) \/ x = h
      /\ Distinct(t) /\ ~In(h, t)
  BY <1>1, TailFacts DEF IInv, PlacesInv
<1>3. /\ cpc["drm"] = "slow" /\ ConsumerSide
      /\ queue' = [queue EXCEPT !["drm"] = t] /\ Dropped(h)
      /\ UNCHANGED <<hw, job, busy, picked, prev, slowRet, lost>>
      /\ cpc' = cpc \/ \E s \in {"top", "vsync", "close"} : cpc' = [cpc EXCEPT !["drm"] = s]
  BY DEF DrmDiscard, ConsumerSide, Dropped
<1> HIDE DEF h, t
<1>4. /\ queue' \in [Consumers -> Seq(Bufs)] /\ queue'["drm"] = t
      /\ \A d \in Consumers : d # "drm" => queue'[d] = queue[d]
  BY <1>2, <1>3 DEF IInv, TypeOK
<1>5. PICK s \in {"slow", "top", "vsync", "close"} : cpc' = [cpc EXCEPT !["drm"] = s]
  <2>1. cpc = [cpc EXCEPT !["drm"] = "slow"]
    BY <1>3 DEF IInv, TypeOK
  <2> QED
    BY <1>3, <2>1
<1>6. hw["drm"] = None /\ prev = None
  BY <1>3 DEF IInv, ThreadsInv
<1>7. /\ cpc' \in [Consumers -> {"top", "wait", "get", "drain", "use", "open",
                                 "vsync", "close", "slow", "exited"}]
      /\ ThreadsInv'
  BY <1>1, <1>3, <1>5, <1>6, DrmThreads
<1>8. PlacesInv'
  <2>1. ASSUME NEW d \in Consumers PROVE Distinct(queue[d])' /\ ~In(hw[d], queue[d])'
    <3>1. CASE d = "drm"
      <4>1. ~In(hw[d], t)
        BY <1>2, <3>1 DEF IInv, PlacesInv
      <4> QED
        BY <1>2, <1>3, <1>4, <3>1, <4>1 DEF Distinct, In
    <3>2. CASE d # "drm"
      BY <1>3, <1>4, <3>2 DEF IInv, PlacesInv, Distinct, In
    <3> QED
      BY <3>1, <3>2
  <2>2. queue'["jpeg"] = queue["jpeg"]
    BY <1>1, <1>4, ConsumersFacts
  <2> QED
    BY <1>1, <1>3, <1>6, <2>1, <2>2, SetupKept DEF IInv, PlacesInv, In
<1>9. Moves
  <2>1. /\ \A d \in Consumers, b \in Bufs : d # "drm" => (In(b, queue[d])' <=> In(b, queue[d]))
        /\ \A b \in Bufs : In(b, queue["drm"])' <=> In(b, t)
    BY <1>4 DEF In
  <2>2. \A d \in Consumers, b \in Bufs : d # "drm" => (Holds(d, b)' <=> Holds(d, b))
    BY <1>1, <1>3, <2>1, SetupKept DEF Holds
  <2>3. \A b \in Bufs :
          /\ Holds("drm", b) <=> In(b, t) \/ b = h
          /\ Holds("drm", b)' <=> In(b, t)
    BY <1>1, <1>2, <1>3, <1>6, <2>1, SetupKept DEF Holds
  <2>4. GivenUp("drm", h)
    BY <1>2, <2>2, <2>3 DEF GivenUp
  <2> QED
    BY <1>2, <1>3, <2>4 DEF Moves
<1>10. SideTypes'
  BY <1>1, <1>3, <1>4, <1>7, SetupKept DEF IInv, TypeOK, SideTypes
<1>11. spc \notin {"encoder", "capture", "closed"}
  BY <1>3 DEF IInv, SessionInv
<1> QED
  BY <1>3, <1>7, <1>8, <1>9, <1>10, <1>11, SideStep

LEMMA DrmSteps ==
    ASSUME IInv, DrmStep
    PROVE  IInv'
<1>1. "drm" \in Consumers
  BY ConsumersFacts DEF DrmStep, IInv, TypeOK
<1>2. \/ DrmOpen \/ DrmResume \/ (DrmVsync /\ cpc'["drm"] = "close")
      \/ DrmClose \/ (DrmVsync /\ cpc'["drm"] # "close")
      \/ DrmShow \/ DrmStub \/ DrmShowFails \/ DrmDiscard
  BY DEF DrmStep
<1> QED
  BY <1>1, <1>2, DrmQuietStep, DrmPrevStep, DrmExposeStep, DrmDiscardStep

-----------------------------------------------------------------------------
(* The driver and the releasers *)

\* They move no buffer between the consumers, but the driver gets one back or
\* fills one.
LEMMA BufferSteps ==
    ASSUME IInv, NEW b \in Bufs, DriverFill(b) \/ ReleaserStep(b)
    PROVE  IInv'
<1> USE DEF setupVars, jpegVars, drmVars, streamVars, driverVars, releaserVars
<1>1. /\ UNCHANGED <<queue, hw, cpc, job, busy, picked, prev, slowRet, refs,
                     spc, current, todo, setup, lost>>
      /\ threadsStop' \in BOOLEAN
  BY DEF DriverFill, ReleaserStep, ReleaserGet, ReleaserSpin, Requeue, ClearGrabbed,
         RequeueFails, ReleaserStop, IInv, TypeOK
<1>2. Kept /\ PlacesInv'
  BY <1>1, NothingMoves DEF IInv
<1>3. CountInv'
  BY <1>1, <1>2, CountKept DEF IInv, Open
<1>4. TodoInv'
  BY <1>1, SetupKept DEF IInv, TodoInv, Distinct, In, Holds
<1>5. ThreadsInv'
  BY <1>1, SetupKept DEF IInv, ThreadsInv
<1>6. /\ driver' \in [Bufs -> {"empty", "filled", "user"}]
      /\ grabbed' \in [Bufs -> BOOLEAN]
      /\ planned' \subseteq Bufs
      /\ rpc' \in [Bufs -> {"get", "spin", "release", "clear", "exited"}]
  <2> USE DEF IInv, TypeOK, ReleaserGoto
  <2>1. CASE DriverFill(b)
    BY <2>1 DEF DriverFill
  <2>2. CASE ReleaserGet(b)
    BY <2>2 DEF ReleaserGet
  <2>3. CASE ReleaserSpin(b)
    BY <2>3 DEF ReleaserSpin
  <2>4. CASE Requeue(b)
    BY <2>4 DEF Requeue
  <2>5. CASE ClearGrabbed(b)
    <3>1. /\ grabbed' = [grabbed EXCEPT ![b] = FALSE]
          /\ driver' = driver /\ planned' = planned
          /\ rpc' = [rpc EXCEPT ![b] = "exited"] \/ rpc' = [rpc EXCEPT ![b] = "get"]
      BY <2>5, Zenon DEF ClearGrabbed
    <3>2. grabbed' \in [Bufs -> BOOLEAN]
      BY <3>1
    <3> QED
      BY <3>1, <3>2
  <2>6. CASE RequeueFails(b)
    BY <2>6 DEF RequeueFails
  <2>7. CASE ReleaserStop(b)
    BY <2>7 DEF ReleaserStop
  <2> QED
    BY <2>1, <2>2, <2>3, <2>4, <2>5, <2>6, <2>7 DEF ReleaserStep
<1>7. TypeOK'
  BY <1>1, <1>6, SetupKept DEF IInv, TypeOK
<1>8. \A a \in Bufs : a # b => rpc'[a] = rpc[a]
  BY DEF DriverFill, ReleaserStep, ReleaserGet, ReleaserSpin, Requeue, ClearGrabbed,
         RequeueFails, ReleaserStop, ReleaserGoto, IInv, TypeOK
<1>9. SessionInv'
  <2>1. DriverFill(b) \/ rpc[b] # "exited"
    BY DEF ReleaserStep, ReleaserGet, ReleaserSpin, Requeue, ClearGrabbed,
           RequeueFails, ReleaserStop
  <2>2. DriverFill(b) => rpc' = rpc
    BY DEF DriverFill
  <2> QED
    BY <1>1, <1>8, <2>1, <2>2, SetupKept DEF IInv, SessionInv
<1>10. BufferInv'
  <2> SUFFICES ASSUME NEW a \in Bufs
               PROVE  /\ driver'[a] = "user" => grabbed'[a]
                      /\ current = a => driver'[a] = "user" /\ a \notin planned'
                                        /\ rpc'[a] \in {"get", "exited"}
                      /\ a \in planned' => driver'[a] = "user" /\ rpc'[a] \in {"get", "exited"}
                      /\ rpc'[a] \in {"spin", "release"} => driver'[a] = "user"
                      /\ rpc'[a] = "release" => refs[a] = 0
                      /\ rpc'[a] = "clear" => grabbed'[a] /\ driver'[a] # "user"
                      /\ \A c \in Consumers : Holds(c, a) => driver'[a] = "user"
    BY <1>1, <1>2, SetupKept DEF BufferInv, Kept
  <2>1. /\ driver[a] = "user" => grabbed[a]
        /\ current = a => driver[a] = "user" /\ a \notin planned
                          /\ rpc[a] \in {"get", "exited"}
        /\ a \in planned => driver[a] = "user" /\ rpc[a] \in {"get", "exited"}
        /\ rpc[a] \in {"spin", "release"} => driver[a] = "user"
        /\ rpc[a] = "release" => refs[a] = 0
        /\ rpc[a] = "clear" => grabbed[a] /\ driver[a] # "user"
        /\ \A c \in Consumers : Holds(c, a) => driver[a] = "user"
    BY DEF IInv, BufferInv
  <2> USE DEF IInv, TypeOK, ReleaserGoto
  <2>2. CASE DriverFill(b)
    BY <2>1, <2>2 DEF DriverFill
  <2>3. CASE ReleaserGet(b)
    BY <2>1, <2>3 DEF ReleaserGet
  <2>4. CASE ReleaserSpin(b)
    BY <2>1, <2>4 DEF ReleaserSpin
  <2>5. CASE Requeue(b)
    <3>1. ASSUME a = b, NEW c \in Consumers, Holds(c, a) PROVE FALSE
      <4>1. refs[a] = 0 /\ a \in Bufs
        BY <2>1, <2>5, <3>1 DEF Requeue
      <4>2. Cardinality(HeldBy(a)) <= 0 /\ Cardinality(HeldBy(a)) \in Nat
            /\ IsFiniteSet(HeldBy(a))
        BY <4>1, HeldByFinite DEF CountInv
      <4>3. HeldBy(a) = {}
        BY <4>2, FS_EmptySet
      <4> QED
        BY <3>1, <4>3 DEF HeldBy
    <3> QED
      BY <2>1, <2>5, <3>1 DEF Requeue
  <2>6. CASE ClearGrabbed(b)
    <3>1. CASE a = b
      <4>1. driver[a] # "user" /\ driver' = driver /\ planned' = planned
            /\ rpc'[a] \in {"get", "exited"}
        BY <2>1, <2>6, <3>1 DEF ClearGrabbed
      <4> QED
        BY <2>1, <4>1
    <3>2. CASE a # b
      <4>1. grabbed'[a] = grabbed[a] /\ rpc'[a] = rpc[a] /\ driver' = driver
            /\ planned' = planned
        BY <2>6, <3>2, <1>8 DEF ClearGrabbed
      <4> QED
        BY <2>1, <4>1
    <3> QED
      BY <3>1, <3>2
  <2>7. CASE RequeueFails(b)
    BY <2>1, <2>7 DEF RequeueFails
  <2>8. CASE ReleaserStop(b)
    BY <2>1, <2>8 DEF ReleaserStop
  <2> QED
    BY <2>2, <2>3, <2>4, <2>5, <2>6, <2>7, <2>8 DEF ReleaserStep
<1> QED
  BY <1>2, <1>3, <1>4, <1>5, <1>7, <1>9, <1>10 DEF IInv

-----------------------------------------------------------------------------
(* The stream thread *)

\* Nothing of the consumers changes.
ConsumersRest ==
    UNCHANGED <<queue, hw, cpc, jpegVars, drmVars, setupVars>>

LEMMA ConsumersRestKeeps ==
    ASSUME IInv, ConsumersRest
    PROVE  /\ Kept /\ PlacesInv' /\ ThreadsInv' /\ setup' = setup /\ lost' = lost
           /\ refs' = refs /\ (Open' => Open) => CountInv'
<1> USE DEF ConsumersRest, jpegVars, drmVars, setupVars
<1>1. Kept /\ PlacesInv'
  BY NothingMoves DEF IInv
<1>2. ThreadsInv'
  BY SetupKept DEF IInv, ThreadsInv
<1>3. refs' = refs /\ (Open' => Open) => CountInv'
  BY <1>1, CountKept DEF IInv
<1> QED
  BY <1>1, <1>2, <1>3

\* us_capture_hwbuf_grab() gives a buffer of the driver: nobody has it.
LEMMA GrabStep ==
    ASSUME IInv, NEW b \in Bufs, Grab(b)
    PROVE  IInv'
<1>1. /\ spc = "grab" /\ spc' = "hand" /\ current' = b /\ todo' = HandOut
      /\ ConsumersRest /\ planned' = planned /\ rpc' = rpc /\ threadsStop' = threadsStop
      /\ refs' = [refs EXCEPT ![b] = 0] /\ grabbed' = [grabbed EXCEPT ![b] = TRUE]
      /\ driver[b] = "filled" /\ \A f \in Filled : ~grabbed[f]
      /\ driver' = [d \in Bufs |-> IF d = b THEN "user"
                                   ELSE IF d \in Filled THEN "empty" ELSE driver[d]]
  BY DEF Grab, ConsumersRest, releaserVars, Filled
<1>2. /\ setup \in Setups /\ setup' = setup /\ lost' = lost
      /\ Kept /\ PlacesInv' /\ ThreadsInv'
  BY <1>1, ConsumersRestKeeps DEF IInv, TypeOK
<1>3. /\ refs' \in [Bufs -> Nat] /\ refs'[b] = 0
      /\ \A a \in Bufs : a # b => refs'[a] = refs[a]
      /\ driver' \in [Bufs -> {"empty", "filled", "user"}] /\ driver'[b] = "user"
      /\ \A a \in Bufs : driver[a] = "user" => driver'[a] = "user"
      /\ \A a \in Bufs : driver'[a] = "user" => a = b \/ driver[a] = "user"
      /\ grabbed'[b] = TRUE
      /\ \A a \in Bufs : a # b => grabbed'[a] = grabbed[a]
  BY <1>1 DEF IInv, TypeOK, Filled
<1>4. grabbed' \in [Bufs -> BOOLEAN]
  BY <1>1 DEF IInv, TypeOK
<1>5. ~grabbed[b] /\ \A c \in Consumers : ~Holds(c, b)
  BY <1>1 DEF Filled, IInv, BufferInv
<1>6. b \notin planned /\ rpc[b] \in {"get", "exited"}
  BY <1>1, <1>5 DEF IInv, TypeOK, BufferInv
<1>7. HandOut \in Seq(Consumers) /\ Distinct(HandOut)
  BY <1>2, HandOutFacts
<1>8. TypeOK'
  BY <1>1, <1>2, <1>3, <1>4, <1>7, SetupKept
     DEF IInv, TypeOK, ConsumersRest, jpegVars, drmVars, setupVars
<1>9. SessionInv'
  BY <1>1, <1>2, ConsumersFacts DEF SessionInv
<1>10. BufferInv'
  <2>1. \A c \in Consumers, a \in Bufs : Holds(c, a)' <=> Holds(c, a)
    BY <1>2 DEF Kept
  <2> QED
    BY <1>1, <1>2, <1>3, <1>5, <1>6, <2>1, SetupKept DEF IInv, BufferInv
<1>11. TodoInv'
  <2>1. \A c \in Consumers : ~Holds(c, b)'
    BY <1>2, <1>5 DEF Kept
  <2>2. \A c \in Consumers : ~Holds(c, current)'
    BY <1>1, <2>1 DEF Holds
  <2>3. Distinct(todo)'
    BY <1>1, <1>7 DEF Distinct
  <2> QED
    BY <1>2, <2>2, <2>3, SetupKept DEF TodoInv
<1>12. CountInv'
  <2> SUFFICES ASSUME NEW a \in Bufs
               PROVE  /\ Cardinality(HeldBy(a)') <= refs'[a]
                      /\ Open' /\ a \notin lost' => refs'[a] = Cardinality(HeldBy(a)')
    BY <1>2, SetupKept DEF CountInv
  <2>1. HeldBy(a)' = HeldBy(a)
    BY <1>2, KeptCounts
  <2>2. a = b => HeldBy(a) = {} /\ Cardinality(HeldBy(a)) = 0
    BY <1>5, FS_EmptySet DEF HeldBy
  <2> QED
    BY <1>1, <1>2, <1>3, <2>1, <2>2 DEF IInv, CountInv, Open
<1> QED
  BY <1>2, <1>8, <1>9, <1>10, <1>11, <1>12 DEF IInv

\* The steps that leave the references and the consumers alone
LEMMA LoopSteps ==
    ASSUME IInv,
           \/ GrabBroken \/ LeaveLoop \/ PlanRelease \/ StopThreads \/ JoinThreads
           \/ CloseCapture
    PROVE  IInv'
<1>1. /\ ConsumersRest /\ refs' = refs /\ grabbed' = grabbed /\ rpc' = rpc /\ todo' = todo
      /\ spc \in {"grab", "hand", "close", "join", "capture"}
      /\ driver' = driver \/ (GrabBroken /\ current' = current /\ planned' = planned)
      /\ PlanRelease \/ (current' = current /\ planned' = planned)
      /\ spc = "hand" <=> PlanRelease
      /\ PlanRelease => todo = <<>> /\ current' = None /\ planned' = planned \cup {current}
  BY DEF GrabBroken, LeaveLoop, PlanRelease, StopThreads, JoinThreads, CloseCapture,
         ConsumersRest, jpegVars, drmVars, setupVars, releaserVars, driverVars
<1>2. spc' \in {"grab", "close", "join", "encoder", "closed"} /\ threadsStop' \in BOOLEAN
      /\ (spc' = "encoder" => \A c \in Consumers : cpc[c] = "exited")
      /\ (spc' = "encoder" => \A b \in Bufs : rpc[b] = "exited")
      /\ (spc' = "closed" <=> spc = "capture")
  BY DEF GrabBroken, LeaveLoop, PlanRelease, StopThreads, JoinThreads, CloseCapture,
         LoopCheck, IInv, TypeOK
<1>3. /\ setup \in Setups /\ setup' = setup /\ lost' = lost
      /\ Kept /\ PlacesInv' /\ ThreadsInv' /\ CountInv'
  <2>1. Open' => Open
    BY <1>1, <1>2 DEF Open
  <2> QED
    BY <1>1, <2>1, ConsumersRestKeeps DEF IInv, TypeOK
<1>4. /\ driver' \in [Bufs -> {"empty", "filled", "user"}]
      /\ \A a \in Bufs : driver'[a] = "user" <=> driver[a] = "user"
  <2>1. CASE GrabBroken
    BY <2>1 DEF GrabBroken, Filled, IInv, TypeOK
  <2>2. CASE driver' = driver
    BY <2>2 DEF IInv, TypeOK
  <2> QED
    BY <1>1, <2>1, <2>2
<1>5. (PlanRelease => current \in Bufs) /\ (~PlanRelease => current = None)
  BY <1>1 DEF IInv, TypeOK, SessionInv
<1>6. current' = None /\ todo' = <<>>
  BY <1>1, <1>5 DEF IInv, SessionInv
<1>7. TypeOK'
  BY <1>1, <1>2, <1>3, <1>4, <1>5, <1>6, SetupKept
     DEF IInv, TypeOK, ConsumersRest, jpegVars, drmVars, setupVars
<1>8. SessionInv'
  BY <1>1, <1>2, <1>3, <1>6, SetupKept
     DEF IInv, SessionInv, ConsumersRest, jpegVars, drmVars, setupVars
<1>9. BufferInv'
  <2>1. \A c \in Consumers, a \in Bufs : Holds(c, a)' <=> Holds(c, a)
    BY <1>3 DEF Kept
  <2>2. \A a \in Bufs : a \in planned' => a \in planned \/ a = current
    BY <1>1
  <2> QED
    BY <1>1, <1>3, <1>4, <1>6, <2>1, <2>2, SetupKept, ConsumersFacts DEF IInv, BufferInv
<1>10. TodoInv'
  BY <1>2, <1>6, EmptyFacts DEF TodoInv, Distinct
<1> QED
  BY <1>3, <1>7, <1>8, <1>9, <1>10 DEF IInv

\* us_encoder_close() forgets the buffers of the jobs, but not the references.
LEMMA CloseEncoderStep ==
    ASSUME IInv, CloseEncoder
    PROVE  IInv'
<1>1. /\ spc = "encoder" /\ spc' = "capture"
      /\ busy' = [w \in Workers |-> "idle"] /\ job' = [w \in Workers |-> None]
      /\ UNCHANGED <<queue, hw, cpc, prev, slowRet, picked, refs, driver, grabbed,
                     planned, rpc, current, todo, threadsStop, setup, lost>>
  BY DEF CloseEncoder, driverVars, drmVars, releaserVars, setupVars
<1>2. setup \in Setups /\ "jpeg" \in Consumers
  BY ConsumersFacts DEF IInv, TypeOK
<1>3. /\ \A c \in Consumers : cpc[c] = "exited"
      /\ \A b \in Bufs : rpc[b] = "exited"
      /\ current = None /\ todo = <<>> /\ picked = None
  BY <1>1, <1>2 DEF IInv, SessionInv, ThreadsInv
<1>4. TypeOK'
  BY <1>1, SetupKept DEF IInv, TypeOK
<1>5. ThreadsInv'
  BY <1>1, <1>3, SetupKept DEF IInv, ThreadsInv
<1>6. SessionInv'
  BY <1>1, <1>3, SetupKept DEF SessionInv
<1>7. \A c \in Consumers, b \in Bufs : Holds(c, b)' => Holds(c, b)
  <2>1. \A b \in Bufs, w \in Workers : job'[w] # b
    BY <1>1, <1>2, ConsumersFacts
  <2> QED
    BY <1>1, <2>1, SetupKept DEF Holds, In
<1>8. BufferInv'
  BY <1>1, <1>7, SetupKept DEF IInv, BufferInv
<1>9. PlacesInv'
  BY <1>1, SetupKept DEF IInv, PlacesInv, In, Distinct
<1>10. TodoInv'
  BY <1>1, <1>3, EmptyFacts DEF TodoInv, Distinct
<1>11. CountInv'
  <2> SUFFICES ASSUME NEW b \in Bufs PROVE Cardinality(HeldBy(b)') <= refs[b]
    BY <1>1, SetupKept DEF CountInv, Open
  <2>1. HeldBy(b)' \in SUBSET HeldBy(b)
    BY <1>1, <1>7, SetupKept DEF HeldBy
  <2>2. IsFiniteSet(HeldBy(b)) /\ Cardinality(HeldBy(b)) \in Nat
    BY <1>2, HeldByFinite
  <2>3. IsFiniteSet(HeldBy(b)') /\ Cardinality(HeldBy(b)') <= Cardinality(HeldBy(b))
    BY <2>1, <2>2, FS_Subset
  <2>4. Cardinality(HeldBy(b)') \in Nat
    BY <2>3, FS_CardinalityType
  <2> QED
    BY <2>2, <2>3, <2>4 DEF IInv, CountInv, TypeOK
<1> QED
  BY <1>4, <1>5, <1>6, <1>8, <1>9, <1>10, <1>11 DEF IInv

\* A session starts with every buffer at the driver.
Fresh ==
    /\ setup \in Setups
    /\ lost = {}
    /\ driver = [b \in Bufs |-> "empty"]
    /\ grabbed = [b \in Bufs |-> FALSE]
    /\ refs = [b \in Bufs |-> 0]
    /\ queue = [c \in Consumers |-> <<>>]
    /\ hw = [c \in Consumers |-> None]
    /\ cpc = [c \in Consumers |-> "top"]
    /\ prev = None /\ slowRet = "top"
    /\ job = [w \in Workers |-> None]
    /\ busy = [w \in Workers |-> "idle"]
    /\ picked = None /\ planned = {}
    /\ rpc = [b \in Bufs |-> "get"]
    /\ spc = "grab" /\ current = None /\ todo = <<>>
    /\ threadsStop \in BOOLEAN

LEMMA FreshSession == Fresh => IInv
<1> SUFFICES ASSUME Fresh PROVE IInv
  OBVIOUS
<1> USE DEF Fresh
<1>1. "jpeg" \in Consumers /\ None \notin Bufs
  BY ConsumersFacts
<1>2. TypeOK
  <2>1. [b \in Bufs |-> FALSE] \in [Bufs -> BOOLEAN]
    OBVIOUS
  <2>2. [c \in Consumers |-> <<>>] \in [Consumers -> Seq(Bufs)] /\ <<>> \in Seq(Consumers)
    BY EmptyFacts
  <2> QED
    BY <2>1, <2>2 DEF TypeOK
<1>3. ThreadsInv /\ SessionInv
  BY <1>1 DEF ThreadsInv, SessionInv
<1>4. \A c \in Consumers, b \in Bufs : ~Holds(c, b)
  BY <1>1, EmptyFacts DEF Holds
<1>5. BufferInv
  BY <1>1, <1>4 DEF BufferInv
<1>6. PlacesInv
  BY EmptyFacts DEF PlacesInv
<1>7. TodoInv
  BY EmptyFacts DEF TodoInv
<1>8. CountInv
  <2> SUFFICES ASSUME NEW b \in Bufs PROVE Cardinality(HeldBy(b)) = refs[b]
    BY DEF CountInv
  <2>1. HeldBy(b) = {}
    BY <1>4 DEF HeldBy
  <2> QED
    BY <2>1, FS_EmptySet
<1> QED
  BY <1>2, <1>3, <1>5, <1>6, <1>7, <1>8 DEF IInv

LEMMA InitInv == Init => IInv
BY FreshSession DEF Init, Fresh

LEMMA FreshSessionPrimed == Fresh' => IInv'
BY FreshSession, PTL

LEMMA ReopenStep ==
    ASSUME IInv, Reopen
    PROVE  IInv'
<1>1. setup \in Setups /\ setup' = setup /\ "jpeg" \in Consumers
  BY ConsumersFacts DEF Reopen, IInv, TypeOK
<1>2. /\ spc = "closed"
      /\ UNCHANGED <<prev, job, busy, picked, current, todo, threadsStop>>
  BY DEF Reopen
<1>3. /\ prev = None /\ picked = None /\ current = None /\ todo = <<>>
      /\ job = [w \in Workers |-> None] /\ busy = [w \in Workers |-> "idle"]
      /\ threadsStop \in BOOLEAN
  <2>1. /\ \A c \in Consumers : cpc[c] = "exited"
        /\ \A w \in Workers : busy[w] = "idle" /\ job[w] = None
        /\ current = None /\ todo = <<>>
    BY <1>2 DEF IInv, SessionInv
  <2>2. job \in [Workers -> Bufs \cup {None}]
        /\ busy \in [Workers -> {"idle", "assigned", "running"}]
        /\ threadsStop \in BOOLEAN
    BY DEF IInv, TypeOK
  <2> QED
    BY <1>1, <2>1, <2>2 DEF IInv, ThreadsInv
<1> QED
  BY <1>1, <1>2, <1>3, SetupKept, FreshSessionPrimed DEF Reopen, Fresh

\* While a buffer is handed out: the next consumer does not have it yet, and
\* only the queue of the RAW sink may be full.
LEMMA NextConsumer ==
    ASSUME IInv, spc = "hand", todo # <<>>
    PROVE  /\ Head(todo) \in Consumers /\ current \in Bufs
           /\ ~Holds(Head(todo), current)
           /\ Tail(todo) \in Seq(Consumers) /\ Distinct(Tail(todo))
           /\ ~In(Head(todo), Tail(todo))
           /\ \A c : In(c, Tail(todo)) => In(c, todo)
           /\ Head(todo) # "raw" => Len(queue[Head(todo)]) < QueueCapacity(Head(todo))
<1>1. /\ todo \in Seq(Consumers) /\ setup \in Setups /\ current \in Bufs
      /\ queue \in [Consumers -> Seq(Bufs)]
  BY DEF IInv, TypeOK, SessionInv
<1>2. /\ Head(todo) \in Consumers /\ In(Head(todo), todo)
      /\ Tail(todo) \in Seq(Consumers) /\ Distinct(Tail(todo))
      /\ ~In(Head(todo), Tail(todo))
      /\ \A c : In(c, Tail(todo)) => In(c, todo)
  BY <1>1, TailFacts DEF IInv, TodoInv
<1>3. ~Holds(Head(todo), current)
  BY <1>2 DEF IInv, TodoInv
<1>4. Len(queue[Head(todo)]) < setup.bufs
  <2>1. ~In(current, queue[Head(todo)]) /\ Distinct(queue[Head(todo)])
    BY <1>2, <1>3 DEF Holds, IInv, PlacesInv
  <2> QED
    BY <1>1, <1>2, <2>1, QueueHasRoom
<1> QED
  BY <1>1, <1>2, <1>3, <1>4 DEF QueueCapacity

LEMMA HandStep ==
    ASSUME IInv, HandToConsumer
    PROVE  IInv'
<1>0. PICK c \in Consumers : c = Head(todo)
  BY NextConsumer DEF HandToConsumer
<1> DEFINE q == Append(queue[c], current)
           full == Len(queue[c]) = QueueCapacity(c)
<1>1. /\ spc = "hand" /\ todo # <<>> /\ Referenced(current) /\ todo' = Tail(todo)
      /\ queue' = IF full THEN queue ELSE [queue EXCEPT ![c] = q]
      /\ lost' = IF full /\ c = "raw" THEN lost \cup {current} ELSE lost
      /\ UNCHANGED <<hw, cpc, threadsStop, setup, spc, current, driver, grabbed, job,
                     busy, picked, prev, slowRet, planned, rpc>>
  BY <1>0 DEF HandToConsumer, Referenced, driverVars, jpegVars, drmVars, releaserVars
<1>2. /\ c \in Consumers /\ current \in Bufs /\ ~Holds(c, current)
      /\ todo' \in Seq(Consumers) /\ Distinct(todo') /\ ~In(c, todo')
      /\ \A d : In(d, todo') => In(d, todo)
      /\ c # "raw" => ~full
  <2>1. Len(queue[c]) < QueueCapacity(c) => ~full
    <3>1. Len(queue[c]) \in Nat
      BY <1>0, <1>1, NextConsumer, LenProperties DEF IInv, TypeOK
    <3> QED
      BY <3>1
  <2> QED
    BY <1>0, <1>1, <2>1, NextConsumer
<1>3. /\ setup \in Setups /\ refs \in [Bufs -> Nat] /\ queue \in [Consumers -> Seq(Bufs)]
      /\ "jpeg" \in Consumers /\ None \notin Bufs
  BY ConsumersFacts DEF IInv, TypeOK
<1>4. /\ q \in Seq(Bufs)
      /\ \A x : In(x, q) <=> In(x, queue[c]) \/ x = current
      /\ Distinct(q)
  <2>1. ~In(current, queue[c]) /\ Distinct(queue[c])
    BY <1>2 DEF Holds, IInv, PlacesInv
  <2> QED
    BY <1>2, <1>3, <2>1, AppendFacts
<1> HIDE DEF q, full
<1>5. /\ queue' \in [Consumers -> Seq(Bufs)]
      /\ \A d \in Consumers : d # c => queue'[d] = queue[d]
      /\ full => queue' = queue
      /\ ~full => queue'[c] = q
  BY <1>1, <1>2, <1>3, <1>4
<1>6. /\ refs' \in [Bufs -> Nat]
      /\ \A b \in Bufs : b # current => refs'[b] = refs[b]
  BY <1>1, <1>2, <1>3 DEF Referenced
<1>7. TypeOK'
  BY <1>1, <1>2, <1>3, <1>5, <1>6, SetupKept DEF IInv, TypeOK
<1>8. ThreadsInv' /\ SessionInv'
  BY <1>1, SetupKept DEF IInv, ThreadsInv, SessionInv
<1>9. /\ full => Kept
      /\ ~full => Given(c, current)
  <2>1. \A d \in Consumers, b \in Bufs :
          d # c \/ full => (In(b, queue[d])' <=> In(b, queue[d]))
    BY <1>5 DEF In
  <2>2. ~full => \A b \in Bufs : In(b, queue[c])' <=> In(b, queue[c]) \/ b = current
    BY <1>4, <1>5 DEF In
  <2>3. \A d \in Consumers, b \in Bufs : d # c \/ full => (Holds(d, b)' <=> Holds(d, b))
    BY <1>1, <2>1, SetupKept DEF Holds
  <2>4. ~full => \A b \in Bufs : Holds(c, b)' <=> Holds(c, b) \/ b = current
    BY <1>1, <1>2, <2>2, SetupKept DEF Holds
  <2> QED
    BY <1>2, <2>3, <2>4 DEF Kept, Given
<1>10. \A d \in Consumers, b \in Bufs : Holds(d, b)' => Holds(d, b) \/ (d = c /\ b = current)
  BY <1>9 DEF Kept, Given
<1>11. driver[current] = "user" /\ current \notin planned /\ rpc[current] \in {"get", "exited"}
  BY <1>2 DEF IInv, BufferInv
<1>12. BufferInv'
  BY <1>1, <1>6, <1>10, <1>11, SetupKept DEF IInv, BufferInv
<1>13. PlacesInv'
  <2>1. /\ hw[c] # current /\ (c = "jpeg" => \A w \in Workers : job[w] # current)
        /\ c = "drm" => prev # current
    BY <1>2 DEF Holds
  <2>2. ASSUME NEW d \in Consumers PROVE Distinct(queue[d])' /\ ~In(hw[d], queue[d])'
    <3>1. CASE d = c /\ ~full
      <4>1. ~In(hw[c], q) /\ Distinct(q)
        BY <1>4, <2>1 DEF IInv, PlacesInv
      <4>2. hw'[d] = hw[c] /\ queue'[d] = q
        BY <1>1, <1>5, <3>1
      <4> QED
        BY <4>1, <4>2 DEF Distinct, In
    <3>2. CASE d # c \/ full
      BY <1>1, <1>5, <3>2 DEF IInv, PlacesInv, Distinct, In
    <3> QED
      BY <3>1, <3>2
  <2>3. ASSUME NEW w \in Workers, job[w] # None
        PROVE  /\ job[w] # hw["jpeg"]
               /\ ~In(job[w], queue'["jpeg"])
               /\ \A v \in Workers : job[v] = job[w] => v = w
    <3>1. /\ job[w] # hw["jpeg"]
          /\ ~In(job[w], queue["jpeg"])
          /\ \A v \in Workers : job[v] = job[w] => v = w
      BY <2>3 DEF IInv, PlacesInv
    <3> QED
      BY <1>3, <1>4, <1>5, <2>1, <3>1
  <2>4. ASSUME prev # None PROVE ~In(prev, queue'["drm"])
    <3>1. "drm" \in Consumers /\ ~In(prev, queue["drm"])
      BY <2>4 DEF IInv, PlacesInv, ThreadsInv
    <3> QED
      BY <1>4, <1>5, <2>1, <3>1
  <2> QED
    BY <1>1, <2>2, <2>3, <2>4, SetupKept DEF PlacesInv, In
<1>14. TodoInv'
  <2>1. ASSUME NEW d \in Consumers, In(d, todo') PROVE ~Holds(d, current)'
    <3>1. d # c /\ ~Holds(d, current)
      BY <1>1, <1>2, <2>1 DEF IInv, TodoInv
    <3>2. PICK b \in Bufs : b = current
      BY <1>2
    <3>3. ~Holds(d, b)'
      BY <1>10, <3>1, <3>2
    <3>4. Holds(d, current)' <=> Holds(d, b)'
      BY <1>1, <3>2 DEF Holds
    <3> QED
      BY <3>3, <3>4
  <2> QED
    BY <1>1, <1>2, <2>1, SetupKept DEF TodoInv, Distinct, In
<1>15. CountInv'
  <2>1. Open' => Open
    BY <1>1 DEF Open
  <2>2. CASE full
    <3>1. lost' = lost \cup {current}
      BY <1>1, <1>2, <2>2
    <3> QED
      BY <1>1, <1>2, <1>9, <2>1, <2>2, <3>1, CountRefused DEF IInv
  <2>3. CASE ~full
    <3>1. lost' = lost
      BY <1>1, <2>3
    <3> QED
      BY <1>1, <1>2, <1>9, <2>1, <2>3, <3>1, CountGiven DEF IInv
  <2> QED
    BY <2>2, <2>3
<1> QED
  BY <1>7, <1>8, <1>12, <1>13, <1>14, <1>15 DEF IInv

-----------------------------------------------------------------------------
LEMMA NextInv ==
    ASSUME IInv, Next
    PROVE  IInv'
<1>1. CASE StreamStep
  BY <1>1, GrabStep, LoopSteps, HandStep, CloseEncoderStep, ReopenStep DEF StreamStep
<1>2. CASE \E b \in Bufs : DriverFill(b) \/ ReleaserStep(b)
  BY <1>2, BufferSteps
<1>3. CASE \E c \in Consumers : ConsumerStep(c)
  BY <1>3, QuietStep, GetStep, DropStep DEF ConsumerStep
<1>4. CASE JpegStep
  BY <1>4, AssignStep, PickStep DEF JpegStep
<1>5. CASE \E w \in Workers : WorkerStep(w)
  BY <1>5, WorkerSteps
<1>6. CASE DrmStep
  BY <1>6, DrmSteps
<1> QED
  BY <1>1, <1>2, <1>3, <1>4, <1>5, <1>6 DEF Next

LEMMA StutterInv ==
    ASSUME IInv, UNCHANGED vars
    PROVE  IInv'
<1>1. /\ UNCHANGED <<driver, grabbed, refs, queue, hw, cpc, prev, slowRet, job, busy>>
      /\ UNCHANGED <<picked, planned, rpc, spc, current, todo, threadsStop, setup, lost>>
  BY DEF vars
<1>2. ConsumersRest
  BY <1>1 DEF ConsumersRest, jpegVars, drmVars, setupVars
<1>3. Kept /\ PlacesInv' /\ ThreadsInv' /\ CountInv'
  BY <1>1, <1>2, ConsumersRestKeeps DEF Open
<1>4. TypeOK' /\ SessionInv'
  BY <1>1, SetupKept DEF IInv, TypeOK, SessionInv
<1>5. BufferInv'
  BY <1>1, <1>3, SetupKept DEF IInv, BufferInv, Kept
<1>6. TodoInv'
  BY <1>1, SetupKept DEF IInv, TodoInv, Distinct, In, Holds
<1> QED
  BY <1>3, <1>4, <1>5, <1>6 DEF IInv

\* The inductive invariant
THEOREM StreamInvariant == Spec => []IInv
<1>1. Init => IInv
  BY InitInv
<1>2. IInv /\ [Next]_vars => IInv'
  BY NextInv, StutterInv
<1> QED
  BY <1>1, <1>2, PTL DEF Spec

\* refs never falls below zero, no buffer is out of range, and every thread is
\* at one of its places.
THEOREM TypeCorrect == Spec => []TypeOK
<1>1. IInv => TypeOK
  BY DEF IInv
<1> QED
  BY <1>1, StreamInvariant, PTL

\* While the encoder is open, a buffer that the driver may overwrite is not in
\* the queue, in the hands, in a job or on the screen of any consumer, and its
\* releaser is not asked for it: us_capture_hwbuf_release() comes after the
\* last decref.
THEOREM NoUseAfterRequeueHolds == Spec => []NoUseAfterRequeue
<1>1. IInv => NoUseAfterRequeue
  <2> SUFFICES ASSUME IInv, NEW b \in Bufs, driver[b] # "user"
               PROVE  Holders(b) = {} /\ b \notin planned
    BY DEF NoUseAfterRequeue
  <2>1. /\ \A c \in Consumers : ~Holds(c, b)
        /\ b \notin planned
    BY DEF IInv, BufferInv
  <2>2. prev # b
    <3>1. prev = b => prev # None /\ Holds("drm", b)
      BY ConsumersFacts DEF IInv, TypeOK, Holds
    <3> QED
      BY <2>1, <3>1 DEF IInv, ThreadsInv
  <2>3. "jpeg" \in Consumers
    BY ConsumersFacts DEF IInv, TypeOK
  <2> QED
    BY <2>1, <2>2, <2>3 DEF Holds, In, Holders
<1> QED
  BY <1>1, StreamInvariant, PTL

\* A buffer whose releaser waits for references has a holder that will give
\* one back, except for the references lost by a full RAW queue and by a failed
\* call of the DRM output.
THEOREM OnlyKnownLeaksHold == Spec => []OnlyKnownLeaks
<1>1. IInv => OnlyKnownLeaks
  <2> SUFFICES ASSUME IInv, spc \in {"grab", "hand"}, NEW b \in Bufs, b \notin lost,
                      refs[b] > 0
               PROVE  Holders(b) # {}
    BY DEF OnlyKnownLeaks
  <2>1. refs[b] = Cardinality(HeldBy(b))
    BY DEF IInv, CountInv, Open
  <2>2. HeldBy(b) # {}
    BY <2>1, FS_EmptySet
  <2>3. PICK c \in Consumers : Holds(c, b)
    BY <2>2 DEF HeldBy
  <2>4. CASE In(b, queue[c])
    <3>1. <<"queue", c>> \in Holders(b)
      BY <2>4 DEF In, Holders
    <3> QED
      BY <3>1
  <2>5. CASE hw[c] = b
    <3>1. <<"hw", c>> \in Holders(b)
      BY <2>5 DEF Holders
    <3> QED
      BY <3>1
  <2>6. ASSUME NEW w \in Workers, job[w] = b PROVE Holders(b) # {}
    <3>1. <<"job", w>> \in Holders(b)
      BY <2>6 DEF Holders
    <3> QED
      BY <3>1
  <2>7. CASE prev = b
    <3>1. <<"prev", "drm">> \in Holders(b)
      BY <2>7 DEF Holders
    <3> QED
      BY <3>1
  <2> QED
    BY <2>3, <2>4, <2>5, <2>6, <2>7 DEF Holds
<1> QED
  BY <1>1, StreamInvariant, PTL

\* us_capture_close() finds no thread that could still read the memory it
\* unmaps.
THEOREM CloseIsSafeHolds == Spec => []CloseIsSafe
<1>1. IInv => CloseIsSafe
  BY DEF IInv, SessionInv, CloseIsSafe
<1> QED
  BY <1>1, StreamInvariant, PTL

\* assert(refs == 0) in us_capture_hwbuf_release() never fires, and VIDIOC_QBUF
\* is never called for a buffer that the driver has.
THEOREM ReleasedOnce == Spec => []ReleaseIsSafe
<1>1. IInv => ReleaseIsSafe
  BY DEF IInv, BufferInv, ReleaseIsSafe
<1> QED
  BY <1>1, StreamInvariant, PTL

\* QUEUE_HW and the planning of a release ignore the result of us_queue_put():
\* only the queue of the RAW sink can be full.
THEOREM QueuesHaveRoom == Spec => []NoOverflow
<1>1. IInv => NoOverflow
  <2> SUFFICES ASSUME IInv, spc = "hand"
               PROVE  /\ todo # <<>> /\ Head(todo) # "raw"
                            => Len(queue[Head(todo)]) < QueueCapacity(Head(todo))
                      /\ current \notin planned
    BY DEF NoOverflow
  <2>1. current \in Bufs
    BY DEF IInv, TypeOK, SessionInv
  <2>2. current \notin planned
    BY <2>1 DEF IInv, BufferInv
  <2> QED
    BY <2>2, NextConsumer
<1> QED
  BY <1>1, StreamInvariant, PTL

=============================================================================
