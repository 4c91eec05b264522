------------------------- MODULE EventWriterProofs -------------------------
(***************************************************************************)
(* Closing the store loses no event of the operations that had returned,   *)
(* whatever goes on beside it, and no event is written twice, for every    *)
(* set of events, capacity of the channel, size of a batch and pattern of  *)
(* refused writes.                                                         *)
(***************************************************************************)
EXTENDS EventWriter, FiniteSetTheorems, TLAPS

USE QueueCapAssumption, BatchSizeAssumption, BackendsAssumption, FlagsAssumption

-----------------------------------------------------------------------------
(* The channel, the batch and the log *)

\* Sending and appending add one element.
LEMMA AppendSet ==
    ASSUME NEW s \in Seq(Events), NEW e \in Events
    PROVE  /\ Append(s, e) \in Seq(Events)
           /\ ToSet(Append(s, e)) = ToSet(s) \cup {e}
<1>1. /\ Append(s, e) \in Seq(Events)
      /\ Len(Append(s, e)) = Len(s) + 1
      /\ \A i \in 1 .. Len(s) : Append(s, e)[i] = s[i]
      /\ Append(s, e)[Len(s) + 1] = e
  OBVIOUS
<1>2. DOMAIN s = 1 .. Len(s) /\ DOMAIN Append(s, e) = 1 .. Len(s) + 1
  BY <1>1
<1> QED BY <1>1, <1>2 DEF ToSet

\* Receiving takes the head and leaves all others.
LEMMA HeadTailSet ==
    ASSUME NEW s \in Seq(Events), s # <<>>
    PROVE  /\ Head(s) \in Events /\ Tail(s) \in Seq(Events)
           /\ Len(Tail(s)) <= Len(s)
           /\ ToSet(s) \subseteq {Head(s)} \cup ToSet(Tail(s))
<1>1. /\ Head(s) = s[1] /\ Len(s) \in Nat /\ Len(s) >= 1
      /\ Head(s) \in Events /\ Tail(s) \in Seq(Events)
      /\ Len(Tail(s)) = Len(s) - 1
      /\ \A i \in 1 .. Len(s) - 1 : Tail(s)[i] = s[i + 1]
  OBVIOUS
<1>2. DOMAIN s = 1 .. Len(s) /\ DOMAIN Tail(s) = 1 .. Len(s) - 1
  BY <1>1
<1>3. ASSUME NEW i \in 1 .. Len(s), i # 1 PROVE s[i] \in ToSet(Tail(s))
  <2>1. i - 1 \in 1 .. Len(s) - 1 /\ s[i] = Tail(s)[i - 1]
    BY <1>1, <1>3
  <2> QED BY <1>2, <2>1, Zenon DEF ToSet
<1> QED BY <1>1, <1>2, <1>3 DEF ToSet

\* An element of the batch occurs in it at least once.
LEMMA OccurrencesFacts ==
    ASSUME NEW s \in Seq(Events), NEW e
    PROVE  /\ Occurrences(e, s) \in Nat
           /\ e \in ToSet(s) => Occurrences(e, s) > 0
<1> DEFINE I == {i \in DOMAIN s : s[i] = e}
<1>1. DOMAIN s = 1 .. Len(s) /\ Len(s) \in Nat
  OBVIOUS
<1>2. IsFiniteSet(DOMAIN s)
  BY <1>1, FS_Interval
<1>3. IsFiniteSet(I)
  BY <1>2, FS_Subset, Zenon
<1>4. Cardinality(I) \in Nat
  BY <1>3, FS_CardinalityType, Zenon
<1>5. e \in ToSet(s) => I # {}
  BY DEF ToSet
<1>6. I # {} => Cardinality(I) # 0
  BY <1>3, FS_EmptySet, Zenon
<1> QED BY <1>4, <1>5, <1>6 DEF Occurrences

-----------------------------------------------------------------------------
(* The inductive invariant *)

\* The event of a returned operation is in the channel, in the batch, in the
\* database, or was refused by it.
Accounted ==
    \A e \in Events :
      op[e] = "returned" => e \in ToSet(queue) \cup ToSet(buf) \cup Settled

\* How far the writer is, and what it holds of the operations that had
\* returned when Close began.  Later operations may go on filling the channel.
Phases ==
    /\ handed \subseteq {e \in Events : op[e] = "returned"}
    /\ process = "up" => writer \in {"select", "flush"} /\ handed = {}
    /\ writer \in {"lastFlush", "done"} => handed \cap ToSet(queue) = {}
    /\ writer = "done" => handed \cap ToSet(buf) = {}
    /\ process = "ended" /\ stop = "close" => writer = "done"

IInv == TypeOK /\ Accounted /\ Phases

\* A store that has just been opened satisfies the invariant.
LEMMA IInvInit == Init => IInv
BY DEF Init, IInv, TypeOK, Accounted, Phases

\* Writing a batch settles every event of it, written or refused.
LEMMA WriteBatchSettles ==
    ASSUME TypeOK, NEW written \in SUBSET Events, WriteBatch(written)
    PROVE  /\ log' \in [Events -> Nat] /\ refused' \subseteq Events
           /\ buf' = <<>>
           /\ Settled \cup ToSet(buf) \subseteq Settled'
<1>0. buf \in Seq(Events) /\ log \in [Events -> Nat] /\ refused \subseteq Events
  BY DEF TypeOK
<1>1. ToSet(buf) \subseteq Events
  BY <1>0 DEF ToSet
<1>2. \A e \in Events : /\ Occurrences(e, buf) \in Nat
                        /\ e \in ToSet(buf) => Occurrences(e, buf) > 0
  BY <1>0, OccurrencesFacts, Zenon
<1>3. /\ log' = [e \in Events |-> IF e \in written THEN log[e] + Occurrences(e, buf)
                                                   ELSE log[e]]
      /\ refused' = refused \cup (ToSet(buf) \ written)
      /\ buf' = <<>>
  BY DEF WriteBatch, LogWith
<1>4. log' \in [Events -> Nat]
  <2>1. \A e \in Events :
          (IF e \in written THEN log[e] + Occurrences(e, buf) ELSE log[e]) \in Nat
    BY <1>0, <1>2
  <2> HIDE DEF Occurrences
  <2> QED BY <1>3, <2>1, Zenon
<1>5. \A e \in Events : /\ log[e] > 0 => log'[e] > 0
                        /\ e \in ToSet(buf) /\ e \in written => log'[e] > 0
  BY <1>0, <1>2, <1>3
<1>6. ASSUME NEW e \in Settled \cup ToSet(buf) PROVE e \in Settled'
  <2>1. e \in Events
    BY <1>0, <1>1, Zenon DEF Settled
  <2>2. e \in refused' \/ log'[e] > 0
    BY <1>3, <1>5, <1>6, <2>1, ZenonT(40) DEF Settled
  <2> QED BY <2>1, <2>2, Zenon DEF Settled
<1> QED BY <1>0, <1>1, <1>3, <1>4, <1>6, ZenonT(40)

\* Every step of an operation, of the writer and of the process keeps it.
LEMMA IInvInductive == IInv /\ [Next]_vars => IInv'
<1> SUFFICES ASSUME IInv, [Next]_vars PROVE IInv'
  BY Zenon
<1>0. TypeOK /\ Accounted /\ Phases
  BY DEF IInv
<1>1. ASSUME NEW e \in Events, Commit(e) \/ Cancel(e) PROVE IInv'
  <2>1. TypeOK'
    BY <1>0, <1>1, ZenonT(40) DEF TypeOK, Commit, Cancel, deployment
  <2>2. Accounted'
    BY <1>0, <1>1, ZenonT(40) DEF TypeOK, Accounted, Settled, Commit, Cancel
  <2>3. Phases'
    BY <1>0, <1>1, ZenonT(40) DEF Phases, TypeOK, Commit, Cancel, deployment
  <2> QED BY <2>1, <2>2, <2>3, Zenon DEF IInv
<1>2. ASSUME NEW e \in Events, enqueueEvent(e) PROVE IInv'
  <2>0. op[e] = "committed" /\ e \notin handed
    BY <1>0, <1>2, Zenon DEF enqueueEvent, Phases
  <2>1. /\ Append(queue, e) \in Seq(Events)
        /\ ToSet(Append(queue, e)) = ToSet(queue) \cup {e}
        /\ Len(Append(queue, e)) = Len(queue) + 1
    BY <1>0, AppendSet DEF TypeOK
  <2>2. TypeOK'
    <3>1. queue' \in Seq(Events) /\ Len(queue') <= QueueCap
      <4>1. queue \in Seq(Events) /\ Len(queue) \in Nat /\ Len(queue) <= QueueCap
        BY <1>0 DEF TypeOK
      <4>2. CASE Len(queue) < QueueCap
        <5>1. queue' = Append(queue, e)
          BY <1>2, <4>2, Zenon DEF enqueueEvent
        <5>2. Len(queue) + 1 <= QueueCap
          BY <4>1, <4>2
        <5> QED BY <2>1, <5>1, <5>2, Zenon
      <4>3. CASE ~(Len(queue) < QueueCap)
        BY <1>2, <4>1, <4>3, Zenon DEF enqueueEvent
      <4> QED BY <4>2, <4>3, Zenon
    <3>2. op' \in [Events -> {"running", "committed", "sync", "returned", "cancelled"}]
      BY <1>0, <1>2, Zenon DEF TypeOK, enqueueEvent
    <3> QED BY <1>0, <1>2, <3>1, <3>2, Zenon DEF TypeOK, enqueueEvent, deployment
  <2>3. Accounted'
    BY <1>0, <1>2, <2>1, Zenon DEF TypeOK, Accounted, Settled, enqueueEvent
  <2>4. Phases'
    <3>0. queue' = queue \/ queue' = Append(queue, e)
      BY <1>2, Zenon DEF enqueueEvent
    <3>1. handed \cap ToSet(queue') = handed \cap ToSet(queue)
      <4>1. CASE queue' = queue
        BY <4>1, Zenon
      <4>2. CASE queue' = Append(queue, e)
        <5>1. ToSet(queue') = ToSet(queue) \cup {e}
          BY <2>1, <4>2, Zenon
        <5> QED BY <2>0, <5>1, Zenon
      <4> QED BY <3>0, <4>1, <4>2, Zenon
    <3>2. /\ UNCHANGED <<buf, writer, process, handed, stop>>
          /\ \A d \in Events : op[d] = "returned" => op'[d] = "returned"
      BY <1>0, <1>2, ZenonT(40) DEF TypeOK, enqueueEvent, deployment
    <3> QED BY <1>0, <3>1, <3>2, ZenonT(40) DEF Phases
  <2> QED BY <2>2, <2>3, <2>4, Zenon DEF IInv
<1>3. ASSUME NEW e \in Events, NEW written \in BOOLEAN, SyncWrite(e, written)
      PROVE  IInv'
  <2>1. TypeOK'
    BY <1>0, <1>3 DEF TypeOK, SyncWrite, deployment
  <2>2. Settled \cup {e} \subseteq Settled'
    BY <1>0, <1>3 DEF TypeOK, SyncWrite, Settled
  <2>3. Accounted'
    BY <1>0, <1>3, <2>2, ZenonT(40) DEF TypeOK, Accounted, SyncWrite
  <2>4. Phases'
    <3>1. /\ UNCHANGED <<queue, buf, writer, process, handed, stop>>
          /\ \A d \in Events : op[d] = "returned" => op'[d] = "returned"
      BY <1>0, <1>3, ZenonT(40) DEF TypeOK, SyncWrite, deployment
    <3> QED BY <1>0, <3>1, ZenonT(40) DEF Phases
  <2> QED BY <2>1, <2>3, <2>4, ZenonT(40) DEF IInv
<1>4. ASSUME queue # <<>>, buf' = Append(buf, Head(queue)), queue' = Tail(queue),
             UNCHANGED <<op, log, refused, process, handed, deployment>>,
             writer' \in {"select", "flush", "drain"},
             writer \in {"select", "drain"}, process # "ended",
             process = "up" => writer' # "drain"
      PROVE  IInv'
  <2>1. /\ Head(queue) \in Events /\ Tail(queue) \in Seq(Events)
        /\ Len(Tail(queue)) <= Len(queue)
        /\ ToSet(queue) \subseteq {Head(queue)} \cup ToSet(Tail(queue))
    BY <1>0, <1>4, HeadTailSet, Zenon DEF TypeOK
  <2>2. /\ Append(buf, Head(queue)) \in Seq(Events)
        /\ ToSet(Append(buf, Head(queue))) = ToSet(buf) \cup {Head(queue)}
    BY <1>0, <2>1, AppendSet, ZenonT(40) DEF TypeOK
  <2>3. TypeOK'
    BY <1>0, <1>4, <2>1, <2>2 DEF TypeOK, deployment
  <2>4. Accounted'
    BY <1>0, <1>4, <2>1, <2>2, ZenonT(40) DEF Accounted, Settled
  <2>5. Phases'
    BY <1>0, <1>4, ZenonT(40) DEF Phases, TypeOK, deployment
  <2> QED BY <2>3, <2>4, <2>5, Zenon DEF IInv
<1>5. CASE Collect
  BY <1>4, <1>5, Zenon DEF Collect
<1>6. CASE Drain
  <2>1. CASE queue # <<>>
    <3>1. process # "ended" /\ process # "up"
      BY <1>6, Zenon DEF Drain
    <3> QED BY <1>4, <1>6, <2>1, <3>1, ZenonT(40) DEF Drain
  <2>2. CASE queue = <<>>
    <3>1. ToSet(queue) = {}
      BY <2>2 DEF ToSet
    <3>2. /\ UNCHANGED <<op, queue, buf, log, refused, process, handed, deployment>>
          /\ process = "closing" /\ writer' = "lastFlush"
      BY <1>6, <2>2, Zenon DEF Drain
    <3> QED BY <1>0, <3>1, <3>2, ZenonT(40)
         DEF IInv, TypeOK, Accounted, Settled, Phases, deployment
  <2> QED BY <2>1, <2>2, Zenon
<1>7. ASSUME NEW S \in SUBSET Events, flushEvents(S) \/ LastFlush(S) PROVE IInv'
  <2>0. WriteBatch(S) /\ UNCHANGED <<op, queue, process, handed, deployment>>
    BY <1>7, Zenon DEF flushEvents, LastFlush
  <2>1. /\ log' \in [Events -> Nat] /\ refused' \subseteq Events
        /\ buf' = <<>>
        /\ Settled \cup ToSet(buf) \subseteq Settled'
    BY <1>0, <2>0, WriteBatchSettles, Zenon
  <2>2. TypeOK'
    BY <1>0, <1>7, <2>0, <2>1 DEF TypeOK, flushEvents, LastFlush, deployment
  <2>3. Accounted'
    BY <1>0, <2>0, <2>1, Zenon DEF Accounted
  <2>4. Phases'
    <3>1. ToSet(buf') = {}
      BY <2>1 DEF ToSet
    <3> QED BY <1>0, <1>7, <2>0, <3>1, ZenonT(40)
         DEF Phases, flushEvents, LastFlush, deployment
  <2> QED BY <2>2, <2>3, <2>4, ZenonT(40) DEF IInv
<1>8. CASE Tick \/ StartDrain
  BY <1>0, <1>8, ZenonT(40) DEF Tick, StartDrain, IInv, TypeOK, Accounted, Settled,
     Phases, deployment
<1>9. CASE Close \/ Exit
  BY <1>0, <1>9, ZenonT(40) DEF Close, Exit, IInv, TypeOK, Accounted, Settled, Phases,
     deployment
<1>10. CASE UNCHANGED vars
  BY <1>0, <1>10, Zenon DEF vars, IInv, TypeOK, Accounted, Settled, Phases, deployment
<1> QED
  BY <1>1, <1>2, <1>3, <1>5, <1>6, <1>7, <1>8, <1>9, <1>10, ZenonT(40)
     DEF Next, OpStep, WriterStep, Ended

\* The invariant holds in every state the writer reaches.
THEOREM IInvHolds == Spec => []IInv
BY IInvInit, IInvInductive, PTL DEF Spec

\* Close drains the channel before it returns: when it has, the event of every
\* operation that had returned before is in the database or was refused by it.
THEOREM ClosingLosesNothing == Spec => []StoppingKeepsEvents
<1>1. IInv => StoppingKeepsEvents
  BY Zenon DEF IInv, TypeOK, Accounted, Phases, StoppingKeepsEvents
<1> QED BY <1>1, IInvHolds, PTL

-----------------------------------------------------------------------------
(* An event is in one place *)

Distinct(s) == \A i, j \in DOMAIN s : s[i] = s[j] => i = j

\* The channel and the batch hold events of returned operations that are not
\* settled, each once; what is settled was written once or refused.
Once ==
    /\ Distinct(buf) /\ Distinct(queue) /\ ToSet(buf) \cap ToSet(queue) = {}
    /\ \A e \in ToSet(buf) \cup ToSet(queue) :
         op[e] = "returned" /\ log[e] = 0 /\ e \notin refused
    /\ \A e \in Events : op[e] # "returned" => log[e] = 0 /\ e \notin refused
    /\ \A e \in Events : log[e] \in {0, 1} /\ (e \in refused => log[e] = 0)

\* Where every element is there once, one occurs once or not at all.
LEMMA OccursOnce ==
    ASSUME NEW s \in Seq(Events), Distinct(s), NEW e
    PROVE  Occurrences(e, s) = IF e \in ToSet(s) THEN 1 ELSE 0
<1> DEFINE I == {i \in DOMAIN s : s[i] = e}
<1>1. CASE e \in ToSet(s)
  <2>1. PICK i \in DOMAIN s : s[i] = e
    BY <1>1, Zenon DEF ToSet
  <2>2. I = {i}
    BY <2>1 DEF Distinct
  <2>3. Cardinality({i}) = 1
    BY FS_Singleton, Zenon
  <2> QED BY <1>1, <2>2, <2>3, Zenon DEF Occurrences
<1>2. CASE e \notin ToSet(s)
  <2>1. I = {}
    BY <1>2, Zenon DEF ToSet
  <2>2. Cardinality({}) = 0
    BY FS_EmptySet, Zenon
  <2> QED BY <1>2, <2>1, <2>2, ZenonT(40) DEF Occurrences
<1> QED BY <1>1, <1>2, Zenon

\* The batch and the channel behind it.
LEMMA ConcatOnce ==
    ASSUME NEW s \in Seq(Events), NEW t \in Seq(Events), Distinct(s), Distinct(t),
           ToSet(s) \cap ToSet(t) = {}
    PROVE  /\ s \o t \in Seq(Events) /\ Distinct(s \o t)
           /\ ToSet(s \o t) \subseteq ToSet(s) \cup ToSet(t)
<1>1. /\ s \o t \in Seq(Events) /\ Len(s) \in Nat /\ Len(t) \in Nat
      /\ DOMAIN s = 1 .. Len(s) /\ DOMAIN t = 1 .. Len(t)
      /\ DOMAIN (s \o t) = 1 .. Len(s) + Len(t)
  OBVIOUS
<1>2. ASSUME NEW i \in DOMAIN (s \o t)
      PROVE  \/ i \in DOMAIN s /\ (s \o t)[i] = s[i]
             \/ /\ i - Len(s) \in DOMAIN t /\ i > Len(s)
                /\ (s \o t)[i] = t[i - Len(s)]
  BY <1>1
<1>3. ToSet(s \o t) \subseteq ToSet(s) \cup ToSet(t)
  BY <1>1, <1>2, Zenon DEF ToSet
<1>4. Distinct(s \o t)
  <2> SUFFICES ASSUME NEW i \in DOMAIN (s \o t), NEW j \in DOMAIN (s \o t),
                      (s \o t)[i] = (s \o t)[j]
               PROVE  i = j
    BY Zenon DEF Distinct
  <2>1. \A k \in DOMAIN s, l \in DOMAIN t : s[k] # t[l]
    BY Zenon DEF ToSet
  <2>2. i \in Int /\ j \in Int
    BY <1>1
  <2>3. CASE i \in DOMAIN s /\ (s \o t)[i] = s[i]
    BY <1>2, <2>1, <2>3, ZenonT(40) DEF Distinct
  <2>4. CASE i - Len(s) \in DOMAIN t /\ (s \o t)[i] = t[i - Len(s)]
    <3>1. j - Len(s) \in DOMAIN t /\ (s \o t)[j] = t[j - Len(s)]
      BY <1>2, <2>1, <2>4, Zenon
    <3>2. i - Len(s) = j - Len(s)
      BY <2>4, <3>1, Zenon DEF Distinct
    <3> QED BY <1>1, <2>2, <3>2
  <2> QED BY <1>2, <2>3, <2>4, ZenonT(40)
<1> QED BY <1>1, <1>3, <1>4, Zenon

\* A new element keeps the elements distinct.
LEMMA AppendDistinct ==
    ASSUME NEW s \in Seq(Events), NEW e \in Events, Distinct(s), e \notin ToSet(s)
    PROVE  Distinct(Append(s, e))
<1>1. /\ Len(s) \in Nat /\ DOMAIN s = 1 .. Len(s)
      /\ DOMAIN Append(s, e) = 1 .. Len(s) + 1
      /\ \A i \in 1 .. Len(s) : Append(s, e)[i] = s[i]
      /\ Append(s, e)[Len(s) + 1] = e
  OBVIOUS
<1>2. \A i \in 1 .. Len(s) : s[i] # e
  BY <1>1, Zenon DEF ToSet
<1> QED BY <1>1, <1>2 DEF Distinct

\* The head is not in the tail.
LEMMA TailDistinct ==
    ASSUME NEW s \in Seq(Events), s # <<>>, Distinct(s)
    PROVE  /\ Distinct(Tail(s)) /\ Head(s) \in ToSet(s)
           /\ ToSet(Tail(s)) \subseteq ToSet(s) \ {Head(s)}
<1>1. /\ Head(s) = s[1] /\ Len(s) \in Nat /\ Len(s) >= 1
      /\ DOMAIN s = 1 .. Len(s) /\ DOMAIN Tail(s) = 1 .. Len(s) - 1
      /\ \A i \in 1 .. Len(s) - 1 : Tail(s)[i] = s[i + 1]
  OBVIOUS
<1>2. Head(s) \in ToSet(s)
  BY <1>1 DEF ToSet
<1>3. \A i \in DOMAIN Tail(s) : i + 1 \in DOMAIN s /\ i + 1 # 1 /\ Tail(s)[i] = s[i + 1]
  BY <1>1
<1>4. ToSet(Tail(s)) \subseteq ToSet(s) \ {Head(s)}
  <2> SUFFICES ASSUME NEW i \in DOMAIN Tail(s)
               PROVE  Tail(s)[i] \in ToSet(s) \ {Head(s)}
    BY Zenon DEF ToSet
  <2>1. 1 \in DOMAIN s
    BY <1>1
  <2> QED BY <1>1, <1>3, <2>1, ZenonT(40) DEF ToSet, Distinct
<1>5. Distinct(Tail(s))
  <2> SUFFICES ASSUME NEW i \in DOMAIN Tail(s), NEW j \in DOMAIN Tail(s),
                      Tail(s)[i] = Tail(s)[j]
               PROVE  i = j
    BY Zenon DEF Distinct
  <2>1. i + 1 = j + 1
    BY <1>3, Zenon DEF Distinct
  <2> QED BY <1>1, <2>1
<1> QED BY <1>2, <1>4, <1>5, Zenon

\* Nothing is held or written at the start.
LEMMA OnceInit == Init => Once
BY DEF Init, Once, Distinct, ToSet

\* The writer takes the head of the channel into its batch.
LEMMA MoveKeepsOnce ==
    ASSUME TypeOK, Once, queue # <<>>, buf' = Append(buf, Head(queue)),
           queue' = Tail(queue), UNCHANGED <<op, log, refused>>
    PROVE  Once'
<1> DEFINE h == Head(queue)
<1>0. buf \in Seq(Events) /\ queue \in Seq(Events)
  BY Zenon DEF TypeOK
<1>1. /\ Distinct(buf) /\ Distinct(queue) /\ ToSet(buf) \cap ToSet(queue) = {}
  BY Zenon DEF Once
<1>2. /\ Distinct(Tail(queue)) /\ h \in ToSet(queue)
      /\ ToSet(Tail(queue)) \subseteq ToSet(queue) \ {h}
  BY <1>0, <1>1, TailDistinct, Zenon
<1>3. h \in Events
  BY <1>0, HeadTailSet, Zenon
<1>4. Distinct(Append(buf, h)) /\ ToSet(Append(buf, h)) = ToSet(buf) \cup {h}
  BY <1>0, <1>1, <1>2, <1>3, AppendDistinct, AppendSet, ZenonT(40)
<1>5. /\ Distinct(buf') /\ Distinct(queue') /\ ToSet(buf') \cap ToSet(queue') = {}
      /\ ToSet(buf') \cup ToSet(queue') \subseteq ToSet(buf) \cup ToSet(queue)
  BY <1>1, <1>2, <1>4, ZenonT(40)
<1> HIDE DEF h
<1> QED BY <1>5, Zenon DEF Once

\* What the writer writes, it had not written; what it lost, it forgets.
LEMMA WriteKeepsOnce ==
    ASSUME TypeOK, Once, NEW written \in SUBSET Events, WriteBatch(written),
           UNCHANGED <<op, queue>>
    PROVE  Once'
<1>0. buf \in Seq(Events) /\ log \in [Events -> Nat]
  BY Zenon DEF TypeOK
<1>1. /\ Distinct(buf) /\ Distinct(queue) /\ ToSet(buf) \cap ToSet(queue) = {}
      /\ \A e \in ToSet(buf) : op[e] = "returned" /\ log[e] = 0 /\ e \notin refused
  BY Zenon DEF Once
<1>2. written \subseteq ToSet(buf)
  BY Zenon DEF WriteBatch, Writable
<1>3. \A e \in written : Occurrences(e, buf) = 1
  BY <1>0, <1>1, <1>2, OccursOnce, Zenon
<1>4. log' = [e \in Events |-> IF e \in written THEN 1 ELSE log[e]]
  <2>1. ASSUME NEW e \in Events
        PROVE  (IF e \in written THEN log[e] + Occurrences(e, buf) ELSE log[e])
               = (IF e \in written THEN 1 ELSE log[e])
    BY <1>1, <1>2, <1>3
  <2> QED BY <2>1, Zenon DEF WriteBatch, LogWith
<1>5. refused' = refused \cup (ToSet(buf) \ written) /\ buf' = <<>>
  BY Zenon DEF WriteBatch
<1>6. ToSet(buf') = {} /\ Distinct(buf')
  BY <1>5 DEF ToSet, Distinct
<1>7. \A e \in Events : e \notin ToSet(buf) =>
        log'[e] = log[e] /\ (e \in refused' <=> e \in refused)
  BY <1>2, <1>4, <1>5, ZenonT(40)
<1>8. \A e \in Events : e \in ToSet(buf) =>
        /\ op'[e] = "returned" /\ log'[e] \in {0, 1}
        /\ e \in refused' => log'[e] = 0
  BY <1>1, <1>4, <1>5, Zenon
<1>9. ToSet(queue') = ToSet(queue) /\ Distinct(queue') /\ op' = op
  BY <1>1, Zenon
<1>10. ToSet(queue) \subseteq Events
  BY DEF TypeOK, ToSet
<1>11. \A e \in ToSet(buf') \cup ToSet(queue') :
         op'[e] = "returned" /\ log'[e] = 0 /\ e \notin refused'
  BY <1>1, <1>6, <1>7, <1>9, <1>10, ZenonT(40) DEF Once
<1>12. \A e \in Events : /\ op'[e] # "returned" => log'[e] = 0 /\ e \notin refused'
                         /\ log'[e] \in {0, 1} /\ (e \in refused' => log'[e] = 0)
  BY <1>7, <1>8, <1>9, ZenonT(40) DEF Once
<1> QED BY <1>6, <1>9, <1>11, <1>12, ZenonT(40) DEF Once

\* Every step of an operation, of the writer and of the shutdown keeps it.
LEMMA OnceInductive == TypeOK /\ Once /\ [Next]_vars => Once'
<1> SUFFICES ASSUME TypeOK, Once, [Next]_vars PROVE Once'
  BY Zenon
<1>0. /\ op \in [Events -> {"running", "committed", "sync", "returned", "cancelled"}]
      /\ queue \in Seq(Events) /\ buf \in Seq(Events)
      /\ log \in [Events -> Nat] /\ refused \subseteq Events
  BY Zenon DEF TypeOK
<1>1. ASSUME NEW e \in Events, Commit(e) \/ Cancel(e) PROVE Once'
  <2>1. /\ \A d \in Events : op'[d] = "returned" <=> op[d] = "returned"
        /\ UNCHANGED <<queue, buf, log, refused>>
    BY <1>0, <1>1, ZenonT(40) DEF Commit, Cancel
  <2>2. ToSet(buf) \subseteq Events /\ ToSet(queue) \subseteq Events
    BY <1>0 DEF ToSet
  <2> QED BY <2>1, <2>2, ZenonT(40) DEF Once
<1>2. ASSUME NEW e \in Events, enqueueEvent(e) PROVE Once'
  <2>1. e \notin ToSet(buf) \cup ToSet(queue) /\ log[e] = 0 /\ e \notin refused
    BY <1>2, Zenon DEF enqueueEvent, Once
  <2>2. Distinct(Append(queue, e)) /\ ToSet(Append(queue, e)) = ToSet(queue) \cup {e}
    BY <1>0, <2>1, AppendDistinct, AppendSet, ZenonT(40) DEF Once
  <2>3. CASE Len(queue) < QueueCap
    <3>1. /\ queue' = Append(queue, e) /\ op' = [op EXCEPT ![e] = "returned"]
          /\ UNCHANGED <<buf, log, refused>>
      BY <1>2, <2>3, Zenon DEF enqueueEvent
    <3> QED BY <1>0, <2>1, <2>2, <3>1 DEF Once
  <2>4. CASE ~(Len(queue) < QueueCap)
    <3>1. op' = [op EXCEPT ![e] = "sync"] /\ UNCHANGED <<queue, buf, log, refused>>
      BY <1>2, <2>4, Zenon DEF enqueueEvent
    <3> QED BY <1>0, <2>1, <3>1 DEF Once
  <2> QED BY <2>3, <2>4, ZenonT(40)
<1>3. ASSUME NEW e \in Events, NEW written \in BOOLEAN, SyncWrite(e, written)
      PROVE  Once'
  <2>1. e \notin ToSet(buf) \cup ToSet(queue) /\ log[e] = 0 /\ e \notin refused
    BY <1>3, Zenon DEF SyncWrite, Once
  <2>2. /\ op' = [op EXCEPT ![e] = "returned"] /\ UNCHANGED <<queue, buf>>
        /\ log' = IF written THEN [log EXCEPT ![e] = @ + 1] ELSE log
        /\ refused' = IF written THEN refused ELSE refused \cup {e}
    BY <1>3, Zenon DEF SyncWrite
  <2> QED BY <1>0, <2>1, <2>2 DEF Once
<1>4. CASE Collect
  BY <1>4, MoveKeepsOnce, Zenon DEF Collect
<1>5. CASE Drain
  <2>1. CASE queue # <<>>
    BY <1>5, <2>1, MoveKeepsOnce, ZenonT(40) DEF Drain
  <2>2. CASE queue = <<>>
    BY <1>5, <2>2, Zenon DEF Drain, Once
  <2> QED BY <2>1, <2>2, Zenon
<1>6. ASSUME NEW S \in SUBSET Events, flushEvents(S) \/ LastFlush(S) PROVE Once'
  BY <1>6, WriteKeepsOnce, Zenon DEF flushEvents, LastFlush
<1>7. CASE Tick \/ StartDrain \/ Close \/ Exit \/ UNCHANGED vars
  BY <1>7, Zenon DEF Tick, StartDrain, Close, Exit, vars, Once
<1> QED BY <1>1, <1>2, <1>3, <1>4, <1>5, <1>6, <1>7, ZenonT(40)
     DEF Next, WriterStep, OpStep, Ended

\* The log, the batch and the channel hold an event once between them, and
\* not at all if the database refused it: flushEvents forgets what it wrote,
\* and the synchronous write is of events that never entered the channel.
THEOREM EventsAreWrittenOnce == Spec => []EventsAreUnique
<1>1. IInv => TypeOK
  BY Zenon DEF IInv
<1>2. TypeOK /\ Once => EventsAreUnique
  <2> SUFFICES ASSUME TypeOK, Once, NEW e \in Events
               PROVE  log[e] + Occurrences(e, buf \o queue)
                      <= (IF e \in refused THEN 0 ELSE 1)
    BY Zenon DEF EventsAreUnique
  <2>1. /\ buf \in Seq(Events) /\ queue \in Seq(Events)
        /\ Distinct(buf) /\ Distinct(queue) /\ ToSet(buf) \cap ToSet(queue) = {}
    BY Zenon DEF TypeOK, Once
  <2>2. /\ buf \o queue \in Seq(Events) /\ Distinct(buf \o queue)
        /\ ToSet(buf \o queue) \subseteq ToSet(buf) \cup ToSet(queue)
    BY <2>1, ConcatOnce, Zenon
  <2>3. Occurrences(e, buf \o queue) = IF e \in ToSet(buf \o queue) THEN 1 ELSE 0
    BY <2>2, OccursOnce, Zenon
  <2> QED BY <2>2, <2>3 DEF Once
<1> QED BY <1>1, <1>2, OnceInit, OnceInductive, IInvHolds, PTL DEF Spec
=============================================================================
