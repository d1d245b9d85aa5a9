------------------------- MODULE CollectBuffer_proofs -------------------------
(***************************************************************************)
(* Proofs about CollectBuffer, for every set of keys and messages and      *)
(* every cap.                                                              *)
(***************************************************************************)
EXTENDS CollectBuffer, TLAPS

\* The variables keep their types: the router's buffers, timers and flush
\* goroutines (enqueueCollect, flushCollectBuffer).
THEOREM TypeCorrect == Spec => []TypeOK
<1> USE CollectAssumption
<1>1. Init => TypeOK
  BY DEF Init, TypeOK
<1>2. TypeOK /\ [Next]_vars => TypeOK'
  <2> SUFFICES ASSUME TypeOK, [Next]_vars PROVE TypeOK'
    OBVIOUS
  <2> USE DEF TypeOK
  <2>1. ASSUME NEW m \in Msg, EnqueueCollect(m) PROVE TypeOK'
    <3> DEFINE k == KeyOf[m]
    <3>1. k \in Key /\ CurrentGen(k) \in Nat
      BY DEF CurrentGen
    <3>2. buffers' \in [Key -> Seq(Msg)]
      BY <2>1, <3>1 DEF EnqueueCollect, AppendMsg
    <3>3. gen' \in [Key -> Nat] /\ flushers' \in [Key -> Nat]
      <4>1. gen' \in [Key -> Nat]
        BY <2>1, <3>1 DEF EnqueueCollect
      <4>2. CASE flushers' = [flushers EXCEPT ![k] = @ + 1]
        BY <3>1, <4>1, <4>2
      <4>3. CASE flushers' = flushers
        BY <4>1, <4>3
      <4>4. QED
        BY <2>1, <4>2, <4>3 DEF EnqueueCollect
    <3>4. TimersWithBuffer(k) \subseteq Key \X Nat
      BY <3>1 DEF TimersWithBuffer
    <3>5. armed' \subseteq Key \X Nat
      BY <2>1, <3>4 DEF EnqueueCollect
    <3>6. QED
      BY <2>1, <3>2, <3>3, <3>5 DEF EnqueueCollect
  <2>2. ASSUME NEW t \in armed, TimerFires(t) PROVE TypeOK'
    BY <2>2 DEF TimerFires
  <2>3. ASSUME NEW k \in Key, FlushFindsNothing(k) PROVE TypeOK'
    BY <2>3 DEF FlushFindsNothing
  <2>4. ASSUME NEW k \in Key, FlushTakes(k) PROVE TypeOK'
    <3>1. OpenBatch(k) \in Batch
      BY DEF OpenBatch, Batch
    <3>2. QED
      BY <2>4, <3>1 DEF FlushTakes
  <2>5. ASSUME NEW b \in taken, PublishBatch(b) PROVE TypeOK'
    BY <2>5 DEF PublishBatch
  <2>6. ASSUME NEW b \in taken, PublishBatchFails(b) PROVE TypeOK'
    BY <2>6 DEF PublishBatchFails
  <2>7. CASE Restart
    BY <2>7 DEF Restart, OpenBatch, Batch
  <2>8. CASE UNCHANGED vars
    BY <2>8 DEF vars
  <2>9. QED
    BY <2>1, <2>2, <2>3, <2>4, <2>5, <2>6, <2>7, <2>8 DEF Next
<1>3. QED
  BY <1>1, <1>2, PTL DEF Spec

\* No buffer of the router waits for a flush that will not come: an open
\* buffer has its own timer armed or a flush goroutine on its way, and a
\* full one has the goroutine.
THEOREM NeverStranded == Spec => []NoStrandedBuffer
<1> USE CollectAssumption
<1>1. Init => NoStrandedBuffer
  BY DEF Init, NoStrandedBuffer
<1>2. TypeOK /\ NoStrandedBuffer /\ [Next]_vars => NoStrandedBuffer'
  <2> SUFFICES ASSUME TypeOK, NoStrandedBuffer, [Next]_vars
               PROVE NoStrandedBuffer'
    OBVIOUS
  <2> USE DEF TypeOK, NoStrandedBuffer
  <2>1. ASSUME NEW m \in Msg, EnqueueCollect(m) PROVE NoStrandedBuffer'
    <3> DEFINE k == KeyOf[m]
    <3>1. k \in Key
      OBVIOUS
    <3>2. ASSUME NEW j \in Key, j # k
          PROVE /\ buffers'[j] = buffers[j]
                /\ gen'[j] = gen[j]
                /\ flushers'[j] = flushers[j]
                /\ <<j, gen[j]>> \in armed => <<j, gen[j]>> \in armed'
      BY <2>1, <3>1, <3>2 DEF EnqueueCollect, TimersWithBuffer
    <3>3. CASE ReachesCap(k)
      <4>1. flushers'[k] > 0
        BY <2>1, <3>1, <3>3 DEF EnqueueCollect
      <4>2. QED
        BY <3>2, <4>1
    <3>4. CASE ~ReachesCap(k)
      <4>1. Len(buffers'[k]) < CollectCap
        BY <2>1, <3>1, <3>4 DEF EnqueueCollect, AppendMsg, ReachesCap
      <4>2. <<k, gen'[k]>> \in armed' \/ flushers'[k] > 0
        BY <2>1, <3>1, <3>4 DEF EnqueueCollect, CurrentGen, TimersWithBuffer
      <4>3. Len(buffers'[k]) \in Nat
        BY <2>1, <3>1 DEF EnqueueCollect, AppendMsg
      <4>4. ASSUME NEW j \in Key
            PROVE /\ buffers'[j] # <<>> =>
                        <<j, gen'[j]>> \in armed' \/ flushers'[j] > 0
                  /\ Len(buffers'[j]) >= CollectCap => flushers'[j] > 0
        <5>1. CASE j = k
          BY <4>1, <4>2, <4>3, <5>1
        <5>2. CASE j # k
          BY <3>2, <5>2
        <5>3. QED
          BY <5>1, <5>2
      <4>5. QED
        BY <4>4
    <3>5. QED
      BY <3>3, <3>4
  <2>2. ASSUME NEW t \in armed, TimerFires(t) PROVE NoStrandedBuffer'
    BY <2>2 DEF TimerFires
  <2>3. ASSUME NEW k \in Key, FlushFindsNothing(k) PROVE NoStrandedBuffer'
    BY <2>3 DEF FlushFindsNothing
  <2>4. ASSUME NEW k \in Key, FlushTakes(k) PROVE NoStrandedBuffer'
    <3>1. buffers'[k] = <<>> /\ Len(buffers'[k]) < CollectCap
      BY <2>4 DEF FlushTakes
    <3>2. ASSUME NEW j \in Key, j # k
          PROVE buffers'[j] = buffers[j] /\ flushers'[j] = flushers[j]
      BY <2>4, <3>2 DEF FlushTakes
    <3>3. gen' = gen /\ armed' = armed
      BY <2>4 DEF FlushTakes
    <3>4. ASSUME NEW j \in Key
          PROVE /\ buffers'[j] # <<>> =>
                      <<j, gen'[j]>> \in armed' \/ flushers'[j] > 0
                /\ Len(buffers'[j]) >= CollectCap => flushers'[j] > 0
      <4>1. CASE j = k
        BY <3>1, <4>1
      <4>2. CASE j # k
        BY <3>2, <3>3, <4>2
      <4>3. QED
        BY <4>1, <4>2
    <3>5. QED
      BY <3>4
  <2>5. ASSUME NEW b \in taken, PublishBatch(b) PROVE NoStrandedBuffer'
    BY <2>5 DEF PublishBatch
  <2>6. ASSUME NEW b \in taken, PublishBatchFails(b) PROVE NoStrandedBuffer'
    BY <2>6 DEF PublishBatchFails
  <2>7. CASE Restart
    BY <2>7 DEF Restart
  <2>8. CASE UNCHANGED vars
    BY <2>8 DEF vars
  <2>9. QED
    BY <2>1, <2>2, <2>3, <2>4, <2>5, <2>6, <2>7, <2>8 DEF Next
<1>3. QED
  BY <1>1, <1>2, TypeCorrect, PTL DEF Spec
-----------------------------------------------------------------------------
\* A batch without its generation, as the abstract specification knows it.
Forgetful(B) == {[key |-> b.key, msgs |-> b.msgs] : b \in B}

\* Forgetting the generations commutes with union.
LEMMA ForgetfulUnion ==
    ASSUME NEW A, NEW B
    PROVE  Forgetful(A \cup B) = Forgetful(A) \cup Forgetful(B)
BY Zenon DEF Forgetful

\* What a step does to the set of all batches that left a buffer: nothing,
\* unless it is a flush or a restart (flushCollectBuffer).
LEMMA ClosedSteps ==
    ASSUME TypeOK, [Next]_vars
    PROVE  \/ Closed' = Closed /\ buffers' = buffers /\ waiting' = waiting
           \/ \E m \in Msg : Closed' = Closed /\ EnqueueCollect(m)
           \/ \E K \in SUBSET Key :
                /\ \A k \in K : buffers[k] # <<>>
                /\ Closed' = Closed \cup {OpenBatch(k) : k \in K}
                /\ buffers' = [k \in Key |-> IF k \in K THEN <<>> ELSE buffers[k]]
                /\ waiting' = waiting
<1> USE DEF Closed
<1>1. ASSUME NEW m \in Msg, EnqueueCollect(m)
      PROVE Closed' = Closed /\ EnqueueCollect(m)
  BY <1>1 DEF EnqueueCollect
<1>2. ASSUME NEW t \in armed, TimerFires(t)
      PROVE Closed' = Closed /\ buffers' = buffers /\ waiting' = waiting
  BY <1>2 DEF TimerFires
<1>3. ASSUME NEW k \in Key, FlushFindsNothing(k)
      PROVE Closed' = Closed /\ buffers' = buffers /\ waiting' = waiting
  BY <1>3 DEF FlushFindsNothing
<1>4. ASSUME NEW k \in Key, FlushTakes(k)
      PROVE \E K \in SUBSET Key :
                /\ \A j \in K : buffers[j] # <<>>
                /\ Closed' = Closed \cup {OpenBatch(j) : j \in K}
                /\ buffers' = [j \in Key |-> IF j \in K THEN <<>> ELSE buffers[j]]
                /\ waiting' = waiting
  <2> WITNESS {k} \in SUBSET Key
  <2>1. \A j \in {k} : buffers[j] # <<>>
    BY <1>4 DEF FlushTakes
  <2>2. Closed' = Closed \cup {OpenBatch(j) : j \in {k}}
    BY <1>4 DEF FlushTakes
  <2>3. buffers' = [j \in Key |-> IF j \in {k} THEN <<>> ELSE buffers[j]]
    BY <1>4 DEF FlushTakes, TypeOK
  <2>4. waiting' = waiting
    BY <1>4 DEF FlushTakes
  <2>5. QED
    BY <2>1, <2>2, <2>3, <2>4
<1>5. ASSUME NEW b \in taken, PublishBatch(b)
      PROVE Closed' = Closed /\ buffers' = buffers /\ waiting' = waiting
  BY <1>5 DEF PublishBatch
<1>6. ASSUME NEW b \in taken, PublishBatchFails(b)
      PROVE Closed' = Closed /\ buffers' = buffers /\ waiting' = waiting
  BY <1>6 DEF PublishBatchFails
<1>7. ASSUME Restart
      PROVE \E K \in SUBSET Key :
                /\ \A j \in K : buffers[j] # <<>>
                /\ Closed' = Closed \cup {OpenBatch(j) : j \in K}
                /\ buffers' = [j \in Key |-> IF j \in K THEN <<>> ELSE buffers[j]]
                /\ waiting' = waiting
  <2> DEFINE Open == {j \in Key : buffers[j] # <<>>}
  <2> WITNESS Open \in SUBSET Key
  <2>1. Closed' = Closed \cup {OpenBatch(j) : j \in Open}
    BY <1>7 DEF Restart
  <2>2. buffers' = [j \in Key |-> IF j \in Open THEN <<>> ELSE buffers[j]]
    BY <1>7 DEF Restart, TypeOK
  <2>3. waiting' = waiting
    BY <1>7 DEF Restart
  <2>4. QED
    BY <2>1, <2>2, <2>3
<1>8. CASE UNCHANGED vars
  BY <1>8 DEF vars
<1>9. QED
  BY <1>1, <1>2, <1>3, <1>4, <1>5, <1>6, <1>7, <1>8 DEF Next

\* The router's buffers, timers and flush goroutines implement the batching
\* that collect mode promises, whatever flush takes whatever buffer.
THEOREM Refinement == Spec => ImplementsBatching
<1> USE CollectAssumption
<1>1. Init => Promise!Init
  BY DEF Init, Promise!Init, Closed
<1>2. TypeOK /\ [Next]_vars => [Promise!Next]_Promise!vars
  <2> SUFFICES ASSUME TypeOK, [Next]_vars
               PROVE [Promise!Next]_Promise!vars
    OBVIOUS
  <2>1. CASE Closed' = Closed /\ buffers' = buffers /\ waiting' = waiting
    BY <2>1 DEF Promise!vars
  <2>2. ASSUME NEW m \in Msg, Closed' = Closed, EnqueueCollect(m)
        PROVE Promise!Next
    <3>1. Promise!Accept(m)
      BY <2>2 DEF EnqueueCollect, AppendMsg, Promise!Accept
    <3>2. QED
      BY <3>1 DEF Promise!Next
  <2>3. ASSUME NEW K \in SUBSET Key,
               \A k \in K : buffers[k] # <<>>,
               Closed' = Closed \cup {OpenBatch(k) : k \in K},
               buffers' = [k \in Key |-> IF k \in K THEN <<>> ELSE buffers[k]],
               waiting' = waiting
        PROVE Promise!Next
    <3> DEFINE Cut == {OpenBatch(k) : k \in K}
    <3>1. Forgetful(Closed') =
            Forgetful(Closed) \cup {[key |-> k, msgs |-> buffers[k]] : k \in K}
      <4>1. \A k \in K : /\ OpenBatch(k).key = k
                         /\ OpenBatch(k).msgs = buffers[k]
        BY DEF OpenBatch
      <4>2. Forgetful(Cut) = {[key |-> k, msgs |-> buffers[k]] : k \in K}
        <5> HIDE DEF OpenBatch
        <5> QED
          BY <4>1 DEF Forgetful
      <4>3. Closed' = Closed \cup Cut
        BY <2>3
      <4> HIDE DEF Cut
      <4>4. Forgetful(Closed') = Forgetful(Closed) \cup Forgetful(Cut)
        BY <4>3, ForgetfulUnion
      <4>5. QED
        BY <4>2, <4>4
    <3>2. Promise!Seal(K)
      BY <2>3, <3>1 DEF Promise!Seal, Forgetful
    <3>3. QED
      BY <3>2 DEF Promise!Next
  <2>4. QED
    BY <2>1, <2>2, <2>3, ClosedSteps
<1>3. QED
  BY <1>1, <1>2, TypeCorrect, PTL DEF Spec, ImplementsBatching, Promise!Spec
-----------------------------------------------------------------------------
\* Appending a message adds it to what the buffer holds
\* (buf.msgs = append(buf.msgs, msg)).
LEMMA AppendAdds ==
    ASSUME NEW s \in Seq(Msg), NEW m \in Msg
    PROVE  Range(AppendMsg(s, m)) = Range(s) \cup {m}
<1> DEFINE t == Append(s, m)
<1>1. /\ DOMAIN t = 1 .. Len(s) + 1
      /\ DOMAIN s = 1 .. Len(s)
      /\ Len(s) \in Nat
      /\ t[Len(s) + 1] = m
      /\ \A i \in 1 .. Len(s) : t[i] = s[i]
  OBVIOUS
<1> HIDE DEF t
<1>2. Range(t) = Range(s) \cup {m}
  BY <1>1 DEF Range
<1>3. QED
  BY <1>2 DEF AppendMsg, t

\* Appending a message that a buffer does not hold keeps its messages
\* distinct (enqueueCollect).
LEMMA AppendInjective ==
    ASSUME NEW s \in Seq(Msg), NEW m \in Msg, IsInjective(s), m \notin Range(s)
    PROVE  IsInjective(AppendMsg(s, m))
<1> DEFINE t == Append(s, m)
<1>1. /\ DOMAIN t = 1 .. Len(s) + 1
      /\ DOMAIN s = 1 .. Len(s)
      /\ Len(s) \in Nat
      /\ t[Len(s) + 1] = m
      /\ \A i \in 1 .. Len(s) : t[i] = s[i]
  OBVIOUS
<1> HIDE DEF t
<1>2. IsInjective(t)
  BY <1>1 DEF Range, IsInjective
<1>3. QED
  BY <1>2 DEF AppendMsg, t

\* The part of ExactlyOnePlace about where messages are.
OnePlace ==
    /\ \A k \in Key : IsInjective(buffers[k])
    /\ \A b \in Closed : IsInjective(b.msgs)
    /\ \A m \in Msg : m \in waiting <=>
         /\ \A k \in Key : m \notin Range(buffers[k])
         /\ \A b \in Closed : m \notin Range(b.msgs)
    /\ \A b \in Closed, k \in Key : Range(b.msgs) \cap Range(buffers[k]) = {}
    /\ \A b, c \in Closed : b # c => Range(b.msgs) \cap Range(c.msgs) = {}
    /\ \A j, k \in Key : j # k => Range(buffers[j]) \cap Range(buffers[k]) = {}

\* The part of ExactlyOnePlace about what became of a batch.
OneOutcome ==
    /\ taken \cap (published \cup failed \cup lost) = {}
    /\ published \cap (failed \cup lost) = {}
    /\ failed \cap lost = {}

\* enqueueCollect puts the message, which was nowhere, into one buffer.
LEMMA EnqueueKeepsOnePlace ==
    ASSUME TypeOK, OnePlace, NEW m \in Msg, EnqueueCollect(m), Closed' = Closed
    PROVE  OnePlace'
<1> USE CollectAssumption
<1> DEFINE k == KeyOf[m]
<1>1. k \in Key /\ buffers[k] \in Seq(Msg)
  BY DEF TypeOK
<1>2. m \in waiting /\ waiting' = waiting \ {m}
  BY DEF EnqueueCollect
<1>3. /\ \A j \in Key : m \notin Range(buffers[j])
      /\ \A b \in Closed : m \notin Range(b.msgs)
  BY <1>2 DEF OnePlace
<1>4. /\ buffers'[k] = AppendMsg(buffers[k], m)
      /\ \A j \in Key : j # k => buffers'[j] = buffers[j]
  BY <1>1 DEF EnqueueCollect, TypeOK
<1>5. Range(buffers'[k]) = Range(buffers[k]) \cup {m}
  BY <1>1, <1>4, AppendAdds
<1>6. IsInjective(buffers'[k])
  BY <1>1, <1>3, <1>4, AppendInjective DEF OnePlace
<1> HIDE DEF k
<1>7. \A j \in Key : IsInjective(buffers'[j])
  BY <1>4, <1>6 DEF OnePlace
<1>8. \A b \in Closed' : IsInjective(b.msgs)
  BY DEF OnePlace
<1>9. \A j \in Key : \A x : x \in Range(buffers'[j]) <=>
          x \in Range(buffers[j]) \/ (j = k /\ x = m)
  BY <1>4, <1>5
<1>10. \A n \in Msg : n \in waiting' <=>
         /\ \A j \in Key : n \notin Range(buffers'[j])
         /\ \A b \in Closed' : n \notin Range(b.msgs)
  BY <1>1, <1>2, <1>9 DEF OnePlace
<1>11. \A b \in Closed', j \in Key : Range(b.msgs) \cap Range(buffers'[j]) = {}
  BY <1>3, <1>9 DEF OnePlace
<1>12. \A b, c \in Closed' : b # c => Range(b.msgs) \cap Range(c.msgs) = {}
  BY DEF OnePlace
<1>13. \A i, j \in Key : i # j => Range(buffers'[i]) \cap Range(buffers'[j]) = {}
  BY <1>3, <1>9 DEF OnePlace
<1>14. QED
  BY <1>7, <1>8, <1>10, <1>11, <1>12, <1>13 DEF OnePlace

\* A flush, and a restart, turn whole buffers into batches: no message is
\* added or dropped on the way (flushCollectBuffer).
LEMMA CutKeepsOnePlace ==
    ASSUME TypeOK, OnePlace,
           NEW K \in SUBSET Key,
           \A k \in K : buffers[k] # <<>>,
           Closed' = Closed \cup {OpenBatch(k) : k \in K},
           buffers' = [k \in Key |-> IF k \in K THEN <<>> ELSE buffers[k]],
           waiting' = waiting
    PROVE  OnePlace'
<1>1. /\ \A j \in K : buffers'[j] = <<>>
      /\ \A j \in Key \ K : buffers'[j] = buffers[j]
  OBVIOUS
<1>2. Range(<<>>) = {} /\ IsInjective(<<>>)
  BY DEF Range, IsInjective
<1>3. \A j \in Key : \A x : x \in Range(buffers'[j]) <=>
          j \notin K /\ x \in Range(buffers[j])
  BY <1>1, <1>2
<1>4. \A b \in Closed' : \/ b \in Closed
                         \/ \E j \in K : b = OpenBatch(j)
  OBVIOUS
<1>5. \A j \in K : OpenBatch(j) \in Closed' /\ OpenBatch(j).msgs = buffers[j]
  BY DEF OpenBatch
<1>6. Closed \subseteq Closed'
  OBVIOUS
<1>7. \A j \in Key : IsInjective(buffers'[j])
  BY <1>1, <1>2 DEF OnePlace
<1>8. \A b \in Closed' : IsInjective(b.msgs)
  BY <1>4, <1>5 DEF OnePlace
<1>9. ASSUME NEW n \in Msg
      PROVE  n \in waiting' <=>
               /\ \A j \in Key : n \notin Range(buffers'[j])
               /\ \A b \in Closed' : n \notin Range(b.msgs)
  <2>1. ASSUME n \in waiting, NEW j \in Key PROVE n \notin Range(buffers'[j])
    BY <1>3, <2>1 DEF OnePlace
  <2>2. ASSUME n \in waiting, NEW b \in Closed' PROVE n \notin Range(b.msgs)
    BY <1>4, <1>5, <2>2 DEF OnePlace
  <2>3. ASSUME n \notin waiting, \A j \in Key : n \notin Range(buffers'[j])
        PROVE  \E b \in Closed' : n \in Range(b.msgs)
    BY <1>3, <1>5, <1>6, <2>3 DEF OnePlace
  <2>4. QED
    BY <2>1, <2>2, <2>3
<1>10. \A b \in Closed', j \in Key : Range(b.msgs) \cap Range(buffers'[j]) = {}
  <2> SUFFICES ASSUME NEW b \in Closed', NEW j \in Key
               PROVE  Range(b.msgs) \cap Range(buffers'[j]) = {}
    OBVIOUS
  <2>1. CASE b \in Closed
    BY <1>3, <2>1 DEF OnePlace
  <2>2. ASSUME NEW i \in K, b = OpenBatch(i)
        PROVE  Range(b.msgs) \cap Range(buffers'[j]) = {}
    BY <1>3, <1>5, <2>2 DEF OnePlace
  <2>3. QED
    BY <1>4, <2>1, <2>2
<1>11. \A b, c \in Closed' : b # c => Range(b.msgs) \cap Range(c.msgs) = {}
  <2> SUFFICES ASSUME NEW b \in Closed', NEW c \in Closed', b # c
               PROVE  Range(b.msgs) \cap Range(c.msgs) = {}
    OBVIOUS
  <2>1. CASE b \in Closed /\ c \in Closed
    BY <2>1 DEF OnePlace
  <2>2. ASSUME NEW i \in K, b = OpenBatch(i), c \in Closed
        PROVE  Range(b.msgs) \cap Range(c.msgs) = {}
    BY <1>5, <2>2 DEF OnePlace
  <2>3. ASSUME NEW i \in K, c = OpenBatch(i), b \in Closed
        PROVE  Range(b.msgs) \cap Range(c.msgs) = {}
    BY <1>5, <2>3 DEF OnePlace
  <2>4. ASSUME NEW i \in K, b = OpenBatch(i), NEW j \in K, c = OpenBatch(j)
        PROVE  Range(b.msgs) \cap Range(c.msgs) = {}
    <3>1. i # j
      BY <2>4
    <3>2. QED
      BY <1>5, <2>4, <3>1, SMTT(40) DEF OnePlace
  <2>5. QED
    BY <1>4, <2>1, <2>2, <2>3, <2>4
<1>12. \A i, j \in Key : i # j => Range(buffers'[i]) \cap Range(buffers'[j]) = {}
  BY <1>3 DEF OnePlace
<1>13. QED
  BY <1>7, <1>8, <1>9, <1>10, <1>11, <1>12 DEF OnePlace

\* A batch that is cut from a buffer with messages in it is a new one.
LEMMA CutIsNew ==
    ASSUME TypeOK, OnePlace, NEW k \in Key, buffers[k] # <<>>
    PROVE  OpenBatch(k) \notin Closed
<1>1. OpenBatch(k).msgs = buffers[k]
  BY DEF OpenBatch
<1>2. buffers[k] \in Seq(Msg)
  BY DEF TypeOK
<1>3. Range(buffers[k]) # {}
  <2>1. 1 \in DOMAIN buffers[k]
    BY <1>2
  <2>2. QED
    BY <2>1 DEF Range
<1>4. QED
  BY <1>1, <1>3 DEF OnePlace

\* No step gives a batch a second outcome: a batch is published, or fails,
\* or is lost, after it was taken and once.
LEMMA StepKeepsOneOutcome ==
    ASSUME TypeOK, OnePlace, OneOutcome, [Next]_vars
    PROVE  OneOutcome'
<1> USE DEF OneOutcome
<1>1. ASSUME NEW m \in Msg, EnqueueCollect(m) PROVE OneOutcome'
  BY <1>1 DEF EnqueueCollect
<1>2. ASSUME NEW t \in armed, TimerFires(t) PROVE OneOutcome'
  BY <1>2 DEF TimerFires
<1>3. ASSUME NEW k \in Key, FlushFindsNothing(k) PROVE OneOutcome'
  BY <1>3 DEF FlushFindsNothing
<1>4. ASSUME NEW k \in Key, FlushTakes(k) PROVE OneOutcome'
  <2>1. OpenBatch(k) \notin Closed
    BY <1>4, CutIsNew DEF FlushTakes
  <2>2. QED
    BY <1>4, <2>1 DEF FlushTakes, Closed
<1>5. ASSUME NEW b \in taken, PublishBatch(b) PROVE OneOutcome'
  BY <1>5 DEF PublishBatch
<1>6. ASSUME NEW b \in taken, PublishBatchFails(b) PROVE OneOutcome'
  BY <1>6 DEF PublishBatchFails
<1>7. CASE Restart
  <2> DEFINE Cut == {OpenBatch(k) : k \in {j \in Key : buffers[j] # <<>>}}
  <2>1. Cut \cap Closed = {}
    BY CutIsNew
  <2>2. /\ lost' = lost \cup taken \cup Cut
        /\ taken' = {} /\ published' = published /\ failed' = failed
    BY <1>7 DEF Restart
  <2> HIDE DEF Cut
  <2>3. QED
    BY <2>1, <2>2 DEF Closed
<1>8. CASE UNCHANGED vars
  BY <1>8 DEF vars
<1>9. QED
  BY <1>1, <1>2, <1>3, <1>4, <1>5, <1>6, <1>7, <1>8 DEF Next

\* Every message that reached enqueueCollect is in exactly one place, and
\* once there: no flush, stale or not, duplicates or drops one, and no batch
\* gets two outcomes (enqueueCollect, flushCollectBuffer).
THEOREM NothingDuplicatedOrDropped == Spec => []ExactlyOnePlace
<1>1. Init => OnePlace /\ OneOutcome
  <2>1. Range(<<>>) = {} /\ IsInjective(<<>>)
    BY DEF Range, IsInjective
  <2>2. QED
    BY <2>1 DEF Init, OnePlace, OneOutcome, Closed
<1>2. TypeOK /\ OnePlace /\ OneOutcome /\ [Next]_vars
      => OnePlace' /\ OneOutcome'
  <2> SUFFICES ASSUME TypeOK, OnePlace, OneOutcome, [Next]_vars
               PROVE  OnePlace'
    BY StepKeepsOneOutcome
  <2>1. CASE Closed' = Closed /\ buffers' = buffers /\ waiting' = waiting
    BY <2>1 DEF OnePlace
  <2>2. ASSUME NEW m \in Msg, Closed' = Closed, EnqueueCollect(m)
        PROVE  OnePlace'
    BY <2>2, EnqueueKeepsOnePlace
  <2>3. ASSUME NEW K \in SUBSET Key,
               \A k \in K : buffers[k] # <<>>,
               Closed' = Closed \cup {OpenBatch(k) : k \in K},
               buffers' = [k \in Key |-> IF k \in K THEN <<>> ELSE buffers[k]],
               waiting' = waiting
        PROVE  OnePlace'
    BY <2>3, CutKeepsOnePlace
  <2>4. QED
    BY <2>1, <2>2, <2>3, ClosedSteps
<1>3. OnePlace /\ OneOutcome => ExactlyOnePlace
  BY DEF OnePlace, OneOutcome, ExactlyOnePlace
<1>4. QED
  BY <1>1, <1>2, <1>3, TypeCorrect, PTL DEF Spec
=============================================================================
