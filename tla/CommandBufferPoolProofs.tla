------------------------ MODULE CommandBufferPoolProofs ------------------------
(***************************************************************************)
(* TLAPS proofs about CommandBufferPool, for every number of buffers and   *)
(* of uses of them, and about the commands that PaperRenderer records into *)
(* such buffers: the passes of a frame (FramePasses), for frames of every  *)
(* size and all flags; and the lookup table of the SSDO passes             *)
(* (SsdoTable), for every depth image.                                     *)
(***************************************************************************)
EXTENDS CommandBufferPool, FramePasses, SsdoTable, DataLemmas

(* No buffer is twice in the queues of the pools. *)
Distinct(queues) ==
  \A p, q \in Pool : \A i \in 1..Len(queues[p]), j \in 1..Len(queues[q]) :
    queues[p][i] = queues[q][j] => p = q /\ i = j

Pushed(queues, p, b) == [queues EXCEPT ![p] = Append(@, b)]
Popped(queues, p) == [queues EXCEPT ![p] = Tail(@)]

(* What a push does to the contents of the queues.                         *)
LEMMA PushProperties ==
  ASSUME NEW queues \in [Pool -> Seq(Buffer)], NEW p \in Pool, NEW b \in Buffer
  PROVE  /\ Pushed(queues, p, b) \in [Pool -> Seq(Buffer)]
         /\ \A c \in Buffer : In(Pushed(queues, p, b), c) <=> In(queues, c) \/ c = b
         /\ Distinct(queues) /\ ~In(queues, b) => Distinct(Pushed(queues, p, b))
<1> DEFINE new == Pushed(queues, p, b)
<1>1. /\ new \in [Pool -> Seq(Buffer)]
      /\ new[p] = Append(queues[p], b)
      /\ \A q \in Pool \ {p} : new[q] = queues[q]
  BY DEF Pushed
<1>2. \A q \in Pool : queues[q] \in Seq(Buffer) /\ Len(queues[q]) \in Nat
  BY LenProperties
<1>3. /\ Len(new[p]) = Len(queues[p]) + 1
      /\ \A i \in 1..Len(queues[p]) : new[p][i] = queues[p][i]
      /\ new[p][Len(queues[p]) + 1] = b
  BY <1>1, <1>2, AppendProperties
<1> HIDE DEF new
<1>4. \A c \in Buffer : In(new, c) <=> In(queues, c) \/ c = b
  <2> TAKE c \in Buffer
  <2>1. ASSUME In(new, c)
        PROVE  In(queues, c) \/ c = b
    <3>1. PICK q \in Pool : \E i \in 1..Len(new[q]) : new[q][i] = c
      BY <2>1 DEF In
    <3>2. PICK i \in 1..Len(new[q]) : new[q][i] = c
      BY <3>1
    <3>3. CASE q = p /\ i = Len(queues[p]) + 1
      BY <1>3, <3>2, <3>3
    <3>4. CASE q = p /\ i # Len(queues[p]) + 1
      <4>1. i \in 1..Len(queues[p]) /\ queues[p][i] = c
        BY <1>2, <1>3, <3>2, <3>4
      <4> QED BY <4>1 DEF In
    <3>5. CASE q # p
      <4>1. i \in 1..Len(queues[q]) /\ queues[q][i] = c
        BY <1>1, <3>2, <3>5
      <4> QED BY <4>1 DEF In
    <3> QED BY <3>3, <3>4, <3>5
  <2>2. ASSUME In(queues, c)
        PROVE  In(new, c)
    <3>1. PICK q \in Pool : \E i \in 1..Len(queues[q]) : queues[q][i] = c
      BY <2>2 DEF In
    <3>2. PICK i \in 1..Len(queues[q]) : queues[q][i] = c
      BY <3>1
    <3>3. i \in 1..Len(new[q]) /\ new[q][i] = c
      <4>1. CASE q = p
        BY <1>2, <1>3, <3>2, <4>1
      <4>2. CASE q # p
        BY <1>1, <3>2, <4>2
      <4> QED BY <4>1, <4>2
    <3> QED BY <3>3 DEF In
  <2>3. In(new, b)
    <3>1. Len(queues[p]) + 1 \in 1..Len(new[p])
      BY <1>2, <1>3
    <3> QED BY <1>3, <3>1 DEF In
  <2> QED BY <2>1, <2>2, <2>3
<1>5. ASSUME Distinct(queues), ~In(queues, b)
      PROVE  Distinct(new)
  <2> SUFFICES ASSUME NEW q \in Pool, NEW r \in Pool,
                      NEW i \in 1..Len(new[q]), NEW j \in 1..Len(new[r]),
                      new[q][i] = new[r][j]
               PROVE  q = r /\ i = j
    BY DEF Distinct
  <2> DEFINE old(s, k) == s = p => k # Len(queues[p]) + 1
  <2>1. \A s \in Pool : \A k \in 1..Len(new[s]) :
          IF old(s, k)
          THEN k \in 1..Len(queues[s]) /\ new[s][k] = queues[s][k]
          ELSE new[s][k] = b
    <3> TAKE s \in Pool
    <3> TAKE k \in 1..Len(new[s])
    <3>1. CASE s = p
      BY <1>2, <1>3, <3>1
    <3>2. CASE s # p
      BY <1>1, <3>2
    <3> QED BY <3>1, <3>2
  <2>2. \A s \in Pool : \A k \in 1..Len(queues[s]) : queues[s][k] # b
    BY <1>5 DEF In
  <2>3. CASE old(q, i) /\ old(r, j)
    <3>1. /\ i \in 1..Len(queues[q]) /\ j \in 1..Len(queues[r])
          /\ queues[q][i] = queues[r][j]
      BY <2>1, <2>3
    <3> QED BY <1>5, <3>1 DEF Distinct
  <2>4. CASE ~old(q, i) /\ ~old(r, j)
    BY <2>4
  <2>5. CASE old(q, i) # old(r, j)
    BY <2>1, <2>2, <2>5
  <2> QED BY <2>3, <2>4, <2>5
<1> QED BY <1>1, <1>4, <1>5 DEF new

(* What a pop does to the contents of the queues.                          *)
LEMMA PopProperties ==
  ASSUME NEW queues \in [Pool -> Seq(Buffer)], NEW p \in Pool,
         queues[p] # <<>>
  PROVE  /\ Head(queues[p]) \in Buffer
         /\ In(queues, Head(queues[p]))
         /\ Popped(queues, p) \in [Pool -> Seq(Buffer)]
         /\ \A c \in Buffer : In(Popped(queues, p), c) => In(queues, c)
         /\ \A c \in Buffer \ {Head(queues[p])} :
              In(queues, c) => In(Popped(queues, p), c)
         /\ Distinct(queues) => /\ Distinct(Popped(queues, p))
                                /\ ~In(Popped(queues, p), Head(queues[p]))
<1> DEFINE new == Popped(queues, p)
           b == Head(queues[p])
<1>1. /\ queues[p] \in Seq(Buffer) /\ Tail(queues[p]) \in Seq(Buffer)
      /\ Len(queues[p]) \in Nat \ {0}
      /\ b = queues[p][1] /\ b \in Buffer
      /\ Len(Tail(queues[p])) = Len(queues[p]) - 1
      /\ \A i \in 1..Len(queues[p]) - 1 : Tail(queues[p])[i] = queues[p][i + 1]
  BY HeadTailProperties, EmptySeq, LenProperties
<1>2. /\ new \in [Pool -> Seq(Buffer)]
      /\ new[p] = Tail(queues[p])
      /\ \A q \in Pool \ {p} : new[q] = queues[q]
  BY <1>1 DEF Popped
<1>3. \A q \in Pool : Len(queues[q]) \in Nat
  BY LenProperties
<1> DEFINE from(q, i) == IF q = p THEN i + 1 ELSE i
<1> HIDE DEF new, b
<1>4. \A q \in Pool : \A i \in 1..Len(new[q]) :
        from(q, i) \in 1..Len(queues[q]) /\ new[q][i] = queues[q][from(q, i)]
  <2> TAKE q \in Pool
  <2> TAKE i \in 1..Len(new[q])
  <2>1. CASE q = p
    BY <1>1, <1>2, <2>1
  <2>2. CASE q # p
    BY <1>2, <2>2
  <2> QED BY <2>1, <2>2
<1>5. In(queues, b)
  <2>1. 1 \in 1..Len(queues[p]) /\ queues[p][1] = b
    BY <1>1
  <2> QED BY <2>1 DEF In
<1>6. \A c \in Buffer : In(new, c) => In(queues, c)
  BY <1>4 DEF In
<1>7. \A c \in Buffer \ {b} : In(queues, c) => In(new, c)
  <2> SUFFICES ASSUME NEW c \in Buffer \ {b}, NEW q \in Pool,
                      NEW i \in 1..Len(queues[q]), queues[q][i] = c
               PROVE  In(new, c)
    BY DEF In
  <2>1. CASE q = p
    <3>1. i # 1
      BY <1>1, <2>1
    <3>2. i - 1 \in 1..Len(new[p]) /\ new[p][i - 1] = queues[p][i]
      BY <1>1, <1>2, <2>1, <3>1
    <3> QED BY <2>1, <3>2 DEF In
  <2>2. CASE q # p
    BY <1>2, <2>2 DEF In
  <2> QED BY <2>1, <2>2
<1>8. ASSUME Distinct(queues)
      PROVE  Distinct(new) /\ ~In(new, b)
  <2>1. Distinct(new)
    <3> SUFFICES ASSUME NEW q \in Pool, NEW r \in Pool,
                        NEW i \in 1..Len(new[q]), NEW j \in 1..Len(new[r]),
                        new[q][i] = new[r][j]
                 PROVE  q = r /\ i = j
      BY DEF Distinct
    <3> HIDE DEF from
    <3>1. q = r /\ from(q, i) = from(r, j)
      <4>1. /\ from(q, i) \in 1..Len(queues[q])
            /\ from(r, j) \in 1..Len(queues[r])
            /\ queues[q][from(q, i)] = queues[r][from(r, j)]
        BY <1>4
      <4> QED BY <1>8, <4>1 DEF Distinct
    <3>2. Len(new[q]) \in Nat /\ Len(new[r]) \in Nat
      BY <1>2, LenProperties
    <3> QED BY <3>1, <3>2 DEF from
  <2>2. ~In(new, b)
    <3> SUFFICES ASSUME NEW q \in Pool, NEW i \in 1..Len(new[q]), new[q][i] = b
                 PROVE  FALSE
      BY DEF In
    <3>1. 1 \in 1..Len(queues[p]) /\ queues[p][1] = b
      BY <1>1
    <3> HIDE DEF from
    <3>2. q = p /\ from(q, i) = 1
      <4>1. /\ from(q, i) \in 1..Len(queues[q])
            /\ queues[q][from(q, i)] = queues[p][1]
        BY <1>4, <3>1
      <4> QED BY <1>8, <3>1, <4>1 DEF Distinct
    <3>3. Len(new[q]) \in Nat
      BY <1>2, LenProperties
    <3> QED BY <3>2, <3>3 DEF from
  <2> QED BY <2>1, <2>2
<1> QED BY <1>1, <1>2, <1>5, <1>6, <1>7, <1>8 DEF new, b
------------------------------------------------------------------------------
(* The inductive invariant.  A number names one buffer only, ...           *)
NumberInv ==
  /\ \A b \in Buffer : sequence_number[b] <= issued
  /\ \A b, c \in Buffer :
       sequence_number[b] = sequence_number[c] /\ sequence_number[b] # 0 => b = c
  /\ finished \subseteq 1..issued
  /\ 1..announced \subseteq finished

(* ... a buffer is in one place, and not reported while it is pending, ... *)
PlaceInv ==
  /\ Distinct(pending_buffers) /\ Distinct(free_buffers) /\ Distinct(queue)
  /\ \A b \in Buffer :
       /\ ~(In(pending_buffers, b) /\ In(free_buffers, b))
       /\ In(pending_buffers, b) \/ In(free_buffers, b)
            => sequence_number[b] # 0
       /\ In(pending_buffers, b) => sequence_number[b] \notin finished
       /\ b \in is_active => In(pending_buffers, b)

(* ... its flags tell what the GPU does with it, ...                       *)
FlagInv ==
  /\ is_submitted \subseteq is_active
  /\ \A b \in fence : b \in is_submitted /\ sequence_number[b] \in executed
  /\ \A b \in Buffer : In(queue, b) => b \in is_submitted /\ b \notin fence

(* ... and the one that is being retired has them cleared.                 *)
RetiringInv ==
  retiring => /\ caller # "none"
              /\ pending_buffers[cleaning] # <<>>
              /\ Oldest(cleaning) \notin is_active

IInv == TypeOK /\ NumberInv /\ PlaceInv /\ FlagInv /\ RetiringInv

LEMMA InitIInv == Init => IInv
<1> SUFFICES ASSUME Init
             PROVE  IInv
  OBVIOUS
<1>1. TypeOK
  <2>1. <<>> \in Seq(Buffer)
    BY EmptySeq
  <2>2. /\ pending_buffers \in [Pool -> Seq(Buffer)]
        /\ free_buffers \in [Pool -> Seq(Buffer)]
        /\ queue \in [Pool -> Seq(Buffer)]
    BY <2>1 DEF Init
  <2>3. /\ sequence_number \in [Buffer -> Nat]
        /\ called \in [1..MaxSequence -> Nat]
        /\ caller = "none" /\ cleaning \in Pool /\ retiring \in BOOLEAN
    BY DEF Init, Pool
  <2>4. /\ is_active \subseteq Buffer /\ is_submitted \subseteq Buffer
        /\ callback \subseteq Buffer /\ fence \subseteq Buffer
        /\ issued \in Nat /\ finished \subseteq Nat /\ announced \in Nat
        /\ executed \subseteq Nat /\ failed \subseteq Nat /\ asked \subseteq Nat
    BY DEF Init, Sequencer!Init
  <2> QED BY <2>2, <2>3, <2>4 DEF TypeOK
<1>2. NumberInv
  BY DEF Init, NumberInv, Sequencer!Init
<1>3. \A p \in Pool : /\ Len(pending_buffers[p]) = 0
                      /\ Len(free_buffers[p]) = 0
                      /\ Len(queue[p]) = 0
  BY EmptySeq DEF Init
<1>4. \A b : ~In(pending_buffers, b) /\ ~In(free_buffers, b) /\ ~In(queue, b)
  BY <1>3 DEF In
<1>5. Distinct(pending_buffers) /\ Distinct(free_buffers) /\ Distinct(queue)
  BY <1>3 DEF Distinct
<1>6. PlaceInv /\ FlagInv /\ RetiringInv
  BY <1>4, <1>5 DEF Init, PlaceInv, FlagInv, RetiringInv
<1> QED BY <1>1, <1>2, <1>6 DEF IInv

(* Entering and continuing a Cleanup() only moves the host. *)
LEMMA HostMoves ==
  ASSUME IInv, ~retiring, UNCHANGED <<poolVars, bufferVars, queue, retiring,
                                      sequencerVars, historyVars>>,
         caller' \in {"none", "GetCommandBuffer", "EscherImpl"},
         cleaning' \in Pool
  PROVE  IInv'
<1> USE DEF poolVars, bufferVars, sequencerVars, historyVars
<1>1. TypeOK'
  BY DEF IInv, TypeOK
<1>2. NumberInv'
  BY DEF IInv, NumberInv
<1>3. PlaceInv'
  BY DEF IInv, PlaceInv
<1>4. FlagInv' /\ RetiringInv'
  BY DEF IInv, FlagInv, RetiringInv
<1> QED BY <1>1, <1>2, <1>3, <1>4 DEF IInv

(* Retire() clears the flags of a buffer the GPU is through with.          *)
LEMMA RetireStep ==
  ASSUME IInv, Retire
  PROVE  IInv'
<1> DEFINE b == Oldest(cleaning)
<1>1. /\ ~HostIdle /\ pending_buffers[cleaning] # <<>>
      /\ Retirable(b)
      /\ is_active' = is_active \ {b}
      /\ is_submitted' = is_submitted \ {b}
      /\ fence' = fence \ {b}
      /\ callback' = callback \ {b}
      /\ retiring'
      /\ UNCHANGED <<pending_buffers, free_buffers, sequence_number, queue,
                     caller, cleaning, issued, finished, announced, executed,
                     failed, asked>>
  BY DEF Retire, poolVars, sequencerVars
<1>2. called' \in [1..MaxSequence -> Nat]
  <2> DEFINE n == sequence_number[b]
             more == IF b \in callback THEN called[n] + 1 ELSE called[n]
  <2>1. called' = [called EXCEPT ![n] = more]
    BY DEF Retire
  <2>2. called \in [1..MaxSequence -> Nat]
    BY DEF IInv, TypeOK
  <2>3. n \in 1..MaxSequence => more \in Nat
    <3> HIDE DEF n
    <3> QED BY <2>2
  <2> HIDE DEF n, more
  <2> QED BY <2>1, <2>2, <2>3
<1>3. TypeOK'
  BY <1>1, <1>2 DEF IInv, TypeOK
<1>4. NumberInv'
  BY <1>1 DEF IInv, NumberInv
<1>5. PlaceInv'
  BY <1>1 DEF IInv, PlaceInv
<1>6. ~In(queue, b)
  <2>1. b \in Buffer
    BY <1>1, PopProperties DEF Oldest, IInv, TypeOK
  <2> QED BY <1>1, <2>1 DEF Retirable, IInv, FlagInv
<1>7. FlagInv'
  BY <1>1, <1>6 DEF IInv, FlagInv
<1>8. RetiringInv'
  BY <1>1 DEF RetiringInv, HostIdle, Oldest
<1> QED BY <1>3, <1>4, <1>5, <1>7, <1>8 DEF IInv

(* The retired buffer moves from the pending to the free list, reported.   *)
LEMMA ReportFinishedStep ==
  ASSUME IInv, ReportFinished
  PROVE  IInv'
<1> DEFINE b == Oldest(cleaning)
           n == sequence_number[b]
<1>1. /\ retiring /\ pending_buffers[cleaning] # <<>> /\ b \notin is_active
      /\ pending_buffers' = Popped(pending_buffers, cleaning)
      /\ free_buffers' = Pushed(free_buffers, cleaning, b)
      /\ finished' = finished \cup {n}
      /\ announced' \in announced..issued
      /\ 1..announced' \subseteq finished'
      /\ n \in 1..issued
      /\ retiring' = FALSE
      /\ UNCHANGED <<is_active, is_submitted, sequence_number, callback, fence,
                     queue, caller, cleaning, issued, executed, failed, asked, called>>
  BY DEF ReportFinished, IInv, RetiringInv, Popped, Pushed, Sequencer!Finish,
         Sequencer!AllDoneUpTo, bufferVars, historyVars
<1>2. /\ pending_buffers \in [Pool -> Seq(Buffer)]
      /\ free_buffers \in [Pool -> Seq(Buffer)]
      /\ cleaning \in Pool
  BY DEF IInv, TypeOK
<1>3. b = Head(pending_buffers[cleaning])
  BY DEF Oldest
<1> HIDE DEF b
<1>4. /\ b \in Buffer
      /\ In(pending_buffers, b)
      /\ pending_buffers' \in [Pool -> Seq(Buffer)]
      /\ \A c \in Buffer : In(pending_buffers', c) => In(pending_buffers, c)
      /\ \A c \in Buffer \ {b} :
           In(pending_buffers, c) => In(pending_buffers', c)
      /\ Distinct(pending_buffers) =>
           Distinct(pending_buffers') /\ ~In(pending_buffers', b)
  BY <1>1, <1>2, <1>3, PopProperties
<1>5. /\ free_buffers' \in [Pool -> Seq(Buffer)]
      /\ \A c \in Buffer : In(free_buffers', c) <=> In(free_buffers, c) \/ c = b
      /\ Distinct(free_buffers) /\ ~In(free_buffers, b) => Distinct(free_buffers')
  BY <1>1, <1>2, <1>4, PushProperties
<1>6. TypeOK'
  <2>1. announced' \in Nat /\ finished' \subseteq Nat
    <3>1. issued \in Nat /\ finished \subseteq Nat /\ announced \in Nat
      BY DEF IInv, TypeOK
    <3>2. n \in Nat
      BY <1>1, <3>1
    <3> HIDE DEF n
    <3> QED BY <1>1, <3>1, <3>2
  <2>2. retiring' \in BOOLEAN
    BY <1>1
  <2>3. /\ pending_buffers' \in [Pool -> Seq(Buffer)]
        /\ free_buffers' \in [Pool -> Seq(Buffer)]
    BY <1>4, <1>5
  <2>4. UNCHANGED <<is_active, is_submitted, sequence_number, callback, fence,
                    queue, caller, cleaning, issued, executed, failed, asked, called>>
    BY <1>1
  <2> QED BY <2>1, <2>2, <2>3, <2>4 DEF IInv, TypeOK
<1>7. NumberInv'
  BY <1>1 DEF IInv, NumberInv
<1>8. PlaceInv'
  <2>1. PlaceInv
    BY DEF IInv
  <2>2. Distinct(pending_buffers)' /\ Distinct(free_buffers)' /\ Distinct(queue)'
    <3>1. Distinct(pending_buffers') /\ Distinct(free_buffers')
      BY <1>4, <1>5, <2>1 DEF PlaceInv
    <3> QED BY <1>1, <2>1, <3>1 DEF PlaceInv, Distinct
  <2>3. ASSUME NEW c \in Buffer
        PROVE  /\ ~(In(pending_buffers', c) /\ In(free_buffers', c))
               /\ In(pending_buffers', c) \/ In(free_buffers', c)
                    => sequence_number'[c] # 0
               /\ In(pending_buffers', c) => sequence_number'[c] \notin finished'
               /\ c \in is_active' => In(pending_buffers', c)
    <3>1. CASE c = b
      BY <1>1, <1>4, <1>5, <2>1, <3>1 DEF PlaceInv
    <3>2. CASE c # b
      <4>1. In(pending_buffers', c) =>
              In(pending_buffers, c) /\ sequence_number[c] # n
        BY <1>1, <1>4, <3>2 DEF IInv, NumberInv, PlaceInv
      <4> QED BY <1>1, <1>4, <1>5, <2>1, <3>2, <4>1 DEF PlaceInv
    <3> QED BY <3>1, <3>2
  <2> QED BY <2>2, <2>3 DEF PlaceInv, In, Distinct
<1>9. FlagInv'
  BY <1>1 DEF IInv, FlagInv
<1>10. RetiringInv'
  BY <1>1 DEF RetiringInv
<1> QED BY <1>6, <1>7, <1>8, <1>9, <1>10 DEF IInv

(* A buffer that is in no queue begins a new use with a new number.        *)
LEMMA ObtainStep ==
  ASSUME IInv, NEW b \in Buffer, ObtainAndBegin(b)
  PROVE  IInv'
<1>1. /\ caller = "GetCommandBuffer" /\ retiring = FALSE
      /\ issued' = issued + 1
      /\ sequence_number' = [sequence_number EXCEPT ![b] = issued + 1]
      /\ is_active' = is_active \cup {b}
      /\ pending_buffers' = Pushed(pending_buffers, cleaning, b)
      /\ caller' = "none"
      /\ UNCHANGED <<is_submitted, callback, fence, queue, cleaning, retiring,
                     finished, announced, executed, failed, asked, called>>
  <2>1. retiring \in BOOLEAN
    BY DEF IInv, TypeOK
  <2> QED BY <2>1 DEF ObtainAndBegin, CleanupDone, Pushed, Sequencer!Issue,
                      historyVars
<1>2. TypeOK /\ NumberInv /\ PlaceInv /\ FlagInv
  BY DEF IInv
<1>3. /\ pending_buffers \in [Pool -> Seq(Buffer)]
      /\ free_buffers \in [Pool -> Seq(Buffer)]
      /\ cleaning \in Pool
      /\ sequence_number \in [Buffer -> Nat]
      /\ issued \in Nat
  BY <1>2 DEF TypeOK
<1>4. /\ free_buffers' \in [Pool -> Seq(Buffer)]
      /\ \A c \in Buffer : In(free_buffers', c) => In(free_buffers, c)
      /\ ~In(free_buffers', b) /\ Distinct(free_buffers')
      /\ ~In(pending_buffers, b)
  <2>1. CASE free_buffers[cleaning] = <<>>
    <3>1. free_buffers' = free_buffers /\ sequence_number[b] = 0
      BY <2>1 DEF ObtainAndBegin, Unallocated
    <3>2. ~In(free_buffers, b) /\ ~In(pending_buffers, b)
      BY <1>2, <3>1 DEF PlaceInv
    <3> QED BY <1>2, <1>3, <3>1, <3>2 DEF PlaceInv
  <2>2. CASE free_buffers[cleaning] # <<>>
    <3>1. /\ free_buffers' = Popped(free_buffers, cleaning)
          /\ b = Head(free_buffers[cleaning])
      BY <2>2 DEF ObtainAndBegin, Popped
    <3>2. Distinct(free_buffers)
      BY <1>2 DEF PlaceInv
    <3>3. /\ In(free_buffers, b)
          /\ free_buffers' \in [Pool -> Seq(Buffer)]
          /\ \A c \in Buffer : In(free_buffers', c) => In(free_buffers, c)
          /\ ~In(free_buffers', b) /\ Distinct(free_buffers')
      BY <1>3, <2>2, <3>1, <3>2, PopProperties
    <3> QED BY <1>2, <3>3 DEF PlaceInv
  <2> QED BY <2>1, <2>2
<1>5. /\ pending_buffers' \in [Pool -> Seq(Buffer)]
      /\ \A c \in Buffer :
           In(pending_buffers', c) <=> In(pending_buffers, c) \/ c = b
      /\ Distinct(pending_buffers')
  <2>1. Distinct(pending_buffers)
    BY <1>2 DEF PlaceInv
  <2> QED BY <1>1, <1>3, <1>4, <2>1, PushProperties
<1>6. /\ sequence_number' \in [Buffer -> Nat]
      /\ sequence_number'[b] = issued + 1
      /\ \A c \in Buffer \ {b} : sequence_number'[c] = sequence_number[c]
  BY <1>1, <1>3
<1>7. b \notin is_active /\ b \notin is_submitted /\ b \notin fence
      /\ ~In(queue, b)
  BY <1>2, <1>4 DEF PlaceInv, FlagInv
<1>8. TypeOK'
  <2>1. is_active' \subseteq Buffer /\ issued' \in Nat
    BY <1>1, <1>2 DEF TypeOK
  <2> QED BY <1>1, <1>2, <1>4, <1>5, <1>6, <2>1 DEF TypeOK
<1>9. NumberInv'
  <2>1. \A c \in Buffer : sequence_number[c] \in Nat /\ sequence_number[c] <= issued
    BY <1>2, <1>3 DEF NumberInv
  <2>2. \A c \in Buffer : sequence_number'[c] <= issued'
    BY <1>1, <1>3, <1>6, <2>1
  <2>3. ASSUME NEW c \in Buffer, NEW d \in Buffer,
               sequence_number'[c] = sequence_number'[d],
               sequence_number'[c] # 0
        PROVE  c = d
    <3>1. CASE c = b \/ d = b
      BY <1>3, <1>6, <2>1, <2>3, <3>1
    <3>2. CASE c # b /\ d # b
      BY <1>2, <1>6, <2>3, <3>2 DEF NumberInv
    <3> QED BY <3>1, <3>2
  <2>4. finished' \subseteq 1..issued' /\ 1..announced' \subseteq finished'
    BY <1>1, <1>2, <1>3 DEF NumberInv
  <2> QED BY <2>2, <2>3, <2>4 DEF NumberInv
<1>10. PlaceInv'
  <2>1. Distinct(queue')
    BY <1>1, <1>2 DEF PlaceInv
  <2>2. ASSUME NEW c \in Buffer
        PROVE  /\ ~(In(pending_buffers', c) /\ In(free_buffers', c))
               /\ In(pending_buffers', c) \/ In(free_buffers', c)
                    => sequence_number'[c] # 0
               /\ In(pending_buffers', c) => sequence_number'[c] \notin finished'
               /\ c \in is_active' => In(pending_buffers', c)
    <3>1. CASE c = b
      <4>1. issued + 1 # 0 /\ issued + 1 \notin finished
        BY <1>2, <1>3 DEF NumberInv
      <4> QED BY <1>1, <1>4, <1>5, <1>6, <3>1, <4>1
    <3>2. CASE c # b
      BY <1>1, <1>2, <1>4, <1>5, <1>6, <3>2 DEF PlaceInv
    <3> QED BY <3>1, <3>2
  <2> QED BY Zenon, <1>4, <1>5, <2>1, <2>2 DEF PlaceInv
<1>11. FlagInv'
  BY <1>1, <1>2, <1>6, <1>7 DEF FlagInv
<1>12. RetiringInv'
  BY <1>1 DEF RetiringInv
<1> QED BY <1>8, <1>9, <1>10, <1>11, <1>12 DEF IInv

(* A submission hands the buffer to a queue ... *)
LEMMA SubmitSucceedsStep ==
  ASSUME IInv, NEW b \in Buffer, NEW q \in Pool, SubmitSucceeds(b, q)
  PROVE  IInv'
<1>1. /\ caller = "none" /\ b \in is_active /\ b \notin is_submitted
      /\ is_submitted' = is_submitted \cup {b}
      /\ callback' \in {callback, callback \cup {b}}
      /\ asked' \in {asked, asked \cup {sequence_number[b]}}
      /\ queue' = Pushed(queue, q, b)
      /\ UNCHANGED <<pending_buffers, free_buffers, is_active,
                     sequence_number, fence, caller, cleaning, retiring,
                     issued, finished, announced, executed, failed, called>>
  BY DEF SubmitSucceeds, CanSubmit, HostIdle, SetCallback, Pushed, poolVars,
         hostVars, sequencerVars
<1>2. TypeOK /\ NumberInv /\ PlaceInv /\ FlagInv /\ RetiringInv
  BY DEF IInv
<1>3. ~In(queue, b) /\ Distinct(queue)
  BY <1>1, <1>2 DEF FlagInv, PlaceInv
<1>4. /\ queue' \in [Pool -> Seq(Buffer)]
      /\ \A c \in Buffer : In(queue', c) <=> In(queue, c) \/ c = b
      /\ Distinct(queue')
  <2>1. queue \in [Pool -> Seq(Buffer)]
    BY <1>2 DEF TypeOK
  <2> QED BY <1>1, <1>3, <2>1, PushProperties
<1>5. TypeOK'
  <2>1. /\ is_submitted' \subseteq Buffer /\ callback' \subseteq Buffer
        /\ asked' \subseteq Nat
    BY <1>1, <1>2 DEF TypeOK
  <2> QED BY <1>1, <1>2, <1>4, <2>1 DEF TypeOK
<1>6. NumberInv'
  BY <1>1, <1>2 DEF NumberInv
<1>7. PlaceInv'
  BY <1>1, <1>2, <1>4 DEF PlaceInv
<1>8. FlagInv'
  BY <1>1, <1>2, <1>4 DEF FlagInv
<1>9. RetiringInv'
  BY <1>1, <1>2 DEF RetiringInv
<1> QED BY <1>5, <1>6, <1>7, <1>8, <1>9 DEF IInv

(* ... or fails and gives it up. *)
LEMMA SubmitFailsStep ==
  ASSUME IInv, NEW b \in Buffer, SubmitFails(b)
  PROVE  IInv'
<1>1. /\ caller = "none" /\ b \notin is_submitted
      /\ is_active' = is_active \ {b}
      /\ callback' \in {callback, callback \cup {b}}
      /\ asked' \in {asked, asked \cup {sequence_number[b]}}
      /\ failed' = failed \cup {sequence_number[b]}
      /\ UNCHANGED <<pending_buffers, free_buffers, is_submitted,
                     sequence_number, fence, queue, caller, cleaning, retiring,
                     issued, finished, announced, executed, called>>
  BY DEF SubmitFails, CanSubmit, HostIdle, SetCallback, poolVars, hostVars,
         sequencerVars
<1>2. TypeOK /\ NumberInv /\ PlaceInv /\ FlagInv /\ RetiringInv
  BY DEF IInv
<1>3. TypeOK'
  <2>1. /\ is_active' \subseteq Buffer /\ callback' \subseteq Buffer
        /\ failed' \subseteq Nat /\ asked' \subseteq Nat
    BY <1>1, <1>2 DEF TypeOK
  <2> QED BY <1>1, <1>2, <2>1 DEF TypeOK
<1>4. NumberInv'
  BY <1>1, <1>2 DEF NumberInv
<1>5. PlaceInv'
  BY <1>1, <1>2 DEF PlaceInv
<1>6. FlagInv'
  BY <1>1, <1>2 DEF FlagInv
<1>7. RetiringInv'
  BY <1>1, <1>2 DEF RetiringInv
<1> QED BY <1>3, <1>4, <1>5, <1>6, <1>7 DEF IInv

(* The GPU signals the fence of the buffer it has executed.                *)
LEMMA GpuStep ==
  ASSUME IInv, NEW q \in Pool, GpuExecutes(q)
  PROVE  IInv'
<1> DEFINE b == Head(queue[q])
<1>1. /\ queue[q] # <<>>
      /\ fence' = fence \cup {b}
      /\ executed' = executed \cup {sequence_number[b]}
      /\ queue' = Popped(queue, q)
      /\ UNCHANGED <<pending_buffers, free_buffers, is_active, is_submitted,
                     sequence_number, callback, caller, cleaning, retiring,
                     issued, finished, announced, failed, asked, called>>
  BY DEF GpuExecutes, Popped, poolVars, hostVars, sequencerVars
<1>2. TypeOK /\ NumberInv /\ PlaceInv /\ FlagInv /\ RetiringInv
  BY DEF IInv
<1>3. /\ b \in Buffer /\ In(queue, b)
      /\ queue' \in [Pool -> Seq(Buffer)]
      /\ \A c \in Buffer : In(queue', c) => In(queue, c)
      /\ Distinct(queue') /\ ~In(queue', b)
  <2>1. queue \in [Pool -> Seq(Buffer)] /\ Distinct(queue)
    BY <1>2 DEF TypeOK, PlaceInv
  <2> QED BY <1>1, <2>1, PopProperties
<1> HIDE DEF b
<1>4. TypeOK'
  <2>1. fence' \subseteq Buffer /\ executed' \subseteq Nat
    BY <1>1, <1>2, <1>3 DEF TypeOK
  <2> QED BY <1>1, <1>2, <1>3, <2>1 DEF TypeOK
<1>5. NumberInv'
  BY <1>1, <1>2 DEF NumberInv
<1>6. PlaceInv'
  BY <1>1, <1>2, <1>3 DEF PlaceInv
<1>7. FlagInv'
  BY <1>1, <1>2, <1>3 DEF FlagInv
<1>8. RetiringInv'
  BY <1>1, <1>2 DEF RetiringInv, Oldest
<1> QED BY <1>4, <1>5, <1>6, <1>7, <1>8 DEF IInv

LEMMA Inductive == IInv /\ [Next]_vars => IInv'
<1> SUFFICES ASSUME IInv, [Next]_vars
             PROVE  IInv'
  OBVIOUS
<1>1. ASSUME NEW p \in Pool, GetCommandBuffer(p)
      PROVE  IInv'
  BY <1>1, HostMoves DEF GetCommandBuffer, EnterCleanup, HostIdle, IInv,
     RetiringInv
<1>2. CASE EscherCleanup
  <2>1. Main \in Pool
    BY DEF Pool
  <2> QED BY <1>2, <2>1, HostMoves DEF EscherCleanup, EnterCleanup, HostIdle,
             IInv, RetiringInv
<1>3. CASE Retire
  BY <1>3, RetireStep
<1>4. CASE ReportFinished
  BY <1>4, ReportFinishedStep
<1>5. CASE EscherCleanupNext
  <2>1. Transfer \in Pool /\ cleaning \in Pool
    BY DEF Pool, IInv, TypeOK
  <2> QED BY <1>5, <2>1, HostMoves DEF EscherCleanupNext, CleanupDone
<1>6. ASSUME NEW b \in Buffer, ObtainAndBegin(b)
      PROVE  IInv'
  BY <1>6, ObtainStep
<1>7. ASSUME NEW b \in Buffer, SubmitFails(b)
      PROVE  IInv'
  BY <1>7, SubmitFailsStep
<1>8. ASSUME NEW b \in Buffer, NEW q \in Pool, SubmitSucceeds(b, q)
      PROVE  IInv'
  BY <1>8, SubmitSucceedsStep
<1>9. ASSUME NEW q \in Pool, GpuExecutes(q)
      PROVE  IInv'
  BY <1>9, GpuStep
<1>10. CASE UNCHANGED vars
  <2> USE <1>10 DEF vars, poolVars, bufferVars, hostVars, sequencerVars,
                    historyVars
  <2>1. TypeOK' /\ NumberInv'
    BY DEF IInv, TypeOK, NumberInv
  <2>2. PlaceInv' /\ FlagInv' /\ RetiringInv'
    BY DEF IInv, PlaceInv, FlagInv, RetiringInv, Oldest
  <2> QED BY <2>1, <2>2 DEF IInv
<1> QED BY <1>1, <1>2, <1>3, <1>4, <1>5, <1>6, <1>7, <1>8, <1>9, <1>10
        DEF Next, CleanupStep, Submit

LEMMA Invariant == Spec => []IInv
<1> QED BY InitIInv, Inductive, PTL DEF Spec

(* Type correctness. *)
THEOREM TypeCorrect == Spec => []TypeOK
<1>1. IInv => TypeOK
  BY DEF IInv
<1> QED BY <1>1, Invariant, PTL

(* A number that the sequencer has announced belongs to no buffer that is  *)
(* recorded into, submitted or executed (command_buffer_sequencer.h:30).   *)
THEOREM NoneAnnouncedEarly == Spec => []AnnouncedIsDone
<1>1. IInv => AnnouncedIsDone
  <2> SUFFICES ASSUME IInv, NEW b \in Buffer, b \in is_active \/ In(queue, b)
               PROVE  sequence_number[b] > announced
    BY DEF AnnouncedIsDone, OnGpu
  <2>1. b \in is_active
    BY DEF IInv, FlagInv
  <2>2. sequence_number[b] # 0 /\ sequence_number[b] \notin finished
    BY <2>1 DEF IInv, PlaceInv
  <2>3. 1..announced \subseteq finished
    BY DEF IInv, NumberInv
  <2>4. sequence_number[b] \in Nat /\ announced \in Nat
    BY DEF IInv, TypeOK
  <2> QED BY <2>2, <2>3, <2>4
<1> QED BY <1>1, Invariant, PTL

(* The GPU executes only the current use of a buffer, and a signalled      *)
(* fence belongs to it (command_buffer.cc:33 and 325).                     *)
THEOREM OneUseAtATime == Spec => []OnlyOwnUseOnGpu
<1>1. IInv => OnlyOwnUseOnGpu
  BY DEF IInv, FlagInv, OnlyOwnUseOnGpu, OnGpu
<1> QED BY <1>1, Invariant, PTL
------------------------------------------------------------------------------
(* The refinement: what the pools' state says about the numbers.           *)
Recording == {sequence_number[b] : b \in is_active \ is_submitted}
Executing == {sequence_number[b] : b \in {c \in Buffer : In(queue, c)}}

(* A buffer in use is the only one with its number. *)
LEMMA UsedNumbers ==
  ASSUME IInv, NEW b \in Buffer, b \in is_active
  PROVE  /\ sequence_number[b] \in 1..issued
         /\ \A c \in Buffer : sequence_number[c] = sequence_number[b] => c = b
<1>1. sequence_number[b] # 0
  BY DEF IInv, PlaceInv
<1>2. sequence_number[b] \in Nat /\ issued \in Nat
  BY DEF IInv, TypeOK
<1> QED BY <1>1, <1>2 DEF IInv, NumberInv

LEMMA ReportRefines ==
  ASSUME IInv, ReportFinished
  PROVE  \E n \in 1..issued : Numbers!FinishNumber(n)
<1> DEFINE b == Oldest(cleaning)
           n == sequence_number[b]
<1>1. /\ retiring /\ Sequencer!Finish(n)
      /\ UNCHANGED <<is_active, is_submitted, sequence_number, queue>>
  BY DEF ReportFinished, bufferVars
<1>2. b \in Buffer /\ b \notin is_active
  <2>1. pending_buffers[cleaning] # <<>> /\ b \notin is_active
    BY <1>1 DEF IInv, RetiringInv
  <2> QED BY <2>1, PopProperties DEF Oldest, IInv, TypeOK
<1>3. n \in 1..issued
  BY <1>1 DEF Sequencer!Finish
<1> HIDE DEF b
<1>4. n \notin Recording \cup Executing
  <2>1. \A c \in Buffer : sequence_number[c] = n => c = b
    BY <1>2, <1>3 DEF IInv, NumberInv
  <2>2. \A c \in Buffer : In(queue, c) => c \in is_active
    BY DEF IInv, FlagInv
  <2>3. is_active \subseteq Buffer
    BY DEF IInv, TypeOK
  <2> QED BY <1>2, <2>1, <2>2, <2>3 DEF Recording, Executing
<1>5. UNCHANGED <<Recording, Executing>>
  BY <1>1 DEF Recording, Executing
<1>6. Numbers!FinishNumber(n)
  BY <1>1, <1>4, <1>5 DEF Numbers!FinishNumber, Recording, Executing, OnGpu,
     Sequencer!Finish, Sequencer!AllDoneUpTo,
     Numbers!Sequencer!Finish, Numbers!Sequencer!AllDoneUpTo
<1> QED BY <1>3, <1>6

LEMMA ObtainRefines ==
  ASSUME IInv, NEW b \in Buffer, ObtainAndBegin(b)
  PROVE  Numbers!HandOut
<1>1. /\ Sequencer!Issue
      /\ sequence_number' = [sequence_number EXCEPT ![b] = issued']
      /\ is_active' = is_active \cup {b}
      /\ UNCHANGED <<is_submitted, queue>>
  BY DEF ObtainAndBegin
<1>2. b \notin is_active
  <2>1. ~In(pending_buffers, b)
    <3>1. CASE free_buffers[cleaning] = <<>>
      BY <3>1 DEF ObtainAndBegin, Unallocated, IInv, PlaceInv
    <3>2. CASE free_buffers[cleaning] # <<>>
      <4>1. b = Head(free_buffers[cleaning])
        BY <3>2 DEF ObtainAndBegin
      <4>2. In(free_buffers, b)
        BY <3>2, <4>1, PopProperties DEF IInv, TypeOK
      <4> QED BY <4>2 DEF IInv, PlaceInv
    <3> QED BY <3>1, <3>2
  <2> QED BY <2>1 DEF IInv, PlaceInv
<1>3. b \notin is_submitted /\ ~In(queue, b)
  BY <1>2 DEF IInv, FlagInv
<1>4. /\ is_active \subseteq Buffer
      /\ sequence_number'[b] = issued'
      /\ \A c \in Buffer \ {b} : sequence_number'[c] = sequence_number[c]
  BY <1>1 DEF IInv, TypeOK
<1>5. Recording' = Recording \cup {issued'}
  <2>1. is_active' \ is_submitted' = (is_active \ is_submitted) \cup {b}
    BY <1>1, <1>3
  <2> QED BY <1>2, <1>4, <2>1 DEF Recording
<1>6. Executing' = Executing
  BY <1>1, <1>3, <1>4 DEF Executing
<1> QED BY <1>1, <1>5, <1>6 DEF Numbers!HandOut, Recording, Executing, OnGpu,
        Sequencer!Issue, Numbers!Sequencer!Issue

LEMMA SubmitRefines ==
  ASSUME IInv, NEW b \in Buffer, Submit(b)
  PROVE  \E n \in 1..issued : Numbers!SubmitNumber(n)
<1>1. /\ b \in is_active /\ b \notin is_submitted
      /\ is_active' \ is_submitted' = (is_active \ is_submitted) \ {b}
      /\ UNCHANGED <<sequence_number, issued, finished, announced>>
  BY DEF Submit, SubmitFails, SubmitSucceeds, CanSubmit, sequencerVars
<1>2. is_active \subseteq Buffer
  BY DEF IInv, TypeOK
<1>3. PICK n \in 1..issued :
        \A c \in Buffer : sequence_number[c] = n <=> c = b
  BY <1>1, UsedNumbers
<1>4. n \in Recording /\ Recording' = Recording \ {n}
  BY <1>1, <1>2, <1>3 DEF Recording
<1>5. Executing' \in {Executing, Executing \cup {n}}
  <2>1. CASE SubmitFails(b)
    BY <2>1 DEF SubmitFails, Executing
  <2>2. ASSUME NEW q \in Pool, SubmitSucceeds(b, q)
        PROVE  Executing' = Executing \cup {n}
    <3>1. queue' = Pushed(queue, q, b) /\ queue \in [Pool -> Seq(Buffer)]
      BY <2>2 DEF SubmitSucceeds, Pushed, IInv, TypeOK
    <3>2. \A c \in Buffer : In(queue', c) <=> In(queue, c) \/ c = b
      BY <3>1, PushProperties
    <3> QED BY <1>1, <1>2, <1>3, <3>2 DEF Executing
  <2> QED BY <2>1, <2>2 DEF Submit
<1>6. Numbers!SubmitNumber(n)
  BY <1>1, <1>4, <1>5 DEF Numbers!SubmitNumber, Recording, Executing, OnGpu
<1> QED BY <1>6

LEMMA GpuRefines ==
  ASSUME IInv, NEW q \in Pool, GpuExecutes(q)
  PROVE  \E n \in 1..issued : Numbers!Execute(n)
<1> DEFINE b == Head(queue[q])
<1>1. /\ queue[q] # <<>> /\ queue' = Popped(queue, q)
      /\ UNCHANGED <<is_active, is_submitted, sequence_number, issued,
                     finished, announced>>
  BY DEF GpuExecutes, Popped, sequencerVars
<1>2. /\ b \in Buffer /\ In(queue, b) /\ ~In(queue', b)
      /\ \A c \in Buffer : In(queue', c) => In(queue, c)
      /\ \A c \in Buffer \ {b} : In(queue, c) => In(queue', c)
  <2>1. queue \in [Pool -> Seq(Buffer)] /\ Distinct(queue)
    BY DEF IInv, TypeOK, PlaceInv
  <2> QED BY <1>1, <2>1, PopProperties
<1> HIDE DEF b
<1>3. b \in is_active
  BY <1>2 DEF IInv, FlagInv
<1>4. PICK n \in 1..issued :
        \A c \in Buffer : sequence_number[c] = n <=> c = b
  BY <1>2, <1>3, UsedNumbers
<1>5. n \in Executing /\ Executing' = Executing \ {n}
  BY <1>1, <1>2, <1>4 DEF Executing
<1>6. Recording' = Recording
  BY <1>1 DEF Recording
<1>7. Numbers!Execute(n)
  BY <1>1, <1>5, <1>6 DEF Numbers!Execute, Recording, Executing, OnGpu
<1> QED BY <1>7

(* Retire() clears the flags of a buffer that is not being recorded.       *)
LEMMA RetireStutters ==
  ASSUME IInv, Retire
  PROVE  UNCHANGED Numbers!commandVars
<1> DEFINE b == Oldest(cleaning)
<1>1. /\ Retirable(b)
      /\ is_active' = is_active \ {b}
      /\ is_submitted' = is_submitted \ {b}
      /\ UNCHANGED <<sequence_number, queue, issued, finished, announced>>
  BY DEF Retire, sequencerVars
<1>2. is_active' \ is_submitted' = is_active \ is_submitted
  BY <1>1 DEF Retirable
<1> QED BY <1>1, <1>2 DEF Numbers!commandVars, OnGpu, In

(* The pools implement what the resource managers rely on: a buffer's      *)
(* number is reported once, when nothing of it is recorded or executed.    *)
THEOREM Implementation == Spec => ImplementsCommandBuffers
<1>1. Init => Numbers!Init
  <2> SUFFICES ASSUME Init
               PROVE  Numbers!Init
    OBVIOUS
  <2>1. \A p \in Pool : Len(queue[p]) = 0
    BY EmptySeq DEF Init
  <2>2. \A b : ~In(queue, b)
    BY <2>1 DEF In
  <2> QED BY <2>2 DEF Init, Numbers!Init, OnGpu, Sequencer!Init,
          Numbers!Sequencer!Init
<1>2. IInv /\ [Next]_vars => [Numbers!Next]_(Numbers!commandVars)
  <2> SUFFICES ASSUME IInv, [Next]_vars
               PROVE  [Numbers!Next]_(Numbers!commandVars)
    OBVIOUS
  <2>1. ASSUME NEW p \in Pool, GetCommandBuffer(p)
        PROVE  UNCHANGED Numbers!commandVars
    BY <2>1 DEF GetCommandBuffer, EnterCleanup, Numbers!commandVars, OnGpu, In,
       bufferVars, sequencerVars
  <2>2. CASE EscherCleanup
    BY <2>2 DEF EscherCleanup, EnterCleanup, Numbers!commandVars, OnGpu, In,
       bufferVars, sequencerVars
  <2>3. CASE Retire
    BY <2>3, RetireStutters
  <2>4. CASE ReportFinished
    BY <2>4, ReportRefines DEF Numbers!Next
  <2>5. CASE EscherCleanupNext
    BY <2>5 DEF EscherCleanupNext, Numbers!commandVars, OnGpu, In, bufferVars,
       sequencerVars
  <2>6. ASSUME NEW b \in Buffer, ObtainAndBegin(b)
        PROVE  Numbers!HandOut
    BY <2>6, ObtainRefines
  <2>7. ASSUME NEW b \in Buffer, Submit(b)
        PROVE  \E n \in 1..issued : Numbers!SubmitNumber(n)
    BY <2>7, SubmitRefines
  <2>8. ASSUME NEW q \in Pool, GpuExecutes(q)
        PROVE  \E n \in 1..issued : Numbers!Execute(n)
    BY <2>8, GpuRefines
  <2>9. CASE UNCHANGED vars
    BY <2>9 DEF vars, bufferVars, sequencerVars, Numbers!commandVars, OnGpu, In
  <2> QED BY <2>1, <2>2, <2>3, <2>4, <2>5, <2>6, <2>7, <2>8, <2>9
          DEF Next, CleanupStep, Numbers!Next
<1> QED BY <1>1, <1>2, Invariant, PTL DEF Spec, ImplementsCommandBuffers,
        Numbers!Spec
------------------------------------------------------------------------------
(* Every use ends once.  A number that is not reported is carried by a     *)
(* pending buffer, which is unique by NumberInv; ...                       *)
CarriedInv ==
  /\ issued <= MaxSequence
  /\ \A n \in 1..issued :
       n \in finished \/ \E b \in Buffer : In(pending_buffers, b) /\ sequence_number[b] = n

(* ... a callback that is set has not been invoked for the present use,    *)
(* and will be only after the fence or after an error, ...                 *)
CallbackInv ==
  /\ \A b \in callback :
       /\ In(pending_buffers, b) /\ called[sequence_number[b]] = 0
       /\ b \in is_active \/ sequence_number[b] \in failed
  /\ \A b \in is_active : called[sequence_number[b]] = 0
  /\ \A n \in 1..MaxSequence :
       /\ called[n] <= 1
       /\ called[n] = 1 => n \in executed \cup failed
       /\ called[n] # 0 => n <= issued
  /\ retiring => Oldest(cleaning) \notin callback

(* ... and a callback that Submit() was given is set until it is invoked.  *)
AskedInv ==
  \A n \in 1..MaxSequence :
    n \in asked <=> called[n] = 1 \/ \E b \in callback : sequence_number[b] = n

EInv == IInv /\ CarriedInv /\ CallbackInv /\ AskedInv

LEMMA NumberOfPending ==
  ASSUME EInv, NEW b \in Buffer, In(pending_buffers, b)
  PROVE  sequence_number[b] \in 1..issued /\ sequence_number[b] \in 1..MaxSequence
BY MaxSequenceAssumption DEF EInv, IInv, TypeOK, NumberInv, PlaceInv, CarriedInv

(* Steps that neither begin, retire nor report a use. *)
LEMMA SameUses ==
  ASSUME EInv, UNCHANGED <<pending_buffers, sequence_number, issued, finished, called>>,
         executed \subseteq executed', failed \subseteq failed',
         is_active' \subseteq is_active,
         \A b \in callback' : \/ b \in callback
                              \/ b \in is_active,
         \A b \in is_active \ is_active' : sequence_number[b] \in failed',
         retiring' => retiring /\ cleaning' = cleaning /\ callback' = callback,
         \/ UNCHANGED <<callback, asked>>
         \/ \E b \in Buffer : /\ callback' = callback \cup {b}
                             /\ asked' = asked \cup {sequence_number[b]}
  PROVE  CarriedInv' /\ CallbackInv' /\ AskedInv'
<1>1. CarriedInv'
  BY DEF EInv, CarriedInv
<1>2. \A b \in callback' :
        /\ In(pending_buffers, b) /\ called[sequence_number[b]] = 0
        /\ b \in is_active' \/ sequence_number[b] \in failed'
  BY DEF EInv, CallbackInv, IInv, PlaceInv, TypeOK
<1>3. CallbackInv'
  BY <1>2 DEF EInv, CallbackInv, Oldest
<1>4. AskedInv'
  <2>1. CASE UNCHANGED <<callback, asked>>
    BY <2>1 DEF EInv, AskedInv
  <2>2. CASE \E b \in Buffer : /\ callback' = callback \cup {b}
                              /\ asked' = asked \cup {sequence_number[b]}
    <3>1. PICK b \in Buffer : /\ callback' = callback \cup {b}
                             /\ asked' = asked \cup {sequence_number[b]}
      BY <2>2
    <3>2. \A n : (\E c \in callback' : sequence_number[c] = n) <=>
                   (\E c \in callback : sequence_number[c] = n) \/ sequence_number[b] = n
      BY <3>1
    <3>3. \A n \in 1..MaxSequence :
            n \in asked <=> called[n] = 1 \/ \E c \in callback : sequence_number[c] = n
      BY DEF EInv, AskedInv
    <3> QED BY <3>1, <3>2, <3>3 DEF AskedInv
  <2> QED BY <2>1, <2>2
<1> QED BY <1>1, <1>3, <1>4

LEMMA RetireEnds ==
  ASSUME EInv, Retire
  PROVE  CarriedInv' /\ CallbackInv' /\ AskedInv'
<1> DEFINE b == Oldest(cleaning)
           n == sequence_number[b]
<1>1. /\ pending_buffers[cleaning] # <<>> /\ Retirable(b)
      /\ is_active' = is_active \ {b}
      /\ callback' = callback \ {b}
      /\ called' = [called EXCEPT ![n] = IF b \in callback THEN @ + 1 ELSE @]
      /\ UNCHANGED <<pending_buffers, sequence_number, cleaning, issued, finished,
                     executed, failed, asked>>
  BY DEF Retire, poolVars, sequencerVars
<1>2. b \in Buffer /\ In(pending_buffers, b)
  BY <1>1, PopProperties DEF Oldest, EInv, IInv, TypeOK
<1>3. CarriedInv'
  BY <1>1 DEF EInv, CarriedInv
<1>4. n \in 1..MaxSequence /\ n \in 1..issued
  BY <1>2, NumberOfPending
<1>5. called \in [1..MaxSequence -> Nat]
  BY DEF EInv, IInv, TypeOK
<1>6. /\ \A k \in 1..MaxSequence : k # n => called'[k] = called[k]
      /\ called'[n] = IF b \in callback THEN called[n] + 1 ELSE called[n]
  BY <1>1, <1>4, <1>5
<1>7. \A c \in Buffer : c # b => sequence_number[c] # n
  BY <1>2, <1>4 DEF EInv, IInv, NumberInv
<1>8. b \in callback => n \in executed \cup failed /\ called[n] = 0
  BY <1>1, <1>2 DEF EInv, CallbackInv, Retirable, IInv, FlagInv
<1> HIDE DEF b, n
<1>9. ASSUME NEW c \in callback'
      PROVE  /\ In(pending_buffers, c) /\ called'[sequence_number[c]] = 0
             /\ c \in is_active' \/ sequence_number[c] \in failed
  <2>1. c \in callback /\ c # b /\ c \in Buffer /\ In(pending_buffers, c)
    BY <1>1 DEF EInv, CallbackInv, IInv, TypeOK
  <2>2. sequence_number[c] \in 1..MaxSequence /\ sequence_number[c] # n
    BY <1>7, <2>1, NumberOfPending
  <2> QED BY <1>1, <1>6, <2>1, <2>2 DEF EInv, CallbackInv
<1>10. ASSUME NEW c \in is_active'
       PROVE  called'[sequence_number[c]] = 0
  <2>1. c \in is_active /\ c # b /\ c \in Buffer /\ In(pending_buffers, c)
    BY <1>1 DEF EInv, IInv, TypeOK, PlaceInv
  <2>2. sequence_number[c] \in 1..MaxSequence /\ sequence_number[c] # n
    BY <1>7, <2>1, NumberOfPending
  <2> QED BY <1>6, <2>1, <2>2 DEF EInv, CallbackInv
<1>11. \A k \in 1..MaxSequence :
         /\ called'[k] <= 1
         /\ called'[k] = 1 => k \in executed \cup failed
         /\ called'[k] # 0 => k <= issued
  BY <1>4, <1>5, <1>6, <1>8 DEF EInv, CallbackInv
<1>12. Oldest(cleaning)' \notin callback'
  BY <1>1 DEF Oldest, b
<1>13. AskedInv'
  <2> SUFFICES ASSUME NEW k \in 1..MaxSequence
               PROVE  k \in asked <=> \/ called'[k] = 1
                                     \/ \E c \in callback' : sequence_number[c] = k
    BY <1>1 DEF AskedInv
  <2>1. k \in asked <=> called[k] = 1 \/ \E c \in callback : sequence_number[c] = k
    BY DEF EInv, AskedInv
  <2>2. CASE k = n /\ b \in callback
    <3>1. called'[k] = 1 /\ k \in asked
      BY <1>6, <1>8, <2>1, <2>2 DEF n
    <3> QED BY <3>1
  <2>3. CASE ~(k = n /\ b \in callback)
    <3>1. called'[k] = called[k]
      BY <1>6, <2>3
    <3>2. (\E c \in callback' : sequence_number[c] = k)
            <=> \E c \in callback : sequence_number[c] = k
      BY <1>1, <2>3 DEF n
    <3> QED BY <2>1, <3>1, <3>2
  <2> QED BY <2>2, <2>3
<1> QED BY <1>1, <1>3, <1>9, <1>10, <1>11, <1>12, <1>13 DEF CallbackInv, In

LEMMA ReportFinishedEnds ==
  ASSUME EInv, ReportFinished
  PROVE  CarriedInv' /\ CallbackInv' /\ AskedInv'
<1> DEFINE b == Oldest(cleaning)
           n == sequence_number[b]
<1>1. /\ retiring /\ pending_buffers[cleaning] # <<>>
      /\ pending_buffers' = Popped(pending_buffers, cleaning)
      /\ finished' = finished \cup {n}
      /\ retiring' = FALSE
      /\ UNCHANGED <<is_active, sequence_number, callback, issued, executed, failed, asked, called>>
  BY DEF ReportFinished, EInv, IInv, RetiringInv, Popped, Sequencer!Finish,
         bufferVars, historyVars
<1>2. pending_buffers \in [Pool -> Seq(Buffer)] /\ cleaning \in Pool
  BY DEF EInv, IInv, TypeOK
<1>3. b = Head(pending_buffers[cleaning]) /\ b \notin callback
  BY <1>1 DEF Oldest, EInv, CallbackInv
<1> HIDE DEF b
<1>4. \A c \in Buffer \ {b} : In(pending_buffers, c) => In(pending_buffers', c)
  BY <1>1, <1>2, <1>3, PopProperties
<1>5. callback \subseteq Buffer
  BY DEF EInv, IInv, TypeOK
<1>6. CarriedInv'
  <2> SUFFICES ASSUME NEW k \in 1..issued, k \notin finished'
               PROVE  \E c \in Buffer : In(pending_buffers', c) /\ sequence_number[c] = k
    BY <1>1 DEF EInv, CarriedInv, In
  <2>1. PICK c \in Buffer : In(pending_buffers, c) /\ sequence_number[c] = k
    BY <1>1 DEF EInv, CarriedInv
  <2>2. c # b
    BY <1>1, <2>1
  <2> QED BY <1>4, <2>1, <2>2
<1>7. CallbackInv'
  <2>1. \A c \in callback : In(pending_buffers', c)
    BY <1>3, <1>4, <1>5 DEF EInv, CallbackInv
  <2> QED BY <1>1, <2>1 DEF EInv, CallbackInv, In
<1>8. AskedInv'
  BY <1>1 DEF EInv, AskedInv
<1> QED BY <1>6, <1>7, <1>8

LEMMA ObtainEnds ==
  ASSUME EInv, NEW b \in Buffer, ObtainAndBegin(b)
  PROVE  CarriedInv' /\ CallbackInv' /\ AskedInv'
<1>1. /\ retiring = FALSE
      /\ issued < MaxSequence /\ issued' = issued + 1
      /\ sequence_number' = [sequence_number EXCEPT ![b] = issued + 1]
      /\ is_active' = is_active \cup {b}
      /\ pending_buffers' = Pushed(pending_buffers, cleaning, b)
      /\ UNCHANGED <<callback, retiring, finished, executed, failed, asked, called>>
  <2>1. retiring \in BOOLEAN
    BY DEF EInv, IInv, TypeOK
  <2> QED BY <2>1 DEF ObtainAndBegin, CleanupDone, Pushed, Sequencer!Issue,
                      historyVars
<1>2. /\ pending_buffers \in [Pool -> Seq(Buffer)] /\ cleaning \in Pool
      /\ sequence_number \in [Buffer -> Nat] /\ issued \in Nat
      /\ called \in [1..MaxSequence -> Nat]
      /\ callback \subseteq Buffer /\ is_active \subseteq Buffer
  BY DEF EInv, IInv, TypeOK
<1>3. \A c \in Buffer : In(pending_buffers', c) <=> In(pending_buffers, c) \/ c = b
  BY <1>1, <1>2, PushProperties
<1>4. ~In(pending_buffers, b)
  <2>1. CASE free_buffers[cleaning] = <<>>
    BY <2>1 DEF ObtainAndBegin, Unallocated, EInv, IInv, PlaceInv
  <2>2. CASE free_buffers[cleaning] # <<>>
    <3>1. b = Head(free_buffers[cleaning])
      BY <2>2 DEF ObtainAndBegin
    <3>2. In(free_buffers, b)
      BY <2>2, <3>1, PopProperties DEF EInv, IInv, TypeOK
    <3> QED BY <3>2 DEF EInv, IInv, PlaceInv
  <2> QED BY <2>1, <2>2
<1>5. /\ sequence_number'[b] = issued + 1
      /\ \A c \in Buffer \ {b} : sequence_number'[c] = sequence_number[c]
  BY <1>1, <1>2
<1>6. issued + 1 \in 1..MaxSequence /\ called[issued + 1] = 0
  BY <1>1, <1>2, MaxSequenceAssumption DEF EInv, CallbackInv
<1>7. CarriedInv'
  <2>1. ASSUME NEW k \in 1..issued', k \notin finished
        PROVE  \E c \in Buffer : In(pending_buffers', c) /\ sequence_number'[c] = k
    <3>1. CASE k = issued + 1
      BY <1>3, <1>5, <3>1
    <3>2. CASE k # issued + 1
      <4>1. PICK c \in Buffer : In(pending_buffers, c) /\ sequence_number[c] = k
        BY <1>1, <1>2, <2>1, <3>2 DEF EInv, CarriedInv
      <4> QED BY <1>3, <1>4, <1>5, <4>1
    <3> QED BY <3>1, <3>2
  <2>2. issued' <= MaxSequence
    BY <1>1, <1>2, MaxSequenceAssumption
  <2>3. finished' = finished
    BY <1>1
  <2> QED BY <2>1, <2>2, <2>3 DEF CarriedInv
<1>8. ASSUME NEW c \in callback
      PROVE  /\ In(pending_buffers', c) /\ called[sequence_number'[c]] = 0
             /\ c \in is_active' \/ sequence_number'[c] \in failed
  <2>1. c # b /\ c \in Buffer
    BY <1>2, <1>4 DEF EInv, CallbackInv
  <2> QED BY <1>1, <1>3, <1>5, <2>1 DEF EInv, CallbackInv
<1>9. \A c \in is_active' : called[sequence_number'[c]] = 0
  BY <1>1, <1>2, <1>5, <1>6 DEF EInv, CallbackInv
<1>10. \A n \in 1..MaxSequence : called[n] # 0 => n <= issued'
  BY <1>1, <1>2 DEF EInv, CallbackInv
<1>11. CallbackInv'
  BY <1>1, <1>8, <1>9, <1>10 DEF EInv, CallbackInv, In
<1>12. AskedInv'
  <2>1. \A c \in callback : sequence_number'[c] = sequence_number[c]
    BY <1>2, <1>4, <1>5 DEF EInv, CallbackInv
  <2> QED BY <1>1, <2>1 DEF EInv, AskedInv
<1> QED BY <1>7, <1>11, <1>12

LEMMA InductiveE == EInv /\ [Next]_vars => EInv'
<1> SUFFICES ASSUME EInv, [Next]_vars
             PROVE  CarriedInv' /\ CallbackInv' /\ AskedInv'
  BY Inductive DEF EInv
<1> USE DEF poolVars, bufferVars, hostVars, sequencerVars, historyVars
<1>1. ASSUME \/ \E p \in Pool : GetCommandBuffer(p)
             \/ EscherCleanup
      PROVE  CarriedInv' /\ CallbackInv' /\ AskedInv'
  <2>1. ~retiring
    BY <1>1 DEF GetCommandBuffer, EscherCleanup, EnterCleanup, HostIdle, EInv, IInv,
       RetiringInv
  <2> QED BY <1>1, <2>1, SameUses DEF GetCommandBuffer, EscherCleanup, EnterCleanup
<1>2. CASE EscherCleanupNext
  BY <1>2, SameUses DEF EscherCleanupNext, CleanupDone
<1>3. ASSUME NEW b \in Buffer, SubmitFails(b)
      PROVE  CarriedInv' /\ CallbackInv' /\ AskedInv'
  <2>1. ~retiring
    BY <1>3 DEF SubmitFails, CanSubmit, HostIdle, EInv, IInv, RetiringInv
  <2> QED BY <1>3, <2>1, SameUses DEF SubmitFails, CanSubmit, SetCallback
<1>4. ASSUME NEW b \in Buffer, NEW q \in Pool, SubmitSucceeds(b, q)
      PROVE  CarriedInv' /\ CallbackInv' /\ AskedInv'
  <2>1. ~retiring
    BY <1>4 DEF SubmitSucceeds, CanSubmit, HostIdle, EInv, IInv, RetiringInv
  <2> QED BY <1>4, <2>1, SameUses DEF SubmitSucceeds, CanSubmit, SetCallback
<1>5. ASSUME NEW q \in Pool, GpuExecutes(q)
      PROVE  CarriedInv' /\ CallbackInv' /\ AskedInv'
  BY <1>5, SameUses DEF GpuExecutes
<1>6. CASE UNCHANGED vars
  BY <1>6, SameUses DEF vars
<1> QED BY <1>1, <1>2, <1>3, <1>4, <1>5, <1>6, RetireEnds, ReportFinishedEnds, ObtainEnds
        DEF Next, CleanupStep, Submit

LEMMA InitEInv == Init => EInv
<1> SUFFICES ASSUME Init PROVE CarriedInv /\ CallbackInv /\ AskedInv
  BY InitIInv DEF EInv
<1> QED BY MaxSequenceAssumption DEF Init, Sequencer!Init, CarriedInv, CallbackInv, AskedInv

LEMMA InvariantE == Spec => []EInv
BY InitEInv, InductiveE, PTL DEF Spec

(* A pool has no more pending buffers than there are numbers. *)
LEMMA FewPending ==
  ASSUME EInv, NEW p \in Pool
  PROVE  Len(pending_buffers[p]) \in 0..MaxSequence
<1> DEFINE m == Len(pending_buffers[p])
           number == [i \in 1..m |-> sequence_number[pending_buffers[p][i]]]
<1>1. pending_buffers[p] \in Seq(Buffer) /\ m \in Nat
  BY LenProperties DEF EInv, IInv, TypeOK
<1>2. \A i \in 1..m : pending_buffers[p][i] \in Buffer /\ In(pending_buffers, pending_buffers[p][i])
  BY <1>1, ElementOfSeq DEF In
<1>3. \A i \in 1..m : sequence_number[pending_buffers[p][i]] \in 1..MaxSequence
  BY <1>2, NumberOfPending
<1>4. \A i, j \in 1..m : number[i] = number[j] => i = j
  <2> SUFFICES ASSUME NEW i \in 1..m, NEW j \in 1..m, number[i] = number[j]
               PROVE  i = j
    OBVIOUS
  <2>1. sequence_number[pending_buffers[p][i]] = sequence_number[pending_buffers[p][j]]
    OBVIOUS
  <2>2. pending_buffers[p][i] = pending_buffers[p][j]
    BY <1>2, <1>3, <2>1 DEF EInv, IInv, NumberInv
  <2>3. Distinct(pending_buffers)
    BY DEF EInv, IInv, PlaceInv
  <2> QED BY <2>2, <2>3 DEF Distinct
<1> SUFFICES ASSUME m > MaxSequence PROVE FALSE
  BY <1>1, MaxSequenceAssumption
<1>5. number \in [1..m -> 1..MaxSequence]
  BY <1>3
<1> HIDE DEF number
<1> HIDE DEF m
<1>6. \A k \in Nat : IsFiniteSet(1..k) /\ Cardinality(1..k) = k
  BY FS_Interval
<1>7. \E i, j \in 1..m : i # j /\ number[i] = number[j]
  <2>1. /\ IsFiniteSet(1..m) /\ IsFiniteSet(1..MaxSequence)
        /\ Cardinality(1..MaxSequence) < Cardinality(1..m)
    BY <1>1, <1>6, MaxSequenceAssumption
  <2> QED BY <1>5, <2>1, FS_PigeonHole
<1> QED BY <1>4, <1>7

LEMMA OnePlace == EInv => EachNumberInOnePlace
<1> SUFFICES ASSUME EInv, NEW n \in 1..issued
             PROVE  LET carriers == {c \in Pool \X (1..MaxSequence) :
                                       /\ c[2] <= Len(pending_buffers[c[1]])
                                       /\ sequence_number[pending_buffers[c[1]][c[2]]] = n}
                    IN  IF n \in finished THEN carriers = {}
                        ELSE \E c \in carriers : carriers = {c}
  BY DEF EachNumberInOnePlace
<1> DEFINE carriers == {c \in Pool \X (1..MaxSequence) :
                          /\ c[2] <= Len(pending_buffers[c[1]])
                          /\ sequence_number[pending_buffers[c[1]][c[2]]] = n}
<1>1. \A p \in Pool : pending_buffers[p] \in Seq(Buffer)
  BY DEF EInv, IInv, TypeOK
<1>2. \A p \in Pool : Len(pending_buffers[p]) \in 0..MaxSequence
  BY FewPending
<1>3. \A c : c \in carriers <=>
        \E p \in Pool : \E i \in 1..Len(pending_buffers[p]) :
          c = <<p, i>> /\ sequence_number[pending_buffers[p][i]] = n
  BY <1>2, MaxSequenceAssumption
<1>4. \A p \in Pool : \A i \in 1..Len(pending_buffers[p]) :
        pending_buffers[p][i] \in Buffer /\ In(pending_buffers, pending_buffers[p][i])
  BY <1>1, ElementOfSeq DEF In
<1> HIDE DEF carriers
<1>5. ASSUME n \in finished PROVE carriers = {}
  BY <1>3, <1>4, <1>5 DEF EInv, IInv, PlaceInv
<1>6. ASSUME n \notin finished PROVE \E c \in carriers : carriers = {c}
  <2>1. PICK b \in Buffer : In(pending_buffers, b) /\ sequence_number[b] = n
    BY <1>6 DEF EInv, CarriedInv
  <2>2. PICK p \in Pool : \E i \in 1..Len(pending_buffers[p]) : pending_buffers[p][i] = b
    BY <2>1 DEF In
  <2>3. PICK i \in 1..Len(pending_buffers[p]) : pending_buffers[p][i] = b
    BY <2>2
  <2>4. <<p, i>> \in carriers
    BY <1>3, <2>1, <2>3
  <2>5. ASSUME NEW q \in Pool, NEW j \in 1..Len(pending_buffers[q]),
               sequence_number[pending_buffers[q][j]] = n
        PROVE  q = p /\ j = i
    <3>1. pending_buffers[q][j] = b
      BY <1>4, <2>1, <2>5 DEF EInv, IInv, NumberInv
    <3> QED BY <2>3, <3>1 DEF EInv, IInv, PlaceInv, Distinct
  <2>6. \A c \in carriers : c = <<p, i>>
    BY <1>3, <2>5
  <2> QED BY <2>4, <2>6
<1> QED BY <1>5, <1>6 DEF carriers

(* Every number that Begin() took is reported, or carried by exactly one   *)
(* pending buffer, and when it is reported the callback it was submitted   *)
(* with, if any, has been invoked: once, after the fence or the error, and *)
(* for that use (command_buffer_pool.cc:119, command_buffer.h:36).         *)
THEOREM UsesEnd == Spec => []UsesEndOnce
<1>1. EInv => CallbackOnceWhenDone
  <2> SUFFICES ASSUME EInv, NEW n \in 1..MaxSequence
               PROVE  /\ called[n] <= 1
                      /\ called[n] = 1 => n \in asked /\ n \in executed \cup failed
                      /\ n \in finished /\ n \in asked => called[n] = 1
    BY DEF CallbackOnceWhenDone
  <2>1. n \in asked <=> called[n] = 1 \/ \E b \in callback : sequence_number[b] = n
    BY DEF EInv, AskedInv
  <2>2. \A b \in callback : b \in Buffer /\ sequence_number[b] \notin finished
    BY DEF EInv, CallbackInv, IInv, TypeOK, PlaceInv
  <2>3. called[n] <= 1 /\ (called[n] = 1 => n \in executed \cup failed)
    BY DEF EInv, CallbackInv
  <2> QED BY <2>1, <2>2, <2>3
<1>2. EInv => UsesEndOnce
  BY <1>1, OnePlace DEF UsesEndOnce
<1> QED BY <1>2, InvariantE, PTL

------------------------------------------------------------------------------
(* FramePasses: what DrawFrame() records.                                  *)
(*                                                                         *)
(* Recording commands one after another is a recursive function on the     *)
(* subsets of their positions.                                             *)
Folds(g, base, cs) ==
  g = [s \in SUBSET DOMAIN cs |->
         IF s = {} THEN base ELSE Apply(g[s \ {Max(s)}], cs[Max(s)])]

LEMMA FoldIsChosen ==
  ASSUME NEW base, NEW cs
  PROVE  FoldLeft(Apply, base, cs) = (CHOOSE g : Folds(g, base, cs))[DOMAIN cs]
  BY DEF FoldLeft, MapThenFoldSet, Folds

LEMMA FoldExists ==
  ASSUME NEW base, NEW cs, DOMAIN cs \subseteq 1..3
  PROVE  \E g : Folds(g, base, cs)
<1> DEFINE F1(s) == IF 1 \in s THEN Apply(base, cs[1]) ELSE base
           F2(s) == IF 2 \in s THEN Apply(F1(s), cs[2]) ELSE F1(s)
           F3(s) == IF 3 \in s THEN Apply(F2(s), cs[3]) ELSE F2(s)
           g == [s \in SUBSET DOMAIN cs |-> F3(s)]
<1>1. ASSUME NEW s \in SUBSET DOMAIN cs
      PROVE  g[s] = IF s = {} THEN base ELSE Apply(g[s \ {Max(s)}], cs[Max(s)])
  <2>1. \A x \in s : x = 1 \/ x = 2 \/ x = 3
    OBVIOUS
  <2>2. g[s] = F3(s) /\ \A x : g[s \ {x}] = F3(s \ {x})
    OBVIOUS
  <2> HIDE DEF g
  <2>3. CASE 3 \in s
    <3>1. Max(s) = 3
      BY <2>1, <2>3, GreatestIs
    <3>2. F3(s \ {3}) = F2(s)
      OBVIOUS
    <3> QED BY <2>2, <2>3, <3>1, <3>2
  <2>4. CASE 3 \notin s /\ 2 \in s
    <3>1. Max(s) = 2
      BY <2>1, <2>4, GreatestIs
    <3>2. F3(s \ {2}) = F1(s)
      BY <2>4
    <3> QED BY <2>2, <2>4, <3>1, <3>2
  <2>5. CASE 3 \notin s /\ 2 \notin s /\ 1 \in s
    <3>1. Max(s) = 1
      BY <2>1, <2>5, GreatestIs
    <3>2. F3(s \ {1}) = base
      BY <2>5
    <3> QED BY <2>2, <2>5, <3>1, <3>2
  <2>6. CASE s = {}
    BY <2>2, <2>6
  <2> QED BY <2>1, <2>3, <2>4, <2>5, <2>6
<1>2. g = [s \in SUBSET DOMAIN cs |-> g[s]]
  OBVIOUS
<1> HIDE DEF g
<1>3. Folds(g, base, cs)
  BY <1>1, <1>2 DEF Folds
<1> QED BY <1>3

LEMMA FoldOne ==
  ASSUME NEW base, NEW cs, DOMAIN cs = 1..1
  PROVE  FoldLeft(Apply, base, cs) = Apply(base, cs[1])
<1>1. DOMAIN cs = 1..1
  OBVIOUS
<1>2. PICK g : Folds(g, base, cs) /\ FoldLeft(Apply, base, cs) = g[DOMAIN cs]
  BY <1>1, FoldExists, FoldIsChosen
<1>3. g[{}] = base
  BY <1>2 DEF Folds
<1>4. g[1..1] = Apply(base, cs[1])
  <2>1. Max(1..1) = 1
    BY GreatestIs
  <2>2. (1..1) \ {1} = {} /\ 1..1 # {}
    OBVIOUS
  <2>3. g[1..1] = Apply(g[(1..1) \ {1}], cs[1])
    BY <1>1, <1>2, <2>1, <2>2 DEF Folds
  <2> QED BY <1>1, <1>3, <2>2, <2>3
<1> QED BY <1>1, <1>2, <1>4

LEMMA FoldTwo ==
  ASSUME NEW base, NEW cs, DOMAIN cs = 1..2
  PROVE  FoldLeft(Apply, base, cs) = Apply(Apply(base, cs[1]), cs[2])
<1>1. DOMAIN cs = 1..2
  OBVIOUS
<1>2. PICK g : Folds(g, base, cs) /\ FoldLeft(Apply, base, cs) = g[DOMAIN cs]
  BY <1>1, FoldExists, FoldIsChosen
<1>3. g[{}] = base
  BY <1>2 DEF Folds
<1>4. Max(1..1) = 1 /\ Max(1..2) = 2
  BY GreatestIs
<1>5. (1..1) \ {1} = {} /\ 1..1 # {} /\ (1..2) \ {2} = 1..1 /\ 1..2 # {}
  OBVIOUS
<1>6. g[1..1] = Apply(base, cs[1])
  <2>1. 1..1 \in SUBSET DOMAIN cs
    BY <1>1
  <2>2. g[1..1] = Apply(g[(1..1) \ {1}], cs[1])
    BY <1>2, <1>4, <1>5, <2>1 DEF Folds
  <2> QED BY <1>1, <1>3, <1>5, <2>2
<1>7. g[1..2] = Apply(g[1..1], cs[2])
  <2>1. 1..2 \in SUBSET DOMAIN cs
    BY <1>1
  <2>2. g[1..2] = Apply(g[(1..2) \ {2}], cs[2])
    BY <1>2, <1>4, <1>5, <2>1 DEF Folds
  <2> QED BY <1>1, <1>5, <2>2
<1> QED BY <1>1, <1>2, <1>6, <1>7

LEMMA FoldThree ==
  ASSUME NEW base, NEW cs, DOMAIN cs = 1..3
  PROVE  FoldLeft(Apply, base, cs) = Apply(Apply(Apply(base, cs[1]), cs[2]), cs[3])
<1>1. DOMAIN cs = 1..3
  OBVIOUS
<1>2. PICK g : Folds(g, base, cs) /\ FoldLeft(Apply, base, cs) = g[DOMAIN cs]
  BY <1>1, FoldExists, FoldIsChosen
<1>3. g[{}] = base
  BY <1>2 DEF Folds
<1>4. Max(1..1) = 1 /\ Max(1..2) = 2 /\ Max(1..3) = 3
  BY GreatestIs
<1>5. /\ (1..1) \ {1} = {} /\ 1..1 # {} /\ (1..2) \ {2} = 1..1 /\ 1..2 # {}
      /\ (1..3) \ {3} = 1..2 /\ 1..3 # {}
  OBVIOUS
<1>6. /\ 1..1 \in SUBSET DOMAIN cs /\ 1..2 \in SUBSET DOMAIN cs /\ 1..3 \in SUBSET DOMAIN cs
  BY <1>1
<1>7. g[1..1] = Apply(base, cs[1])
  <2>1. g[1..1] = Apply(g[(1..1) \ {1}], cs[1])
    BY <1>2, <1>4, <1>5, <1>6 DEF Folds
  <2> QED BY <1>1, <1>3, <1>5, <2>1
<1>8. g[1..2] = Apply(g[1..1], cs[2])
  <2>1. g[1..2] = Apply(g[(1..2) \ {2}], cs[2])
    BY <1>2, <1>4, <1>5, <1>6 DEF Folds
  <2> QED BY <1>1, <1>5, <2>1
<1>9. g[1..3] = Apply(g[1..2], cs[3])
  <2>1. g[1..3] = Apply(g[(1..3) \ {3}], cs[3])
    BY <1>2, <1>4, <1>5, <1>6 DEF Folds
  <2> QED BY <1>1, <1>5, <2>1
<1> QED BY <1>1, <1>2, <1>7, <1>8, <1>9

(* What a command does to an image, and what it uses.                      *)
Drawn(pass) == [pass |-> pass, frame |-> frame]

Use(gpu, accesses, a) ==
  [image |-> a.image, needs |-> a.needs, reads |-> a.reads, found |-> gpu.layout[a.image],
   data |-> gpu.data[a.image], by |-> {b.gives : b \in accesses} \ {Same}]

LEMMA ApplyUses ==
  ASSUME NEW gpu, NEW acc
  PROVE  Apply(gpu, acc).uses = gpu.uses \cup {Use(gpu, acc, a) : a \in acc}
  BY DEF Apply, Use

LEMMA ApplyLeaves ==
  ASSUME NEW gpu, NEW acc, NEW i \in Images, \A a \in acc : a.image # i
  PROVE  Apply(gpu, acc).layout[i] = gpu.layout[i] /\ Apply(gpu, acc).data[i] = gpu.data[i]
<1>1. i \notin {a.image : a \in acc}
  OBVIOUS
<1> QED BY <1>1 DEF Apply

LEMMA ApplyGives ==
  ASSUME NEW gpu, NEW acc, NEW a \in acc, a.image \in Images,
         \A b \in acc : b.image = a.image => b = a
  PROVE  /\ a.leaves # Same => Apply(gpu, acc).layout[a.image] = a.leaves
         /\ a.leaves = Same => Apply(gpu, acc).layout[a.image] = gpu.layout[a.image]
         /\ a.gives = Same => Apply(gpu, acc).data[a.image] = gpu.data[a.image]
         /\ a.gives = "nothing" => Apply(gpu, acc).data[a.image] = NoContents
         /\ a.gives \notin {Same, "nothing"} => Apply(gpu, acc).data[a.image] = Drawn(a.gives)
<1> PICK i : i = a.image
  OBVIOUS
<1>1. i \in {b.image : b \in acc} /\ i \in Images
  OBVIOUS
<1>2. Access(acc, i) = a
  BY DEF Access
<1>3. Apply(gpu, acc).layout[i] = IF a.leaves # Same THEN a.leaves ELSE gpu.layout[i]
  BY <1>1, <1>2 DEF Apply
<1>4. Apply(gpu, acc).data[i] =
        CASE i \notin {b.image : b \in acc} -> gpu.data[i]
          [] i \in {b.image : b \in acc} /\ a.gives = Same -> gpu.data[i]
          [] i \in {b.image : b \in acc} /\ a.gives = "nothing" -> NoContents
          [] OTHER -> Drawn(a.gives)
  BY <1>1, <1>2 DEF Apply, Drawn
<1>5. Same # "nothing"
  BY DEF Same
<1> QED BY <1>1, <1>3, <1>4, <1>5

LEMMA LayoutsAreNotSame ==
  Same \notin {DepthAttachment, ColorAttachment, ShaderReadOnly, General, PresentSrc}
  BY DEF Same, DepthAttachment, ColorAttachment, ShaderReadOnly, General, PresentSrc

(* What a use must be like.                                                *)
Sound(u) ==
  /\ AsDeclared(u.image, u.needs, u.found)
  /\ u.reads /\ u.image # "noise" => u.data.frame = frame /\ u.data.pass \in Producers(u)[u.image]

GoodUses(gpu, images) == \A u \in gpu.uses : Sound(u) /\ u.image \in images

LEMMA CommandIsGood ==
  ASSUME NEW gpu, NEW images, GoodUses(gpu, images),
         NEW acc, \A a \in acc : Sound(Use(gpu, acc, a)) /\ a.image \in images
  PROVE  GoodUses(Apply(gpu, acc), images)
<1>1. \A a \in acc : Use(gpu, acc, a).image = a.image
  BY DEF Use
<1> QED BY <1>1, ApplyUses DEF GoodUses

(* Of a use that does not read, that reads the noise, or that reads what   *)
(* only one pass produces.                                                 *)
LEMMA WriteIsSound ==
  ASSUME NEW gpu, NEW acc, NEW a \in acc, ~a.reads,
         AsDeclared(a.image, a.needs, gpu.layout[a.image])
  PROVE  Sound(Use(gpu, acc, a))
  BY DEF Sound, Use

LEMMA ReadIsSound ==
  ASSUME NEW gpu, NEW acc, NEW a \in acc,
         AsDeclared(a.image, a.needs, gpu.layout[a.image]),
         NEW p, gpu.data[a.image] = Drawn(p), p \in Producers(Use(gpu, acc, a))[a.image]
  PROVE  Sound(Use(gpu, acc, a))
  BY DEF Sound, Use, Drawn

LEMMA NoiseIsSound ==
  ASSUME NEW gpu, NEW acc, NEW a \in acc, a.image = "noise", a.needs = gpu.layout["noise"]
  PROVE  Sound(Use(gpu, acc, a))
  BY DEF Sound, Use, AsDeclared

LEMMA DeclaredIs ==
  /\ \A i, l : AsDeclared(i, l, l) /\ AsDeclared(i, Undefined, l)
  /\ AsDeclared("accel_depth", ShaderReadOnly, DepthAttachment)
  /\ AsDeclared("accel_table", ShaderReadOnly, General)
  /\ AsDeclared("depth_as_color", ShaderReadOnly, General)
  BY DEF AsDeclared, Misdeclared

LEMMA ProducersAre ==
  ASSUME NEW u
  PROVE  /\ Producers(u)["accel_depth"] = {"accel_prepass"}
         /\ Producers(u)["accel_table"] = {"table", "null_table"}
         /\ Producers(u)["depth"] = {"prepass"}
         /\ u.by = {"filter_1"} => Producers(u)["illum1"] = {"sample"}
         /\ u.by # {"filter_1"} => Producers(u)["illum1"] = {"filter_2"}
         /\ Producers(u)["illum2"] = {"filter_1"}
         /\ Producers(u)["output"] = {"lighting"}
         /\ Producers(u)["depth_as_color"] = {"convert"}
         /\ Producers(u)["unpacked"] = {"unpack"}
  BY DEF Producers

(* What the passes that are still to come need to find, and what the       *)
(* command buffer that is being recorded keeps.                            *)
Idle == {"idle", "accel_depth"}
Early == Idle \cup {"accel_table"}
Ssdo == {"sample", "filter_1", "filter_2"}
Shows == {"show_depth", "show_table", "show_illumination"}

PassTypes ==
  /\ pc \in Early \cup {"depth"} \cup Ssdo \cup {"lighting"} \cup Shows \cup {"finish"}
  /\ frame \in Nat /\ size \in Sizes
  /\ DOMAIN extent = {"table", "as_color", "unpacked"}

AccelInv ==
  /\ pc \notin Idle => data["accel_depth"] = Drawn("accel_prepass")
  /\ pc \notin Early => data["accel_table"] \in {Drawn("table"), Drawn("null_table")}

(* The images whose layout nothing changes once they are made.             *)
PlacesInv ==
  /\ layout["noise"] = ShaderReadOnly
  /\ pc \notin Idle => layout["accel_depth"] = DepthAttachment
  /\ pc \notin Early => layout["accel_table"] = General

SsdoInv ==
  /\ pc \in Ssdo \/ pc = "show_illumination" => flags.lighting
  /\ pc = "sample" => layout["depth"] = DepthAttachment /\ data["depth"] = Drawn("prepass")
  /\ pc = "filter_1" => layout["illum1"] = ShaderReadOnly /\ data["illum1"] = Drawn("sample")
  /\ pc = "filter_2" => layout["illum2"] = ShaderReadOnly /\ data["illum2"] = Drawn("filter_1")
  /\ pc \in Shows \cup {"lighting"} /\ flags.lighting =>
       layout["illum1"] = ShaderReadOnly /\ data["illum1"] = Drawn("filter_2")

OutputInv ==
  /\ pc \in Shows \cup {"finish"} =>
       layout["output"] = ColorAttachment /\ data["output"] = Drawn("lighting")
  /\ pc = "idle" /\ frame > 0 =>
       layout["output"] = PresentSrc /\ data["output"] = Drawn("lighting")

UsesInv ==
  /\ \A u \in uses : Sound(u) /\ (u.image = "output" => waited)
  /\ pc \notin Early \cup {"depth"} => waited

KeptInv ==
  /\ used \ {"noise"} \subseteq kept
  /\ submitted.used \ {"noise"} \subseteq submitted.kept
  /\ pc \in {"filter_1", "filter_2"} => {"depth", "illum1", "illum2", "accel_table"} \subseteq kept
  /\ pc \in Shows \cup {"finish"} => "output" \in kept
  /\ pc \in Shows /\ flags.lighting => "illum1" \in kept

TableInv ==
  pc \notin Early => extent.table = <<Packed(AccelWidth), Packed(AccelHeight)>>

PassInv ==
  PassTypes /\ AccelInv /\ PlacesInv /\ SsdoInv /\ OutputInv /\ UsesInv /\ KeptInv /\ TableInv

Now == [layout |-> layout, data |-> data, uses |-> {}]

LEMMA NowIsGood ==
  (\A images : GoodUses(Now, images)) /\ Now.layout = layout /\ Now.data = data
  BY DEF GoodUses, Now

LEMMA RecordedIs ==
  ASSUME NEW cs
  PROVE  Recorded(cs) = FoldLeft(Apply, Now, cs)
  BY DEF Recorded, Now

LEMMA RecordedOne ==
  ASSUME NEW c
  PROVE  Recorded(<<c>>) = Apply(Now, c)
<1> PICK cs : cs = <<c>>
  OBVIOUS
<1>1. DOMAIN cs = 1..1 /\ cs[1] = c
  OBVIOUS
<1>2. FoldLeft(Apply, Now, cs) = Apply(Now, c)
  BY ONLY <1>1, FoldOne
<1> QED BY <1>2, RecordedIs

LEMMA RecordedTwo ==
  ASSUME NEW c, NEW d
  PROVE  Recorded(<<c, d>>) = Apply(Apply(Now, c), d)
<1> PICK cs : cs = <<c, d>>
  OBVIOUS
<1>1. DOMAIN cs = 1..2 /\ cs[1] = c /\ cs[2] = d
  OBVIOUS
<1>2. FoldLeft(Apply, Now, cs) = Apply(Apply(Now, c), d)
  BY ONLY <1>1, FoldTwo
<1> QED BY <1>2, RecordedIs

LEMMA RecordedThree ==
  ASSUME NEW c, NEW d, NEW e
  PROVE  Recorded(<<c, d, e>>) = Apply(Apply(Apply(Now, c), d), e)
<1> PICK cs : cs = <<c, d, e>>
  OBVIOUS
<1>1. DOMAIN cs = 1..3 /\ cs[1] = c /\ cs[2] = d /\ cs[3] = e
  OBVIOUS
<1>2. FoldLeft(Apply, Now, cs) = Apply(Apply(Apply(Now, c), d), e)
  BY ONLY <1>1, FoldThree
<1> QED BY <1>2, RecordedIs

(* A barrier.                                                              *)
Transition(i, o, n) == {Barrier(i, o, n)}

LEMMA BarrierDoes ==
  ASSUME NEW gpu, NEW i, NEW o, NEW n, NEW g, i \in Images, n # Same, g = Apply(gpu, Transition(i, o, n))
  PROVE  /\ g.layout[i] = n /\ (o # Undefined => g.data[i] = gpu.data[i])
         /\ \A j \in Images \ {i} : g.layout[j] = gpu.layout[j] /\ g.data[j] = gpu.data[j]
         /\ \A X : /\ GoodUses(gpu, X) /\ i \in X
                  /\ (o = Undefined \/ gpu.layout[i] = o)
                  => GoodUses(g, X)
<1> PICK a : a = Barrier(i, o, n)
  OBVIOUS
<1>1. /\ a.image = i /\ a.needs = o /\ a.leaves = n /\ ~a.reads
      /\ o # Undefined => a.gives = Same
  BY DEF Barrier
<1> PICK acc : acc = {a}
  OBVIOUS
<1>2. g = Apply(gpu, acc) /\ a \in acc /\ \A b \in acc : b = a
  BY DEF Transition
<1>3. g.layout[i] = n /\ (o # Undefined => g.data[i] = gpu.data[i])
  BY ONLY <1>1, <1>2, ApplyGives, i \in Images, n # Same
<1>4. \A j \in Images \ {i} : g.layout[j] = gpu.layout[j] /\ g.data[j] = gpu.data[j]
  BY ONLY <1>1, <1>2, ApplyLeaves
<1>5. ASSUME NEW X, GoodUses(gpu, X), i \in X,
             o = Undefined \/ gpu.layout[i] = o
      PROVE  GoodUses(g, X)
  <2>1. Sound(Use(gpu, acc, a))
    BY ONLY <1>1, <1>2, <1>5, WriteIsSound, DeclaredIs
  <2> QED BY ONLY <1>1, <1>2, <1>5, <2>1, CommandIsGood
<1> QED BY ONLY <1>3, <1>4, <1>5

(* A depth pre-pass.                                                       *)
LEMMA PrePassDoes ==
  ASSUME NEW gpu, NEW i, NEW j, NEW p, NEW g, g = Apply(gpu, DepthPrePassAttachments(i, j, p)),
         i \in Images, j \in Images, i # j, p \notin {Same, "nothing"}
  PROVE  /\ g.layout[i] = DepthAttachment /\ g.layout[j] = ColorAttachment
         /\ g.data[i] = Drawn(p)
         /\ \A k \in Images : k # i /\ k # j =>
              g.layout[k] = gpu.layout[k] /\ g.data[k] = gpu.data[k]
         /\ \A X : GoodUses(gpu, X) /\ i \in X /\ j \in X => GoodUses(g, X)
<1>0. PICK l, m, q : /\ l = DepthAttachment /\ m = ColorAttachment /\ q = "nothing"
                     /\ l # Same /\ m # Same
  BY LayoutsAreNotSame
<1> PICK a, b, acc :
      a = Attachment(i, l, p) /\ b = Attachment(j, m, q) /\ acc = {a, b}
  OBVIOUS
<1>1. a.image = i /\ a.needs = Undefined /\ a.leaves = l /\ ~a.reads /\ a.gives = p
  BY DEF Attachment
<1>2. b.image = j /\ b.needs = Undefined /\ b.leaves = m /\ ~b.reads /\ b.gives = q
  BY DEF Attachment
<1>3. g = Apply(gpu, acc) /\ a \in acc /\ b \in acc /\ (\A x \in acc : x = a \/ x = b)
      /\ i \in Images /\ j \in Images /\ i # j
      /\ p \notin {Same, "nothing"}
  BY <1>0 DEF DepthPrePassAttachments
<1>4. Sound(Use(gpu, acc, a)) /\ Sound(Use(gpu, acc, b))
  <2>1. a \in acc /\ b \in acc
    BY ONLY <1>3
  <2> QED BY ONLY <1>1, <1>2, <2>1, WriteIsSound, DeclaredIs
<1>5. /\ a.image \in Images /\ b.image \in Images /\ a \in acc /\ b \in acc
      /\ \A x \in acc : x = a \/ x = b
      /\ \A x \in acc : x.image = a.image => x = a
      /\ \A x \in acc : x.image = b.image => x = b
  BY ONLY <1>1, <1>2, <1>3
<1>6. g.layout[i] = l /\ g.layout[j] = m /\ g.data[i] = Drawn(p)
  <2>1. /\ Apply(gpu, acc).layout[a.image] = a.leaves
        /\ Apply(gpu, acc).data[a.image] = Drawn(a.gives)
    BY ONLY <1>0, <1>1, <1>3, <1>5, ApplyGives
  <2>2. Apply(gpu, acc).layout[b.image] = b.leaves
    BY ONLY <1>0, <1>2, <1>5, ApplyGives
  <2> QED BY ONLY <1>1, <1>2, <1>3, <2>1, <2>2
<1>7. \A k \in Images : k # i /\ k # j =>
        g.layout[k] = gpu.layout[k] /\ g.data[k] = gpu.data[k]
  <2>1. ASSUME NEW k \in Images, k # i, k # j
        PROVE  g.layout[k] = gpu.layout[k] /\ g.data[k] = gpu.data[k]
    <3>1. \A x \in acc : x.image # k
      BY ONLY <1>1, <1>2, <1>5, <2>1
    <3>2. Apply(gpu, acc).layout[k] = gpu.layout[k] /\ Apply(gpu, acc).data[k] = gpu.data[k]
      BY ONLY <3>1, ApplyLeaves, k \in Images
    <3> QED BY ONLY <1>3, <3>2
  <2> QED BY ONLY <2>1
<1>8. ASSUME NEW X, GoodUses(gpu, X), i \in X, j \in X
      PROVE  GoodUses(g, X)
  <2>1. \A x \in acc : Sound(Use(gpu, acc, x)) /\ x.image \in X
    BY ONLY <1>1, <1>2, <1>4, <1>5, <1>8
  <2> QED BY ONLY <1>3, <1>8, <2>1, CommandIsGood
<1> QED BY <1>0, <1>6, <1>7, <1>8

(* A kernel, with an image that it reads and another that it writes.       *)
Reading(a, i) == a = Sampled(i) \/ a = Loaded(i)
Only(from, i) == \A u : from \in Producers(u)[i]

Dispatched(gpu, g, i, j, p) ==
  /\ g.data[i] = gpu.data[i] /\ g.data[j] = Drawn(p)
  /\ \A k \in Images : g.layout[k] = gpu.layout[k]
  /\ \A k \in Images : k # i /\ k # j => g.data[k] = gpu.data[k]

LEMMA DispatchGives ==
  ASSUME NEW gpu, NEW i, NEW j, NEW a, NEW p, NEW g,
         Reading(a, i), g = Apply(gpu, Dispatch(a, j, p)),
         i \in Images, j \in Images, i # j, p \notin {Same, "nothing"}
  PROVE  Dispatched(gpu, g, i, j, p)
<1> PICK b, acc : b = Stored(j, p) /\ acc = {a, b}
  OBVIOUS
<1>1. a.image = i /\ a.gives = Same /\ a.leaves = Same
  BY DEF Sampled, Loaded, Reading
<1>2. b.image = j /\ b.gives = p /\ b.leaves = Same
  BY DEF Stored
<1>3. /\ g = Apply(gpu, acc) /\ acc = {a, b} /\ i \in Images /\ j \in Images /\ i # j
      /\ p \notin {Same, "nothing"}
  BY DEF Dispatch
<1>4. /\ a.image \in Images /\ b.image \in Images /\ a \in acc /\ b \in acc
      /\ \A x \in acc : x = a \/ x = b
      /\ \A x \in acc : x.image = a.image => x = a
      /\ \A x \in acc : x.image = b.image => x = b
  BY ONLY <1>1, <1>2, <1>3
<1>5. /\ g.data[i] = gpu.data[i] /\ g.data[j] = Drawn(p)
      /\ g.layout[i] = gpu.layout[i] /\ g.layout[j] = gpu.layout[j]
  <2>1. /\ Apply(gpu, acc).data[a.image] = gpu.data[a.image]
        /\ Apply(gpu, acc).layout[a.image] = gpu.layout[a.image]
    BY ONLY <1>1, <1>4, ApplyGives
  <2>2. /\ Apply(gpu, acc).data[b.image] = Drawn(b.gives)
        /\ Apply(gpu, acc).layout[b.image] = gpu.layout[b.image]
    BY ONLY <1>2, <1>3, <1>4, ApplyGives
  <2> QED BY ONLY <1>1, <1>2, <1>3, <2>1, <2>2
<1>6. ASSUME NEW k \in Images, k # i, k # j
      PROVE  g.layout[k] = gpu.layout[k] /\ g.data[k] = gpu.data[k]
  <2>1. \A x \in acc : x.image # k
    BY ONLY <1>1, <1>2, <1>4, <1>6
  <2>2. Apply(gpu, acc).layout[k] = gpu.layout[k] /\ Apply(gpu, acc).data[k] = gpu.data[k]
    BY ONLY <2>1, ApplyLeaves, k \in Images
  <2> QED BY ONLY <1>3, <2>2
<1> QED BY <1>3, <1>5, <1>6 DEF Dispatched

LEMMA DispatchIsGood ==
  ASSUME NEW gpu, NEW i, NEW j, NEW a, NEW p, NEW g, NEW from, NEW X,
         Reading(a, i), g = Apply(gpu, Dispatch(a, j, p)),
         AsDeclared(i, a.needs, gpu.layout[i]), gpu.layout[j] = General,
         gpu.data[i] = Drawn(from), Only(from, i), GoodUses(gpu, X), i \in X, j \in X
  PROVE  GoodUses(g, X)
<1> PICK b, acc : b = Stored(j, p) /\ acc = {a, b}
  OBVIOUS
<1>1. a.image = i /\ b.image = j /\ ~b.reads /\ b.needs = General
  BY DEF Sampled, Loaded, Reading, Stored
<1>2. /\ g = Apply(gpu, acc) /\ a \in acc /\ b \in acc /\ (\A x \in acc : x = a \/ x = b)
      /\ AsDeclared(i, a.needs, gpu.layout[i]) /\ gpu.layout[j] = General
  BY DEF Dispatch
<1>3. Sound(Use(gpu, acc, b))
  BY ONLY <1>1, <1>2, WriteIsSound, DeclaredIs
<1>4. from \in Producers(Use(gpu, acc, a))[i] /\ gpu.data[i] = Drawn(from)
  BY DEF Only
<1>5. Sound(Use(gpu, acc, a))
  BY ONLY <1>1, <1>2, <1>4, ReadIsSound
<1>6. \A x \in acc : Sound(Use(gpu, acc, x)) /\ x.image \in X
  BY <1>1, <1>2, <1>3, <1>5
<1>7. GoodUses(gpu, X)
  OBVIOUS
<1> QED BY ONLY <1>2, <1>6, <1>7, CommandIsGood

(* A blit from an image to the output, or from the output.                 *)
Blit(i, l) == {Blitted(i, l), Blitted("output", ColorAttachment)}

OnlyWithNone(from, i) == \A u : u.by = {} => from \in Producers(u)[i]

LEMMA BlitGives ==
  ASSUME NEW gpu, NEW i, NEW l, NEW g, g = Apply(gpu, Blit(i, l)), i \in Images, i # "output"
  PROVE  \A k \in Images : g.data[k] = gpu.data[k] /\ g.layout[k] = gpu.layout[k]
<1> PICK out : out = "output"
  OBVIOUS
<1> PICK a, b, acc :
      a = Blitted(i, l) /\ b = Blitted(out, ColorAttachment) /\ acc = {a, b}
  OBVIOUS
<1>1. a.image = i /\ a.leaves = Same /\ a.gives = Same
  BY DEF Blitted
<1>2. b.image = out /\ b.leaves = Same /\ b.gives = Same
  BY DEF Blitted
<1>3. /\ g = Apply(gpu, acc) /\ a \in acc /\ b \in acc /\ (\A x \in acc : x = a \/ x = b)
      /\ i \in Images /\ out \in Images /\ i # out
  BY DEF Images, Blit
<1>4. /\ a.image \in Images /\ b.image \in Images
      /\ \A c \in acc : c.image = a.image => c = a
      /\ \A c \in acc : c.image = b.image => c = b
  BY ONLY <1>1, <1>2, <1>3
<1>5. g.data[i] = gpu.data[i] /\ g.layout[i] = gpu.layout[i]
  <2>1. /\ Apply(gpu, acc).layout[a.image] = gpu.layout[a.image]
        /\ Apply(gpu, acc).data[a.image] = gpu.data[a.image]
    BY ONLY <1>1, <1>3, <1>4, ApplyGives
  <2> QED BY ONLY <1>1, <1>3, <2>1
<1>6. g.data[out] = gpu.data[out] /\ g.layout[out] = gpu.layout[out]
  <2>1. /\ Apply(gpu, acc).layout[b.image] = gpu.layout[b.image]
        /\ Apply(gpu, acc).data[b.image] = gpu.data[b.image]
    BY ONLY <1>2, <1>3, <1>4, ApplyGives
  <2> QED BY ONLY <1>2, <1>3, <2>1
<1>7. ASSUME NEW k \in Images, k # i, k # out
      PROVE  g.layout[k] = gpu.layout[k] /\ g.data[k] = gpu.data[k]
  <2>1. \A c \in acc : c.image # k
    BY ONLY <1>1, <1>2, <1>3, <1>7
  <2>2. Apply(gpu, acc).layout[k] = gpu.layout[k] /\ Apply(gpu, acc).data[k] = gpu.data[k]
    BY ONLY <2>1, ApplyLeaves, k \in Images
  <2> QED BY ONLY <1>3, <2>2
<1> QED BY <1>5, <1>6, <1>7

LEMMA BlitIsGood ==
  ASSUME NEW gpu, NEW i, NEW l, NEW from, NEW g, NEW X, g = Apply(gpu, Blit(i, l)),
         AsDeclared(i, l, gpu.layout[i]),
         gpu.data[i] = Drawn(from), OnlyWithNone(from, i),
         gpu.layout["output"] = ColorAttachment, gpu.data["output"] = Drawn("lighting"),
         GoodUses(gpu, X), i \in X, "output" \in X
  PROVE  GoodUses(g, X)
<1> PICK out : out = "output"
  OBVIOUS
<1> PICK a, b, acc :
      a = Blitted(i, l) /\ b = Blitted(out, ColorAttachment) /\ acc = {a, b}
  OBVIOUS
<1>1. a.image = i /\ a.needs = l /\ a.gives = Same
  BY DEF Blitted
<1>2. b.image = out /\ b.needs = ColorAttachment /\ b.gives = Same
  BY DEF Blitted
<1>3. /\ g = Apply(gpu, acc) /\ a \in acc /\ b \in acc /\ (\A x \in acc : x = a \/ x = b)
      /\ AsDeclared(i, l, gpu.layout[i])
      /\ gpu.layout[out] = ColorAttachment /\ gpu.data[out] = Drawn("lighting")
  BY DEF Blit
<1>4. Sound(Use(gpu, acc, b))
  <2>1. "lighting" \in Producers(Use(gpu, acc, b))[out]
    BY ProducersAre
  <2> QED BY ONLY <1>2, <1>3, <2>1, ReadIsSound, DeclaredIs
<1>5. Sound(Use(gpu, acc, a))
  <2>1. {c.gives : c \in acc} = {Same}
    BY ONLY <1>1, <1>2, <1>3
  <2>2. Use(gpu, acc, a).by = {}
    BY ONLY <2>1 DEF Use
  <2>3. from \in Producers(Use(gpu, acc, a))[i] /\ gpu.data[i] = Drawn(from)
    BY <2>2 DEF OnlyWithNone
  <2> QED BY ONLY <1>1, <1>3, <2>3, ReadIsSound
<1>6. \A c \in acc : Sound(Use(gpu, acc, c)) /\ c.image \in X
  BY <1>1, <1>2, <1>3, <1>4, <1>5
<1>7. GoodUses(gpu, X)
  OBVIOUS
<1> QED BY ONLY <1>3, <1>6, <1>7, CommandIsGood

(* A pass of the SsdoSampler, which reads the image i.                     *)
SsdoPass(o, i, p) ==
  {Attachment(o, ShaderReadOnly, p), Sampled(i), Sampled("accel_table"), Sampled("noise")}

LEMMA SsdoPassIs ==
  /\ \A o, i : Sample(o, i, "accel_table") = SsdoPass(o, i, "sample")
  /\ \A o, i, p : Filter(o, i, "accel_table", p) = SsdoPass(o, i, p)
  BY DEF Sample, Filter, SsdoAttachment, SsdoPass

\* What a pass that only makes p finds in the image i.
OnlyWith(p, from, i) == \A u : u.by = {p} => from \in Producers(u)[i]

LEMMA SsdoPassGives ==
  ASSUME NEW gpu, NEW i, NEW o, NEW p, NEW g, g = Apply(gpu, SsdoPass(o, i, p)),
         i \in Images, o \in Images, i # o, p \notin {Same, "nothing"},
         i \notin {"accel_table", "noise"}, o \notin {"accel_table", "noise"}
  PROVE  /\ g.layout[o] = ShaderReadOnly /\ g.data[o] = Drawn(p)
         /\ g.data["accel_table"] = gpu.data["accel_table"]
         /\ \A k \in Images : k # o => g.layout[k] = gpu.layout[k]
         /\ \A k \in Images : k # i /\ k # o /\ k # "accel_table" /\ k # "noise" =>
              g.data[k] = gpu.data[k]
<1> PICK table, noise : table = "accel_table" /\ noise = "noise"
  OBVIOUS
<1> PICK a, b, c, d : /\ a = Attachment(o, ShaderReadOnly, p) /\ b = Sampled(i)
                      /\ c = Sampled(table) /\ d = Sampled(noise)
  OBVIOUS
<1>1. a.image = o /\ a.needs = Undefined /\ a.leaves = ShaderReadOnly /\ ~a.reads /\ a.gives = p
  BY DEF Attachment
<1>2. /\ b.image = i /\ b.leaves = Same /\ b.gives = Same
      /\ c.image = table /\ c.leaves = Same /\ c.gives = Same
      /\ d.image = noise /\ d.leaves = Same /\ d.gives = Same
  BY DEF Sampled
<1>3. /\ i \in Images /\ o \in Images /\ table \in Images
      /\ table # noise /\ i # o /\ i # table /\ i # noise /\ o # table /\ o # noise
      /\ noise \in Images /\ ShaderReadOnly # Same /\ p \notin {Same, "nothing"}
  BY LayoutsAreNotSame DEF Images
<1> PICK acc : acc = {a, b, c, d}
  OBVIOUS
<1>4. /\ g = Apply(gpu, acc) /\ a \in acc /\ b \in acc /\ c \in acc /\ d \in acc
      /\ \A x \in acc : x = a \/ x = b \/ x = c \/ x = d
  BY DEF SsdoPass
<1>5. g.layout[o] = ShaderReadOnly /\ g.data[o] = Drawn(p)
  <2>1. \A x \in acc : x.image = a.image => x = a
    BY ONLY <1>1, <1>2, <1>3, <1>4
  <2>2. a \in acc /\ a.image \in Images /\ a.gives \notin {Same, "nothing"}
    BY ONLY <1>1, <1>3, <1>4
  <2>3. /\ Apply(gpu, acc).layout[a.image] = a.leaves
        /\ Apply(gpu, acc).data[a.image] = Drawn(a.gives)
    BY ONLY <1>1, <1>3, <2>1, <2>2, ApplyGives
  <2> QED BY ONLY <1>1, <1>4, <2>3
<1>6. g.layout[i] = gpu.layout[i]
  <2>1. \A x \in acc : x.image = b.image => x = b
    BY ONLY <1>1, <1>2, <1>3, <1>4
  <2>2. b \in acc /\ b.image \in Images
    BY ONLY <1>2, <1>3, <1>4
  <2>3. Apply(gpu, acc).layout[b.image] = gpu.layout[b.image]
    BY ONLY <1>2, <2>1, <2>2, ApplyGives
  <2> QED BY ONLY <1>2, <1>4, <2>3
<1>7. g.data[table] = gpu.data[table] /\ g.layout[table] = gpu.layout[table]
  <2>1. \A x \in acc : x.image = c.image => x = c
    BY ONLY <1>1, <1>2, <1>3, <1>4
  <2>2. c \in acc /\ c.image \in Images
    BY ONLY <1>2, <1>3, <1>4
  <2>3. /\ Apply(gpu, acc).data[c.image] = gpu.data[c.image]
        /\ Apply(gpu, acc).layout[c.image] = gpu.layout[c.image]
    BY ONLY <1>2, <2>1, <2>2, ApplyGives
  <2> QED BY ONLY <1>2, <1>4, <2>3
<1>9. g.layout[noise] = gpu.layout[noise]
  <2>1. \A x \in acc : x.image = d.image => x = d
    BY ONLY <1>1, <1>2, <1>3, <1>4
  <2>2. d \in acc /\ d.image \in Images
    BY ONLY <1>2, <1>3, <1>4
  <2>3. Apply(gpu, acc).layout[d.image] = gpu.layout[d.image]
    BY ONLY <1>2, <2>1, <2>2, ApplyGives
  <2> QED BY ONLY <1>2, <1>4, <2>3
<1>8. \A k \in Images : k # i /\ k # o /\ k # table /\ k # noise =>
         g.layout[k] = gpu.layout[k] /\ g.data[k] = gpu.data[k]
  <2>1. ASSUME NEW k \in Images, k # i, k # o, k # table, k # noise
        PROVE  g.layout[k] = gpu.layout[k] /\ g.data[k] = gpu.data[k]
    <3>1. \A x \in acc : x.image # k
      BY ONLY <1>1, <1>2, <1>4, <2>1
    <3>2. Apply(gpu, acc).layout[k] = gpu.layout[k] /\ Apply(gpu, acc).data[k] = gpu.data[k]
      BY ONLY <3>1, ApplyLeaves, k \in Images
    <3> QED BY ONLY <1>4, <3>2
  <2> QED BY ONLY <2>1
<1> QED BY <1>5, <1>6, <1>7, <1>8, <1>9

LEMMA SsdoPassIsGood ==
  ASSUME NEW gpu, NEW i, NEW o, NEW p, NEW g, NEW from, NEW X, g = Apply(gpu, SsdoPass(o, i, p)),
         i \in Images, o \in Images, i # o, p \notin {Same, "nothing"},
         i \notin {"accel_table", "noise"}, o \notin {"accel_table", "noise"},
         gpu.layout[i] = ShaderReadOnly, gpu.layout["accel_table"] = General,
         gpu.layout["noise"] = ShaderReadOnly,
         gpu.data[i] = Drawn(from), OnlyWith(p, from, i),
         gpu.data["accel_table"] \in {Drawn("table"), Drawn("null_table")},
         GoodUses(gpu, X), i \in X, o \in X, "accel_table" \in X, "noise" \in X
  PROVE  GoodUses(g, X)
<1> PICK t \in {"table", "null_table"} : gpu.data["accel_table"] = Drawn(t)
  OBVIOUS
<1> PICK table, noise : table = "accel_table" /\ noise = "noise"
  OBVIOUS
<1> PICK a, b, c, d : /\ a = Attachment(o, ShaderReadOnly, p) /\ b = Sampled(i)
                      /\ c = Sampled(table) /\ d = Sampled(noise)
  OBVIOUS
<1>1. a.image = o /\ a.needs = Undefined /\ a.leaves = ShaderReadOnly /\ ~a.reads /\ a.gives = p
  BY DEF Attachment
<1>2. /\ b.image = i /\ b.needs = ShaderReadOnly /\ b.gives = Same
      /\ c.image = table /\ c.needs = ShaderReadOnly /\ c.gives = Same
      /\ d.image = noise /\ d.needs = ShaderReadOnly /\ d.gives = Same
  BY DEF Sampled
<1>3. /\ i \in Images /\ o \in Images /\ table \in Images
      /\ table # noise /\ i # o /\ i # table /\ i # noise /\ o # table /\ o # noise
      /\ p \notin {Same, "nothing"} /\ gpu.layout[i] = ShaderReadOnly
      /\ AsDeclared(table, ShaderReadOnly, gpu.layout[table])
      /\ gpu.layout[noise] = ShaderReadOnly
  BY DeclaredIs DEF Images
<1> PICK acc : acc = {a, b, c, d}
  OBVIOUS
<1>4. /\ g = Apply(gpu, acc) /\ a \in acc /\ b \in acc /\ c \in acc /\ d \in acc
      /\ \A x \in acc : x = a \/ x = b \/ x = c \/ x = d
  BY DEF SsdoPass
<1>5. Sound(Use(gpu, acc, a))
  BY ONLY <1>1, <1>4, WriteIsSound, DeclaredIs
<1>6. Sound(Use(gpu, acc, b))
  <2>1. {x.gives : x \in acc} = {p, Same}
    BY ONLY <1>1, <1>2, <1>4
  <2>2. Use(gpu, acc, b).by = {p}
    BY ONLY <1>3, <2>1 DEF Use
  <2>3. from \in Producers(Use(gpu, acc, b))[i] /\ gpu.data[i] = Drawn(from)
    BY <2>2 DEF OnlyWith
  <2> QED BY ONLY <1>2, <1>3, <1>4, <2>3, ReadIsSound, DeclaredIs
<1>7. Sound(Use(gpu, acc, c))
  <2>1. t \in Producers(Use(gpu, acc, c))[table] /\ gpu.data[table] = Drawn(t)
    BY ProducersAre
  <2> QED BY ONLY <1>2, <1>3, <1>4, <2>1, ReadIsSound
<1>8. Sound(Use(gpu, acc, d))
  <2>1. d.image = "noise" /\ d.needs = gpu.layout["noise"]
    BY <1>2
  <2> QED BY ONLY <1>4, <2>1, NoiseIsSound
<1>9. GoodUses(gpu, X) /\ i \in X /\ o \in X /\ table \in X /\ noise \in X
  OBVIOUS
<1> QED BY ONLY <1>1, <1>2, <1>4, <1>5, <1>6, <1>7, <1>8, <1>9, CommandIsGood

(* The lighting pass, which samples the illumination if there is one.       *)
LightingCommand(lit) ==
  LightingAttachments \cup (IF lit THEN {Sampled("illum1")} ELSE {})

LEMMA LightingGives ==
  ASSUME NEW gpu, NEW lit, NEW g, g = Apply(gpu, LightingCommand(lit)),
         lit => gpu.layout["illum1"] = ShaderReadOnly /\ gpu.data["illum1"] = Drawn("filter_2")
  PROVE  /\ g.layout["output"] = ColorAttachment /\ g.data["output"] = Drawn("lighting")
         /\ lit => /\ g.layout["illum1"] = ShaderReadOnly
                   /\ g.data["illum1"] = Drawn("filter_2")
         /\ \A k \in Images : k # "output" /\ k # "depth" /\ k # "illum1" =>
              g.layout[k] = gpu.layout[k] /\ g.data[k] = gpu.data[k]
<1> PICK a, b, c : /\ a = Attachment("output", ColorAttachment, "lighting")
                   /\ b = Attachment("depth", DepthAttachment, "nothing")
                   /\ c = Sampled("illum1")
  OBVIOUS
<1> PICK acc : acc = LightingCommand(lit)
  OBVIOUS
<1>1. /\ a.image = "output" /\ a.needs = Undefined /\ a.leaves = ColorAttachment /\ ~a.reads
      /\ a.gives = "lighting" /\ b.image = "depth" /\ b.needs = Undefined /\ ~b.reads
      /\ b.gives = "nothing"
  BY DEF Attachment
<1>2. c.image = "illum1" /\ c.needs = ShaderReadOnly /\ c.leaves = Same /\ c.gives = Same
  BY DEF Sampled
<1>3. /\ g = Apply(gpu, acc) /\ a \in acc /\ b \in acc /\ (lit => c \in acc)
      /\ \A x \in acc : x = a \/ x = b \/ (lit /\ x = c)
  BY DEF LightingCommand, LightingAttachments
<1>4. {"output", "depth", "illum1"} \subseteq Images /\ "lighting" \notin {Same, "nothing"}
      /\ ColorAttachment # Same
  BY LayoutsAreNotSame DEF Images, Same
<1>5. g.layout["output"] = ColorAttachment /\ g.data["output"] = Drawn("lighting")
  <2>1. \A x \in acc : x.image = a.image => x = a
    BY <1>1, <1>2, <1>3
  <2>2. a \in acc /\ a.image \in Images /\ a.gives \notin {Same, "nothing"}
    BY <1>1, <1>3, <1>4
  <2>3. /\ Apply(gpu, acc).layout[a.image] = a.leaves
        /\ Apply(gpu, acc).data[a.image] = Drawn(a.gives)
    BY ONLY <1>1, <1>4, <2>1, <2>2, ApplyGives
  <2> QED BY ONLY <1>1, <1>3, <2>3
<1>6. ASSUME lit
      PROVE  g.layout["illum1"] = ShaderReadOnly /\ g.data["illum1"] = Drawn("filter_2")
  <2>1. \A x \in acc : x.image = c.image => x = c
    BY <1>1, <1>2, <1>3
  <2>2. c \in acc /\ c.image \in Images /\ c.gives = Same
    BY <1>2, <1>3, <1>4, <1>6
  <2>3. /\ Apply(gpu, acc).layout[c.image] = gpu.layout[c.image]
        /\ Apply(gpu, acc).data[c.image] = gpu.data[c.image]
    BY ONLY <1>2, <2>1, <2>2, ApplyGives
  <2> QED BY <1>2, <1>3, <1>6, <2>3
<1>7. ASSUME NEW k \in Images, k # "output", k # "depth", k # "illum1"
      PROVE  g.layout[k] = gpu.layout[k] /\ g.data[k] = gpu.data[k]
  <2>1. \A x \in acc : x.image # k
    BY ONLY <1>1, <1>2, <1>3, <1>7
  <2>2. Apply(gpu, acc).layout[k] = gpu.layout[k] /\ Apply(gpu, acc).data[k] = gpu.data[k]
    BY ONLY <2>1, ApplyLeaves, k \in Images
  <2> QED BY ONLY <1>3, <2>2
<1> QED BY <1>5, <1>6, <1>7

LEMMA LightingIsGood ==
  ASSUME NEW gpu, NEW lit, NEW g, NEW X, g = Apply(gpu, LightingCommand(lit)),
         lit => gpu.layout["illum1"] = ShaderReadOnly /\ gpu.data["illum1"] = Drawn("filter_2"),
         GoodUses(gpu, X), "output" \in X, "depth" \in X, lit => "illum1" \in X
  PROVE  GoodUses(g, X)
<1> PICK a, b, c : /\ a = Attachment("output", ColorAttachment, "lighting")
                   /\ b = Attachment("depth", DepthAttachment, "nothing")
                   /\ c = Sampled("illum1")
  OBVIOUS
<1> PICK acc : acc = LightingCommand(lit)
  OBVIOUS
<1>1. /\ a.image = "output" /\ a.needs = Undefined /\ a.leaves = ColorAttachment /\ ~a.reads
      /\ a.gives = "lighting" /\ b.image = "depth" /\ b.needs = Undefined /\ ~b.reads
      /\ b.gives = "nothing"
  BY DEF Attachment
<1>2. c.image = "illum1" /\ c.needs = ShaderReadOnly /\ c.gives = Same
  BY DEF Sampled
<1>3. /\ g = Apply(gpu, acc) /\ a \in acc /\ b \in acc /\ (lit => c \in acc)
      /\ \A x \in acc : x = a \/ x = b \/ (lit /\ x = c)
  BY DEF LightingCommand, LightingAttachments
<1>4. {"output", "depth", "illum1"} \subseteq Images /\ "lighting" \notin {Same, "nothing"}
  BY DEF Images, Same
<1>5. Sound(Use(gpu, acc, a)) /\ Sound(Use(gpu, acc, b))
  BY ONLY <1>1, <1>3, WriteIsSound, DeclaredIs
<1>6. ASSUME lit
      PROVE  Sound(Use(gpu, acc, c))
  <2>1. "lighting" \in {x.gives : x \in acc} \ {Same}
    BY <1>1, <1>3 DEF Same
  <2>2. Use(gpu, acc, c).by = {x.gives : x \in acc} \ {Same}
    BY DEF Use
  <2>3. Use(gpu, acc, c).by # {"filter_1"}
    BY <2>1, <2>2
  <2>4. "filter_2" \in Producers(Use(gpu, acc, c))["illum1"] /\ gpu.data["illum1"] = Drawn("filter_2")
    BY <1>6, <2>3, ProducersAre
  <2>5. gpu.layout["illum1"] = ShaderReadOnly /\ c \in acc
    BY <1>3, <1>6
  <2> QED BY ONLY <1>2, <2>4, <2>5, ReadIsSound, DeclaredIs
<1>7. \A x \in acc : Sound(Use(gpu, acc, x)) /\ x.image \in X
  BY <1>1, <1>2, <1>3, <1>5, <1>6
<1>8. GoodUses(gpu, X)
  OBVIOUS
<1> QED BY ONLY <1>3, <1>7, <1>8, CommandIsGood

(* What is recorded is used, and kept by the command buffer that uses it.  *)
LEMMA RecordDoes ==
  ASSUME NEW r, NEW X, PassInv, GoodUses(r, X), kept \subseteq kept', X \ {"noise"} \subseteq kept',
         uses' = r.uses, used' = used \cup {u.image : u \in r.uses},
         submitted' = submitted, frame' = frame, "output" \in X => waited'
  PROVE  /\ \A u \in uses' : Sound(u)' /\ (u.image = "output" => waited')
         /\ used' \ {"noise"} \subseteq kept'
         /\ submitted'.used \ {"noise"} \subseteq submitted'.kept
<1>1. \A u \in uses' : Sound(u) /\ u.image \in X
  BY DEF GoodUses
<1>2. \A u : Sound(u) => Sound(u)'
  BY DEF Sound
<1>3. {u.image : u \in r.uses} \subseteq X
  BY <1>1
<1>4. used \ {"noise"} \subseteq kept /\ submitted.used \ {"noise"} \subseteq submitted.kept
  BY DEF PassInv, KeptInv
<1> QED BY <1>1, <1>2, <1>3, <1>4

LEMMA SubmitDoes ==
  ASSUME NEW r, NEW X, NEW k, PassInv, GoodUses(r, X), kept \subseteq k, X \ {"noise"} \subseteq k,
         uses' = r.uses, used' = {}, kept' = {}, frame' = frame, "output" \in X => waited',
         submitted' = [used |-> used \cup {u.image : u \in r.uses}, kept |-> k]
  PROVE  /\ \A u \in uses' : Sound(u)' /\ (u.image = "output" => waited')
         /\ used' \ {"noise"} \subseteq kept'
         /\ submitted'.used \ {"noise"} \subseteq submitted'.kept
<1>1. \A u \in uses' : Sound(u) /\ u.image \in X
  BY DEF GoodUses
<1>2. \A u : Sound(u) => Sound(u)'
  BY DEF Sound
<1>3. {u.image : u \in r.uses} \subseteq X
  BY <1>1
<1>4. used \ {"noise"} \subseteq kept
  BY DEF PassInv, KeptInv
<1>5. submitted'.used = used \cup {u.image : u \in r.uses} /\ submitted'.kept = k
  OBVIOUS
<1> QED BY <1>1, <1>2, <1>3, <1>4, <1>5

LEMMA AccelDepthPrePassInv ==
  ASSUME PassInv, AccelDepthPrePass
  PROVE  PassInv'
<1> PICK c : c = DepthPrePassAttachments("accel_depth", "accel_dummy", "accel_prepass")
  OBVIOUS
<1> PICK r : r = Recorded(<<c>>)
  OBVIOUS
<1>1. /\ layout' = r.layout /\ data' = r.data /\ uses' = r.uses /\ used' = {} /\ kept' = {}
      /\ submitted' = [used |-> used \cup {u.image : u \in r.uses},
                       kept |-> kept \cup {"accel_depth", "accel_dummy"}]
  BY DEF AccelDepthPrePass, RecordAndSubmit, Execute, UsedWith
<1>2. /\ pc = "accel_depth" /\ pc' = "accel_table" /\ frame' = frame /\ flags' = flags
      /\ size' = size /\ extent' = extent /\ waited' = waited
  BY DEF AccelDepthPrePass
<1>3. r = Apply(Now, c)
  BY RecordedOne
<1>4. /\ r.data["accel_depth"] = Drawn("accel_prepass")
      /\ r.layout["accel_depth"] = DepthAttachment /\ r.layout["noise"] = layout["noise"]
      /\ \A X : GoodUses(Now, X) /\ "accel_depth" \in X /\ "accel_dummy" \in X => GoodUses(r, X)
  <2>1. "accel_depth" \in Images /\ "accel_dummy" \in Images /\ "accel_depth" # "accel_dummy"
        /\ "noise" \in Images /\ "noise" # "accel_depth" /\ "noise" # "accel_dummy"
    BY DEF Images
  <2>2. "accel_prepass" \notin {Same, "nothing"}
    BY DEF Same
  <2>3. r = Apply(Now, DepthPrePassAttachments("accel_depth", "accel_dummy", "accel_prepass"))
    BY <1>3
  <2>4. /\ r.layout["accel_depth"] = DepthAttachment
        /\ r.data["accel_depth"] = Drawn("accel_prepass")
        /\ r.layout["noise"] = Now.layout["noise"]
        /\ \A X : GoodUses(Now, X) /\ "accel_depth" \in X /\ "accel_dummy" \in X => GoodUses(r, X)
    BY ONLY <2>1, <2>2, <2>3, PrePassDoes
  <2> QED BY <2>4, NowIsGood
<1>5. GoodUses(r, {"accel_depth", "accel_dummy"})
  BY <1>4, NowIsGood
<1>6. /\ \A u \in uses' : Sound(u)' /\ (u.image = "output" => waited')
      /\ used' \ {"noise"} \subseteq kept'
      /\ submitted'.used \ {"noise"} \subseteq submitted'.kept
  BY <1>1, <1>2, <1>5, SubmitDoes
<1>7. PassTypes'
  BY <1>2 DEF PassInv, PassTypes, Early, Idle
<1>8. AccelInv'
  BY <1>1, <1>2, <1>4 DEF AccelInv, Early, Idle, Drawn
<1>10. PlacesInv'
  BY <1>1, <1>2, <1>4 DEF PassInv, PlacesInv, Early, Idle
<1>9. SsdoInv' /\ OutputInv' /\ UsesInv' /\ KeptInv' /\ TableInv'
  BY <1>1, <1>2, <1>6 DEF SsdoInv, OutputInv, UsesInv, KeptInv, TableInv, Early, Idle, Ssdo, Shows
<1> QED BY <1>7, <1>8, <1>9, <1>10 DEF PassInv

LEMMA GenerateLookupTableInv ==
  ASSUME PassInv, GenerateLookupTable
  PROVE  PassInv'
<1> PICK p : p = IF flags.acceleration THEN "table" ELSE "null_table"
  OBVIOUS
<1> PICK c, d : /\ c = Transition("accel_table", Undefined, General)
                /\ d = Dispatch(Sampled("accel_depth"), "accel_table", p)
  OBVIOUS
<1> PICK r : r = Recorded(<<c, d>>)
  OBVIOUS
<1>1. /\ layout' = r.layout /\ data' = r.data /\ uses' = r.uses /\ used' = {} /\ kept' = {}
      /\ submitted' = [used |-> used \cup {u.image : u \in r.uses},
                       kept |-> kept \cup {"accel_depth", "accel_table"}]
  BY DEF GenerateLookupTable, RecordAndSubmit, Execute, UsedWith, Transition
<1>2. /\ pc = "accel_table" /\ pc' = "depth" /\ frame' = frame /\ flags' = flags
      /\ size' = size /\ waited' = waited
      /\ extent' = [extent EXCEPT !.table = <<Packed(AccelWidth), Packed(AccelHeight)>>]
  BY DEF GenerateLookupTable
<1> PICK g : g = Apply(Now, c)
  OBVIOUS
<1>3. r = Apply(g, d)
  BY RecordedTwo
<1>4. /\ {"accel_depth", "accel_table", "noise"} \subseteq Images
      /\ General # Same
  BY LayoutsAreNotSame DEF Images
<1>5. /\ g.data["accel_depth"] = data["accel_depth"]
      /\ g.layout["accel_depth"] = layout["accel_depth"]
      /\ g.layout["noise"] = layout["noise"] /\ g.layout["accel_table"] = General
      /\ \A X : GoodUses(Now, X) /\ "accel_table" \in X => GoodUses(g, X)
  <2>1. g = Apply(Now, Transition("accel_table", Undefined, General))
    OBVIOUS
  <2>2. /\ g.layout["accel_table"] = General
        /\ \A k \in Images \ {"accel_table"} :
             g.layout[k] = Now.layout[k] /\ g.data[k] = Now.data[k]
        /\ \A X : GoodUses(Now, X) /\ "accel_table" \in X => GoodUses(g, X)
    BY ONLY <1>4, <2>1, BarrierDoes
  <2> QED BY <1>4, <2>2, NowIsGood
<1>6. p \in {"table", "null_table"} /\ p \notin {Same, "nothing"}
  BY DEF Same
<1>7. /\ g.data["accel_depth"] = Drawn("accel_prepass") /\ g.layout["accel_table"] = General
      /\ g.layout["accel_depth"] = DepthAttachment
  BY <1>2, <1>5 DEF PassInv, AccelInv, PlacesInv, Idle
<1>8. /\ r.data["accel_depth"] = Drawn("accel_prepass") /\ r.data["accel_table"] = Drawn(p)
      /\ \A k \in Images : r.layout[k] = g.layout[k]
      /\ \A X : GoodUses(g, X) /\ "accel_depth" \in X /\ "accel_table" \in X => GoodUses(r, X)
  <2>1. r = Apply(g, Dispatch(Sampled("accel_depth"), "accel_table", p))
    BY <1>3
  <2>2. Only("accel_prepass", "accel_depth") /\ Reading(Sampled("accel_depth"), "accel_depth")
    BY ProducersAre DEF Only, Reading
  <2>3. /\ "accel_depth" \in Images /\ "accel_table" \in Images
        /\ AsDeclared("accel_depth", Sampled("accel_depth").needs, g.layout["accel_depth"])
        /\ "accel_depth" # "accel_table"
    BY <1>4, <1>7, DeclaredIs DEF Sampled
  <2>4. /\ r.data["accel_depth"] = g.data["accel_depth"] /\ r.data["accel_table"] = Drawn(p)
        /\ \A k \in Images : r.layout[k] = g.layout[k]
    <3>1. Dispatched(g, r, "accel_depth", "accel_table", p)
      BY ONLY <1>6, <2>1, <2>2, <2>3, DispatchGives
    <3> QED BY ONLY <3>1 DEF Dispatched
  <2>5. \A X : GoodUses(g, X) /\ "accel_depth" \in X /\ "accel_table" \in X => GoodUses(r, X)
    BY ONLY <1>7, <2>1, <2>2, <2>3, DispatchIsGood
  <2> QED BY ONLY <1>7, <2>4, <2>5
<1>9. GoodUses(r, {"accel_depth", "accel_table"})
  BY <1>5, <1>8, NowIsGood
<1>10. /\ \A u \in uses' : Sound(u)' /\ (u.image = "output" => waited')
       /\ used' \ {"noise"} \subseteq kept'
       /\ submitted'.used \ {"noise"} \subseteq submitted'.kept
  BY <1>1, <1>2, <1>9, SubmitDoes
<1>11. PassTypes'
  BY <1>2 DEF PassInv, PassTypes
<1>12. AccelInv'
  BY <1>1, <1>2, <1>6, <1>8 DEF AccelInv, Drawn
<1>15. PlacesInv'
  BY <1>1, <1>2, <1>4, <1>5, <1>7, <1>8 DEF PassInv, PlacesInv
<1>13. TableInv'
  <2>1. AccelWidth' = AccelWidth /\ AccelHeight' = AccelHeight
    BY <1>2 DEF AccelWidth, AccelHeight
  <2>2. extent'.table = <<Packed(AccelWidth), Packed(AccelHeight)>>
    BY <1>2 DEF PassInv, PassTypes
  <2> QED BY <2>1, <2>2 DEF TableInv, Packed
<1>14. SsdoInv' /\ OutputInv' /\ UsesInv' /\ KeptInv'
  BY <1>1, <1>2, <1>10 DEF SsdoInv, OutputInv, UsesInv, KeptInv, Early, Idle, Ssdo, Shows
<1> QED BY <1>11, <1>12, <1>13, <1>14, <1>15 DEF PassInv

LEMMA DepthPrePassInv ==
  ASSUME PassInv, DepthPrePass
  PROVE  PassInv'
<1> PICK c : c = DepthPrePassAttachments("depth", "output", "prepass")
  OBVIOUS
<1> PICK r : r = Recorded(<<c>>)
  OBVIOUS
<1>1. /\ layout' = r.layout /\ data' = r.data /\ uses' = r.uses /\ used' = {} /\ kept' = {}
      /\ submitted' = [used |-> used \cup {u.image : u \in r.uses},
                       kept |-> kept \cup {"depth", "output"}]
  BY DEF DepthPrePass, RecordAndSubmit, Execute, UsedWith
<1>2. /\ pc = "depth" /\ pc' = (IF flags.lighting THEN "sample" ELSE "lighting")
      /\ frame' = frame /\ flags' = flags /\ size' = size /\ extent' = extent /\ waited' = TRUE
  BY DEF DepthPrePass
<1>3. r = Apply(Now, c)
  BY RecordedOne
<1>4. /\ r.layout["depth"] = DepthAttachment /\ r.data["depth"] = Drawn("prepass")
      /\ \A k \in Images : k # "depth" /\ k # "output" =>
           r.layout[k] = Now.layout[k] /\ r.data[k] = Now.data[k]
      /\ \A X : GoodUses(Now, X) /\ "depth" \in X /\ "output" \in X => GoodUses(r, X)
  <2>1. "depth" \in Images /\ "output" \in Images /\ "depth" # "output"
    BY DEF Images
  <2>2. "prepass" \notin {Same, "nothing"}
    BY DEF Same
  <2>3. r = Apply(Now, DepthPrePassAttachments("depth", "output", "prepass"))
    BY <1>3
  <2> QED BY ONLY <2>1, <2>2, <2>3, PrePassDoes
<1>5. GoodUses(r, {"depth", "output"})
  BY <1>4, NowIsGood
<1>6. /\ \A u \in uses' : Sound(u)' /\ (u.image = "output" => waited')
      /\ used' \ {"noise"} \subseteq kept'
      /\ submitted'.used \ {"noise"} \subseteq submitted'.kept
  BY <1>1, <1>2, <1>5, SubmitDoes
<1>7. /\ data'["accel_depth"] = data["accel_depth"]
      /\ data'["accel_table"] = data["accel_table"]
      /\ \A k \in {"noise", "accel_depth", "accel_table"} : layout'[k] = layout[k]
  BY <1>1, <1>4, NowIsGood DEF Images
<1>8. PassTypes'
  BY <1>2 DEF PassInv, PassTypes, Ssdo
<1>9. AccelInv'
  BY <1>2, <1>7 DEF PassInv, AccelInv, Early, Idle, Drawn
<1>13. PlacesInv'
  BY <1>2, <1>7 DEF PassInv, PlacesInv, Early, Idle
<1>10. SsdoInv'
  <2>1. pc' = "sample" => flags.lighting
    BY <1>2
  <2>2. pc' = "lighting" => ~flags.lighting
    BY <1>2
  <2>3. pc' \in {"sample", "lighting"}
    BY <1>2
  <2>4. layout'["depth"] = DepthAttachment /\ data'["depth"] = Drawn("prepass")'
    BY <1>1, <1>2, <1>4 DEF Drawn
  <2> QED BY <1>2, <2>1, <2>2, <2>3, <2>4 DEF SsdoInv, Ssdo, Shows
<1>11. TableInv'
  <2>1. AccelWidth' = AccelWidth /\ AccelHeight' = AccelHeight
    BY <1>2 DEF AccelWidth, AccelHeight
  <2> QED BY <1>2, <2>1 DEF PassInv, TableInv, Packed, Early, Idle
<1>12. OutputInv' /\ UsesInv' /\ KeptInv'
  BY <1>1, <1>2, <1>6 DEF OutputInv, UsesInv, KeptInv, Ssdo, Shows
<1> QED BY <1>8, <1>9, <1>10, <1>11, <1>12, <1>13 DEF PassInv

LEMMA SsdoSampleInv ==
  ASSUME PassInv, SsdoSample
  PROVE  PassInv'
<1> PICK c, d, e : /\ c = Transition("depth", DepthAttachment, ShaderReadOnly)
                   /\ d = SsdoPass("illum1", "depth", "sample")
                   /\ e = Transition("depth", ShaderReadOnly, DepthAttachment)
  OBVIOUS
<1> PICK r : r = Recorded(<<c, d, e>>)
  OBVIOUS
<1>1. /\ layout' = r.layout /\ data' = r.data /\ uses' = r.uses /\ submitted' = submitted
      /\ used' = used \cup {u.image : u \in r.uses}
      /\ kept' = kept \cup {"depth", "illum1", "illum2", "accel_table"}
  BY SsdoPassIs DEF SsdoSample, Record, Execute, UsedWith, Transition
<1>2. /\ pc = "sample" /\ pc' = "filter_1" /\ frame' = frame /\ flags' = flags
      /\ size' = size /\ extent' = extent /\ waited' = waited
  BY DEF SsdoSample
<1> PICK g : g = Apply(Now, c)
  OBVIOUS
<1> PICK h : h = Apply(g, d)
  OBVIOUS
<1>3. r = Apply(h, e)
  BY RecordedThree
<1>4. /\ layout["depth"] = DepthAttachment /\ data["depth"] = Drawn("prepass")
      /\ layout["noise"] = ShaderReadOnly /\ layout["accel_depth"] = DepthAttachment
      /\ layout["accel_table"] = General
      /\ data["accel_depth"] = Drawn("accel_prepass")
      /\ data["accel_table"] \in {Drawn("table"), Drawn("null_table")}
      /\ flags.lighting /\ waited
  BY <1>2 DEF PassInv, SsdoInv, AccelInv, PlacesInv, UsesInv, Idle, Early, Ssdo
<1>5. {"depth", "illum1", "accel_table", "accel_depth", "noise"} \subseteq Images
  BY DEF Images
<1>6. /\ ShaderReadOnly # Undefined /\ DepthAttachment # Undefined
      /\ "sample" \notin {Same, "nothing"} /\ ShaderReadOnly # Same /\ DepthAttachment # Same
  BY DEF ShaderReadOnly, DepthAttachment, Undefined, Same
<1>7. /\ g.layout["depth"] = ShaderReadOnly /\ g.data["depth"] = Drawn("prepass")
      /\ g.layout["noise"] = ShaderReadOnly /\ g.layout["accel_depth"] = DepthAttachment
      /\ g.layout["accel_table"] = General
      /\ g.data["accel_depth"] = data["accel_depth"] /\ g.data["accel_table"] = data["accel_table"]
      /\ \A X : GoodUses(Now, X) /\ "depth" \in X => GoodUses(g, X)
  <2>1. g = Apply(Now, Transition("depth", DepthAttachment, ShaderReadOnly))
    OBVIOUS
  <2>2. Now.layout["depth"] = DepthAttachment
    BY <1>4, NowIsGood
  <2>3. /\ g.layout["depth"] = ShaderReadOnly /\ g.data["depth"] = Now.data["depth"]
        /\ \A k \in Images \ {"depth"} : g.layout[k] = Now.layout[k] /\ g.data[k] = Now.data[k]
        /\ \A X : GoodUses(Now, X) /\ "depth" \in X => GoodUses(g, X)
    BY ONLY <1>5, <1>6, <2>1, <2>2, BarrierDoes
  <2> QED BY <1>4, <1>5, <2>3, NowIsGood
<1>8. /\ h.layout["illum1"] = ShaderReadOnly /\ h.data["illum1"] = Drawn("sample")
      /\ h.data["accel_table"] = g.data["accel_table"]
      /\ h.data["accel_depth"] = g.data["accel_depth"]
      /\ \A k \in Images : k # "illum1" => h.layout[k] = g.layout[k]
      /\ \A X : /\ GoodUses(g, X) /\ "depth" \in X /\ "illum1" \in X
               /\ "accel_table" \in X /\ "noise" \in X
               => GoodUses(h, X)
  <2>1. h = Apply(g, SsdoPass("illum1", "depth", "sample"))
    OBVIOUS
  <2>2. OnlyWith("sample", "prepass", "depth")
    BY ProducersAre DEF OnlyWith
  <2>3. /\ "depth" \in Images /\ "illum1" \in Images /\ "accel_depth" \in Images
        /\ "depth" # "illum1"
        /\ "depth" \notin {"accel_table", "noise"} /\ "illum1" \notin {"accel_table", "noise"}
        /\ "accel_depth" \notin {"depth", "illum1", "accel_table", "noise"}
        /\ g.data["accel_table"] \in {Drawn("table"), Drawn("null_table")}
    BY <1>4, <1>5, <1>7
  <2>4. /\ h.layout["illum1"] = ShaderReadOnly /\ h.data["illum1"] = Drawn("sample")
        /\ h.data["accel_table"] = g.data["accel_table"]
        /\ h.data["accel_depth"] = g.data["accel_depth"]
        /\ \A k \in Images : k # "illum1" => h.layout[k] = g.layout[k]
    BY ONLY <1>6, <2>1, <2>3, SsdoPassGives
  <2>5. \A X : /\ GoodUses(g, X) /\ "depth" \in X /\ "illum1" \in X
              /\ "accel_table" \in X /\ "noise" \in X
              => GoodUses(h, X)
    BY ONLY <1>6, <1>7, <2>1, <2>2, <2>3, SsdoPassIsGood
  <2> QED BY ONLY <2>4, <2>5
<1>9. /\ r.layout["illum1"] = ShaderReadOnly /\ r.data["illum1"] = Drawn("sample")
      /\ r.data["accel_table"] = g.data["accel_table"]
      /\ r.data["accel_depth"] = g.data["accel_depth"]
      /\ \A k \in {"noise", "accel_depth", "accel_table"} : r.layout[k] = g.layout[k]
      /\ \A X : GoodUses(h, X) /\ "depth" \in X => GoodUses(r, X)
  <2>1. r = Apply(h, Transition("depth", ShaderReadOnly, DepthAttachment))
    BY <1>3
  <2>2. /\ \A k \in Images \ {"depth"} : r.layout[k] = h.layout[k] /\ r.data[k] = h.data[k]
        /\ \A X : GoodUses(h, X) /\ "depth" \in X => GoodUses(r, X)
    <3>1. h.layout["depth"] = ShaderReadOnly
      BY <1>5, <1>7, <1>8
    <3> QED BY ONLY <1>5, <1>6, <2>1, <3>1, BarrierDoes
  <2> QED BY <1>5, <1>8, <2>2
<1>10. GoodUses(r, {"depth", "illum1", "accel_table", "noise"})
  BY <1>7, <1>8, <1>9, NowIsGood
<1>11. /\ \A u \in uses' : Sound(u)' /\ (u.image = "output" => waited')
       /\ used' \ {"noise"} \subseteq kept'
       /\ submitted'.used \ {"noise"} \subseteq submitted'.kept
  <2>1. kept \subseteq kept'
    BY <1>1
  <2>2. {"depth", "illum1", "accel_table", "noise"} \ {"noise"} \subseteq kept'
    BY <1>1
  <2> QED BY <1>1, <1>2, <1>10, <2>1, <2>2, RecordDoes
<1>12. PassTypes'
  BY <1>2 DEF PassInv, PassTypes, Ssdo
<1>13. AccelInv'
  BY <1>1, <1>2, <1>4, <1>7, <1>9 DEF AccelInv, Drawn
<1>14. SsdoInv'
  BY <1>1, <1>2, <1>4, <1>9 DEF SsdoInv, Ssdo, Shows, Drawn
<1>17. PlacesInv'
  BY <1>1, <1>2, <1>7, <1>9 DEF PlacesInv
<1>15. TableInv'
  <2>1. AccelWidth' = AccelWidth /\ AccelHeight' = AccelHeight
    BY <1>2 DEF AccelWidth, AccelHeight
  <2> QED BY <1>2, <2>1 DEF PassInv, TableInv, Packed, Early, Idle
<1>16. OutputInv' /\ UsesInv' /\ KeptInv'
  BY <1>1, <1>2, <1>4, <1>11 DEF OutputInv, UsesInv, KeptInv, Shows
<1> QED BY <1>12, <1>13, <1>14, <1>15, <1>16, <1>17 DEF PassInv

LEMMA FilterPass1Inv ==
  ASSUME PassInv, FilterPass1
  PROVE  PassInv'
<1> PICK c, d : /\ c = SsdoPass("illum2", "illum1", "filter_1")
                /\ d = Transition("illum1", ShaderReadOnly, ColorAttachment)
  OBVIOUS
<1> PICK r : r = Recorded(<<c, d>>)
  OBVIOUS
<1>1. /\ layout' = r.layout /\ data' = r.data /\ uses' = r.uses
      /\ used' = used \cup {u.image : u \in r.uses} /\ submitted' = submitted
      /\ kept' = kept \cup {"illum1"}
  BY SsdoPassIs DEF FilterPass1, Record, Execute, UsedWith, Transition
<1>2. /\ pc = "filter_1" /\ pc' = "filter_2" /\ frame' = frame /\ flags' = flags
      /\ size' = size /\ extent' = extent /\ waited' = waited
  BY DEF FilterPass1
<1> PICK g : g = Apply(Now, c)
  OBVIOUS
<1>3. r = Apply(g, d)
  BY RecordedTwo
<1>4. /\ layout["illum1"] = ShaderReadOnly /\ data["illum1"] = Drawn("sample")
      /\ data["accel_depth"] = Drawn("accel_prepass")
      /\ data["accel_table"] \in {Drawn("table"), Drawn("null_table")}
      /\ {"depth", "illum1", "illum2", "accel_table"} \subseteq kept
      /\ layout["noise"] = ShaderReadOnly /\ layout["accel_depth"] = DepthAttachment
      /\ layout["accel_table"] = General
      /\ flags.lighting /\ waited
  BY <1>2 DEF PassInv, SsdoInv, AccelInv, PlacesInv, UsesInv, KeptInv, Idle, Early, Ssdo
<1>5. {"illum1", "illum2", "accel_table", "accel_depth", "noise"} \subseteq Images
      /\ ColorAttachment # Same
  BY LayoutsAreNotSame DEF Images
<1>6. ShaderReadOnly # Undefined /\ "filter_1" \notin {Same, "nothing"}
  BY DEF ShaderReadOnly, Undefined, Same
<1>7. /\ g.layout["illum2"] = ShaderReadOnly /\ g.data["illum2"] = Drawn("filter_1")
      /\ g.data["accel_table"] = data["accel_table"]
      /\ \A k \in Images : k # "illum2" => g.layout[k] = layout[k]
      /\ g.data["accel_depth"] = data["accel_depth"]
  <2>1. g = Apply(Now, SsdoPass("illum2", "illum1", "filter_1"))
    OBVIOUS
  <2>2. /\ "illum1" \in Images /\ "illum2" \in Images /\ "accel_depth" \in Images
        /\ "illum1" # "illum2" /\ "accel_depth" \notin {"illum1", "illum2", "accel_table", "noise"}
        /\ "illum1" \notin {"accel_table", "noise"} /\ "illum2" \notin {"accel_table", "noise"}
    BY <1>5
  <2>3. /\ g.layout["illum2"] = ShaderReadOnly /\ g.data["illum2"] = Drawn("filter_1")
        /\ g.data["accel_table"] = Now.data["accel_table"]
        /\ \A k \in Images : k # "illum2" => g.layout[k] = Now.layout[k]
        /\ g.data["accel_depth"] = Now.data["accel_depth"]
    BY ONLY <1>6, <2>1, <2>2, SsdoPassGives
  <2> QED BY <2>3, NowIsGood
<1>8. GoodUses(g, {"illum1", "illum2", "accel_table", "noise"})
  <2>1. g = Apply(Now, SsdoPass("illum2", "illum1", "filter_1"))
    OBVIOUS
  <2>2. /\ "illum1" \in Images /\ "illum2" \in Images /\ "illum1" # "illum2"
        /\ "illum1" \notin {"accel_table", "noise"} /\ "illum2" \notin {"accel_table", "noise"}
    BY <1>5
  <2>3. OnlyWith("filter_1", "sample", "illum1")
    BY ProducersAre DEF OnlyWith
  <2>4. /\ Now.layout["illum1"] = ShaderReadOnly /\ Now.data["illum1"] = Drawn("sample")
        /\ Now.data["accel_table"] \in {Drawn("table"), Drawn("null_table")}
        /\ Now.layout["accel_table"] = General /\ Now.layout["noise"] = ShaderReadOnly
    BY <1>4, NowIsGood
  <2>5. \A X : /\ GoodUses(Now, X) /\ "illum1" \in X /\ "illum2" \in X
              /\ "accel_table" \in X /\ "noise" \in X
              => GoodUses(g, X)
    BY ONLY <1>6, <2>1, <2>2, <2>3, <2>4, SsdoPassIsGood
  <2> QED BY <2>5, NowIsGood
<1>9. /\ \A k \in Images \ {"illum1"} : r.layout[k] = g.layout[k] /\ r.data[k] = g.data[k]
      /\ \A X : GoodUses(g, X) /\ "illum1" \in X => GoodUses(r, X)
  <2>1. r = Apply(g, Transition("illum1", ShaderReadOnly, ColorAttachment))
    BY <1>3
  <2>2. "illum1" \in Images /\ g.layout["illum1"] = ShaderReadOnly /\ ColorAttachment # Same
    BY <1>4, <1>5, <1>7
  <2> QED BY ONLY <2>1, <2>2, BarrierDoes
<1>10. GoodUses(r, {"illum1", "illum2", "accel_table", "noise"})
  BY <1>8, <1>9
<1>11. /\ \A u \in uses' : Sound(u)' /\ (u.image = "output" => waited')
       /\ used' \ {"noise"} \subseteq kept'
       /\ submitted'.used \ {"noise"} \subseteq submitted'.kept
  <2>1. kept \subseteq kept' /\ {"illum1", "illum2", "accel_table", "noise"} \ {"noise"} \subseteq kept'
    BY <1>1, <1>4
  <2> QED BY <1>1, <1>2, <1>10, <2>1, RecordDoes
<1>12. /\ layout'["illum2"] = ShaderReadOnly /\ data'["illum2"] = Drawn("filter_1")
       /\ data'["accel_depth"] = data["accel_depth"]
       /\ data'["accel_table"] = data["accel_table"]
       /\ \A k \in {"noise", "accel_depth", "accel_table"} : layout'[k] = layout[k]
  BY <1>1, <1>5, <1>7, <1>9
<1>13. PassTypes'
  BY <1>2 DEF PassInv, PassTypes, Ssdo
<1>14. AccelInv'
  BY <1>2, <1>4, <1>12 DEF AccelInv, Drawn
<1>15. SsdoInv'
  BY <1>2, <1>4, <1>12 DEF SsdoInv, Ssdo, Shows, Drawn
<1>18. PlacesInv'
  BY <1>2, <1>4, <1>12 DEF PlacesInv
<1>16. TableInv'
  <2>1. AccelWidth' = AccelWidth /\ AccelHeight' = AccelHeight
    BY <1>2 DEF AccelWidth, AccelHeight
  <2> QED BY <1>2, <2>1 DEF PassInv, TableInv, Packed, Early, Idle
<1>17. OutputInv' /\ UsesInv' /\ KeptInv'
  BY <1>1, <1>2, <1>4, <1>11 DEF OutputInv, UsesInv, KeptInv, Shows
<1> QED BY <1>13, <1>14, <1>15, <1>16, <1>17, <1>18 DEF PassInv

LEMMA FilterPass2Inv ==
  ASSUME PassInv, FilterPass2
  PROVE  PassInv'
<1> PICK c, d : /\ c = SsdoPass("illum1", "illum2", "filter_2")
                /\ d = Transition("illum2", ShaderReadOnly, ColorAttachment)
  OBVIOUS
<1> PICK r : r = Recorded(<<c, d>>)
  OBVIOUS
<1>1. /\ layout' = r.layout /\ data' = r.data /\ uses' = r.uses
      /\ used' = {} /\ kept' = {}
      /\ submitted' = [used |-> used \cup {u.image : u \in r.uses},
                       kept |-> kept \cup {"illum2"}]
  BY SsdoPassIs DEF FilterPass2, RecordAndSubmit, Execute, UsedWith, Transition
<1>2. /\ pc = "filter_2" /\ pc' = "lighting" /\ frame' = frame /\ flags' = flags
      /\ size' = size /\ extent' = extent /\ waited' = waited
  BY DEF FilterPass2
<1> PICK g : g = Apply(Now, c)
  OBVIOUS
<1>3. r = Apply(g, d)
  BY RecordedTwo
<1>4. /\ layout["illum2"] = ShaderReadOnly /\ data["illum2"] = Drawn("filter_1")
      /\ data["accel_depth"] = Drawn("accel_prepass")
      /\ data["accel_table"] \in {Drawn("table"), Drawn("null_table")}
      /\ {"depth", "illum1", "illum2", "accel_table"} \subseteq kept
      /\ layout["noise"] = ShaderReadOnly /\ layout["accel_depth"] = DepthAttachment
      /\ layout["accel_table"] = General
      /\ flags.lighting /\ waited
  BY <1>2 DEF PassInv, SsdoInv, AccelInv, PlacesInv, UsesInv, KeptInv, Idle, Early, Ssdo
<1>5. {"illum1", "illum2", "accel_table", "accel_depth", "noise"} \subseteq Images
      /\ ColorAttachment # Same
  BY LayoutsAreNotSame DEF Images
<1>6. ShaderReadOnly # Undefined /\ "filter_2" \notin {Same, "nothing"}
  BY DEF ShaderReadOnly, Undefined, Same
<1>7. /\ g.layout["illum1"] = ShaderReadOnly /\ g.data["illum1"] = Drawn("filter_2")
      /\ g.data["accel_table"] = data["accel_table"]
      /\ \A k \in Images : k # "illum1" => g.layout[k] = layout[k]
      /\ g.data["accel_depth"] = data["accel_depth"]
  <2>1. g = Apply(Now, SsdoPass("illum1", "illum2", "filter_2"))
    OBVIOUS
  <2>2. /\ "illum2" \in Images /\ "illum1" \in Images /\ "accel_depth" \in Images
        /\ "illum2" # "illum1" /\ "accel_depth" \notin {"illum2", "illum1", "accel_table", "noise"}
        /\ "illum2" \notin {"accel_table", "noise"} /\ "illum1" \notin {"accel_table", "noise"}
    BY <1>5
  <2>3. /\ g.layout["illum1"] = ShaderReadOnly /\ g.data["illum1"] = Drawn("filter_2")
        /\ g.data["accel_table"] = Now.data["accel_table"]
        /\ \A k \in Images : k # "illum1" => g.layout[k] = Now.layout[k]
        /\ g.data["accel_depth"] = Now.data["accel_depth"]
    BY ONLY <1>6, <2>1, <2>2, SsdoPassGives
  <2> QED BY <2>3, NowIsGood
<1>8. GoodUses(g, {"illum1", "illum2", "accel_table", "noise"})
  <2>1. g = Apply(Now, SsdoPass("illum1", "illum2", "filter_2"))
    OBVIOUS
  <2>2. /\ "illum2" \in Images /\ "illum1" \in Images /\ "illum2" # "illum1"
        /\ "illum2" \notin {"accel_table", "noise"} /\ "illum1" \notin {"accel_table", "noise"}
    BY <1>5
  <2>3. OnlyWith("filter_2", "filter_1", "illum2")
    BY ProducersAre DEF OnlyWith
  <2>4. /\ Now.layout["illum2"] = ShaderReadOnly /\ Now.data["illum2"] = Drawn("filter_1")
        /\ Now.data["accel_table"] \in {Drawn("table"), Drawn("null_table")}
        /\ Now.layout["accel_table"] = General /\ Now.layout["noise"] = ShaderReadOnly
    BY <1>4, NowIsGood
  <2>5. \A X : /\ GoodUses(Now, X) /\ "illum2" \in X /\ "illum1" \in X
              /\ "accel_table" \in X /\ "noise" \in X
              => GoodUses(g, X)
    BY ONLY <1>6, <2>1, <2>2, <2>3, <2>4, SsdoPassIsGood
  <2> QED BY <2>5, NowIsGood
<1>9. /\ \A k \in Images \ {"illum2"} : r.layout[k] = g.layout[k] /\ r.data[k] = g.data[k]
      /\ \A X : GoodUses(g, X) /\ "illum2" \in X => GoodUses(r, X)
  <2>1. r = Apply(g, Transition("illum2", ShaderReadOnly, ColorAttachment))
    BY <1>3
  <2>2. "illum2" \in Images /\ g.layout["illum2"] = ShaderReadOnly /\ ColorAttachment # Same
    BY <1>4, <1>5, <1>7
  <2> QED BY ONLY <2>1, <2>2, BarrierDoes
<1>10. GoodUses(r, {"illum1", "illum2", "accel_table", "noise"})
  BY <1>8, <1>9
<1>11. /\ \A u \in uses' : Sound(u)' /\ (u.image = "output" => waited')
       /\ used' \ {"noise"} \subseteq kept'
       /\ submitted'.used \ {"noise"} \subseteq submitted'.kept
  <2>1. PICK k : k = kept \cup {"illum2"}
    OBVIOUS
  <2>2. kept \subseteq k /\ {"illum1", "illum2", "accel_table", "noise"} \ {"noise"} \subseteq k
    BY <1>4, <2>1
  <2> QED BY <1>1, <1>2, <1>10, <2>1, <2>2, SubmitDoes
<1>12. /\ layout'["illum1"] = ShaderReadOnly /\ data'["illum1"] = Drawn("filter_2")
       /\ data'["accel_depth"] = data["accel_depth"]
       /\ data'["accel_table"] = data["accel_table"]
       /\ \A k \in {"noise", "accel_depth", "accel_table"} : layout'[k] = layout[k]
  BY <1>1, <1>5, <1>7, <1>9
<1>13. PassTypes'
  BY <1>2 DEF PassInv, PassTypes, Ssdo
<1>14. AccelInv'
  BY <1>2, <1>4, <1>12 DEF AccelInv, Drawn
<1>15. SsdoInv'
  BY <1>2, <1>4, <1>12 DEF SsdoInv, Ssdo, Shows, Drawn
<1>18. PlacesInv'
  BY <1>2, <1>4, <1>12 DEF PlacesInv
<1>16. TableInv'
  <2>1. AccelWidth' = AccelWidth /\ AccelHeight' = AccelHeight
    BY <1>2 DEF AccelWidth, AccelHeight
  <2> QED BY <1>2, <2>1 DEF PassInv, TableInv, Packed, Early, Idle
<1>17. OutputInv' /\ UsesInv' /\ KeptInv'
  BY <1>1, <1>2, <1>4, <1>11 DEF OutputInv, UsesInv, KeptInv, Shows
<1> QED BY <1>13, <1>14, <1>15, <1>16, <1>17, <1>18 DEF PassInv

LEMMA LightingPassInv ==
  ASSUME PassInv, LightingPass
  PROVE  PassInv'
<1> PICK lit : lit = flags.lighting
  OBVIOUS
<1> PICK c : c = LightingCommand(lit)
  OBVIOUS
<1> PICK r : r = Recorded(<<c>>)
  OBVIOUS
<1>1. /\ layout' = r.layout /\ data' = r.data /\ uses' = r.uses /\ submitted' = submitted
      /\ used' = used \cup {u.image : u \in r.uses}
      /\ kept' = kept \cup ({"output", "depth"} \cup IF lit THEN {"illum1"} ELSE {})
  BY DEF LightingPass, Record, Execute, UsedWith, LightingCommand
<1>2. /\ pc = "lighting" /\ pc' = (IF flags.debug THEN "show_depth" ELSE "finish")
      /\ frame' = frame /\ flags' = flags /\ size' = size /\ extent' = extent /\ waited' = waited
  BY DEF LightingPass
<1>3. r = Apply(Now, LightingCommand(lit))
  BY RecordedOne
<1>4. /\ data["accel_depth"] = Drawn("accel_prepass")
      /\ data["accel_table"] \in {Drawn("table"), Drawn("null_table")} /\ waited
      /\ lit => layout["illum1"] = ShaderReadOnly /\ data["illum1"] = Drawn("filter_2")
      /\ layout["noise"] = ShaderReadOnly /\ layout["accel_depth"] = DepthAttachment
      /\ layout["accel_table"] = General
  BY <1>2 DEF PassInv, SsdoInv, AccelInv, PlacesInv, UsesInv, Idle, Early, Ssdo
<1>5. /\ r.layout["output"] = ColorAttachment /\ r.data["output"] = Drawn("lighting")
      /\ lit => r.layout["illum1"] = ShaderReadOnly /\ r.data["illum1"] = Drawn("filter_2")
      /\ r.data["accel_depth"] = data["accel_depth"] /\ r.data["accel_table"] = data["accel_table"]
      /\ \A k \in {"noise", "accel_depth", "accel_table"} : r.layout[k] = layout[k]
  <2>1. lit => Now.layout["illum1"] = ShaderReadOnly /\ Now.data["illum1"] = Drawn("filter_2")
    BY <1>4, NowIsGood
  <2>2. "accel_depth" \in Images /\ "accel_table" \in Images /\ "noise" \in Images
    BY DEF Images
  <2>3. /\ r.layout["output"] = ColorAttachment /\ r.data["output"] = Drawn("lighting")
        /\ lit => r.layout["illum1"] = ShaderReadOnly /\ r.data["illum1"] = Drawn("filter_2")
        /\ r.data["accel_depth"] = Now.data["accel_depth"]
        /\ r.data["accel_table"] = Now.data["accel_table"]
        /\ \A k \in {"noise", "accel_depth", "accel_table"} : r.layout[k] = Now.layout[k]
    BY ONLY <1>3, <2>1, <2>2, LightingGives
  <2> QED BY <2>3, NowIsGood
<1> PICK X : X = {"output", "depth"} \cup IF lit THEN {"illum1"} ELSE {}
  OBVIOUS
<1>6. GoodUses(r, X)
  <2>1. lit => Now.layout["illum1"] = ShaderReadOnly /\ Now.data["illum1"] = Drawn("filter_2")
    BY <1>4, NowIsGood
  <2>2. /\ GoodUses(Now, X) /\ "output" \in X /\ "depth" \in X /\ (lit => "illum1" \in X)
    BY NowIsGood
  <2> QED BY ONLY <1>3, <2>1, <2>2, LightingIsGood
<1>7. /\ \A u \in uses' : Sound(u)' /\ (u.image = "output" => waited')
      /\ used' \ {"noise"} \subseteq kept'
      /\ submitted'.used \ {"noise"} \subseteq submitted'.kept
  <2>1. kept \subseteq kept' /\ X \ {"noise"} \subseteq kept'
    BY <1>1
  <2> QED BY <1>1, <1>2, <1>4, <1>6, <2>1, RecordDoes
<1>8. PassTypes'
  BY <1>2 DEF PassInv, PassTypes, Shows
<1>9. pc' \in {"show_depth", "finish"}
  BY <1>2
<1>10. AccelInv'
  BY <1>1, <1>2, <1>4, <1>5 DEF AccelInv, Drawn
<1>15. PlacesInv'
  BY <1>1, <1>2, <1>4, <1>5 DEF PlacesInv
<1>11. SsdoInv'
  BY <1>1, <1>2, <1>5, <1>9 DEF SsdoInv, Ssdo, Shows, Drawn
<1>12. TableInv'
  <2>1. AccelWidth' = AccelWidth /\ AccelHeight' = AccelHeight
    BY <1>2 DEF AccelWidth, AccelHeight
  <2> QED BY <1>2, <2>1 DEF PassInv, TableInv, Packed, Early, Idle
<1>13. OutputInv'
  BY <1>1, <1>2, <1>5, <1>9 DEF OutputInv, Drawn
<1>14. UsesInv' /\ KeptInv'
  BY <1>1, <1>2, <1>4, <1>7, <1>9 DEF UsesInv, KeptInv, Shows
<1> QED BY <1>8, <1>10, <1>11, <1>12, <1>13, <1>14, <1>15 DEF PassInv

LEMMA ShowAccelDepthInv ==
  ASSUME PassInv, ShowAccelDepth
  PROVE  PassInv'
<1> PICK c, d, e : /\ c = Transition("depth_as_color", Undefined, General)
                   /\ d = Dispatch(Sampled("accel_depth"), "depth_as_color", "convert")
                   /\ e = Blit("depth_as_color", ShaderReadOnly)
  OBVIOUS
<1> PICK r : r = Recorded(<<c, d, e>>)
  OBVIOUS
<1>1. /\ layout' = r.layout /\ data' = r.data /\ uses' = r.uses /\ submitted' = submitted
      /\ used' = used \cup {u.image : u \in r.uses} /\ kept' = kept \cup {"accel_depth", "depth_as_color"}
  BY DEF ShowAccelDepth, Record, Execute, UsedWith, Transition, Blit
<1>2. /\ pc = "show_depth" /\ pc' = "show_table"
      /\ frame' = frame /\ flags' = flags /\ size' = size /\ waited' = waited
      /\ extent' = [extent EXCEPT !.as_color = <<AccelWidth, AccelWidth>>]
  BY DEF ShowAccelDepth
<1> PICK g : g = Apply(Now, c)
  OBVIOUS
<1> PICK h : h = Apply(g, d)
  OBVIOUS
<1>3. r = Apply(h, e)
  BY RecordedThree
<1>4. /\ data["accel_depth"] = Drawn("accel_prepass")
      /\ data["accel_table"] \in {Drawn("table"), Drawn("null_table")} /\ waited
      /\ layout["output"] = ColorAttachment /\ data["output"] = Drawn("lighting")
      /\ "output" \in kept
      /\ flags.lighting => /\ layout["illum1"] = ShaderReadOnly
                           /\ data["illum1"] = Drawn("filter_2") /\ "illum1" \in kept
      /\ layout["noise"] = ShaderReadOnly /\ layout["accel_depth"] = DepthAttachment
      /\ layout["accel_table"] = General
  BY <1>2 DEF PassInv, SsdoInv, AccelInv, PlacesInv, OutputInv, UsesInv, KeptInv, Idle, Early, Ssdo, Shows
<1>5. /\ {"depth_as_color", "accel_depth", "accel_table", "illum1", "output", "noise"} \subseteq Images
      /\ General # Same
  BY LayoutsAreNotSame DEF Images
<1>6. "convert" \notin {Same, "nothing"}
  BY DEF Same
<1>7. /\ \A k \in Images \ {"depth_as_color"} : g.layout[k] = layout[k] /\ g.data[k] = data[k]
      /\ g.layout["depth_as_color"] = General
      /\ GoodUses(g, {"accel_depth", "depth_as_color", "output"})
  <2>1. g = Apply(Now, Transition("depth_as_color", Undefined, General))
    OBVIOUS
  <2>2. "depth_as_color" \in Images /\ General # Same
    BY <1>5
  <2>3. /\ \A k \in Images \ {"depth_as_color"} : g.layout[k] = Now.layout[k] /\ g.data[k] = Now.data[k]
        /\ g.layout["depth_as_color"] = General
        /\ \A X : GoodUses(Now, X) /\ "depth_as_color" \in X => GoodUses(g, X)
    BY ONLY <2>1, <2>2, BarrierDoes
  <2> QED BY <2>3, NowIsGood
<1>8. /\ h.data["depth_as_color"] = Drawn("convert") /\ h.data["accel_depth"] = g.data["accel_depth"]
      /\ \A k \in Images : h.layout[k] = g.layout[k]
      /\ \A k \in Images : k # "accel_depth" /\ k # "depth_as_color" => h.data[k] = g.data[k]
  <2>1. PICK i, j, p : i = "accel_depth" /\ j = "depth_as_color" /\ p = "convert"
    OBVIOUS
  <2>2. PICK a : a = Sampled(i)
    OBVIOUS
  <2>3. /\ h = Apply(g, Dispatch(a, j, p)) /\ Reading(a, i) /\ i \in Images /\ j \in Images
        /\ i # j /\ p \notin {Same, "nothing"}
    BY <1>5, <1>6, <2>1, <2>2 DEF Reading
  <2>4. /\ h.data[i] = g.data[i] /\ h.data[j] = Drawn(p)
        /\ \A k \in Images : h.layout[k] = g.layout[k]
        /\ \A k \in Images : k # i /\ k # j => h.data[k] = g.data[k]
    <3>1. Dispatched(g, h, i, j, p)
      BY ONLY <2>3, DispatchGives
    <3> QED BY ONLY <3>1 DEF Dispatched
  <2> QED BY <2>1, <2>4
<1>9. GoodUses(h, {"accel_depth", "depth_as_color", "output"})
  <2>1. h = Apply(g, Dispatch(Sampled("accel_depth"), "depth_as_color", "convert"))
    OBVIOUS
  <2>2. /\ Reading(Sampled("accel_depth"), "accel_depth") /\ g.layout["depth_as_color"] = General
        /\ AsDeclared("accel_depth", Sampled("accel_depth").needs, g.layout["accel_depth"])
    BY <1>4, <1>5, <1>7, DeclaredIs DEF Reading, Sampled
  <2>3. PICK from : from \in {"accel_prepass"} /\ g.data["accel_depth"] = Drawn(from)
    BY <1>4, <1>5, <1>7
  <2>4. Only(from, "accel_depth")
    BY <2>3, ProducersAre DEF Only
  <2>5. PICK X : X = {"accel_depth", "depth_as_color", "output"}
    OBVIOUS
  <2>6. GoodUses(g, X) /\ "accel_depth" \in X /\ "depth_as_color" \in X
    BY <1>7, <2>5
  <2>7. GoodUses(h, X)
    BY ONLY <2>1, <2>2, <2>3, <2>4, <2>6, DispatchIsGood
  <2> QED BY <2>5, <2>7
<1>10. \A k \in Images : r.data[k] = h.data[k] /\ r.layout[k] = h.layout[k]
  <2>1. r = Apply(h, Blit("depth_as_color", ShaderReadOnly))
    BY <1>3
  <2>2. "depth_as_color" \in Images /\ "depth_as_color" # "output"
    BY <1>5
  <2> QED BY ONLY <2>1, <2>2, BlitGives
<1>11. GoodUses(r, {"accel_depth", "depth_as_color", "output"})
  <2>1. r = Apply(h, Blit("depth_as_color", ShaderReadOnly))
    BY <1>3
  <2>2. OnlyWithNone("convert", "depth_as_color")
    BY ProducersAre DEF OnlyWithNone
  <2>3. /\ h.data["depth_as_color"] = Drawn("convert") 
        /\ AsDeclared("depth_as_color", ShaderReadOnly, h.layout["depth_as_color"])
        /\ h.layout["output"] = ColorAttachment /\ h.data["output"] = Drawn("lighting")
    BY <1>4, <1>5, <1>7, <1>8, DeclaredIs
  <2>4. PICK X : X = {"accel_depth", "depth_as_color", "output"}
    OBVIOUS
  <2>5. GoodUses(h, X) /\ "depth_as_color" \in X /\ "output" \in X
    BY <1>9, <2>4
  <2>6. GoodUses(r, X)
    BY ONLY <2>1, <2>2, <2>3, <2>5, BlitIsGood
  <2> QED BY <2>4, <2>6
<1>12. /\ \A u \in uses' : Sound(u)' /\ (u.image = "output" => waited')
       /\ used' \ {"noise"} \subseteq kept'
       /\ submitted'.used \ {"noise"} \subseteq submitted'.kept
  <2>1. kept \subseteq kept' /\ {"accel_depth", "depth_as_color", "output"} \ {"noise"} \subseteq kept'
    BY <1>1, <1>4
  <2> QED BY <1>1, <1>2, <1>4, <1>11, <2>1, RecordDoes
<1>13. /\ data'["accel_depth"] = data["accel_depth"] /\ data'["accel_table"] = data["accel_table"]
       /\ data'["output"] = Drawn("lighting") /\ layout'["output"] = ColorAttachment
       /\ data'["illum1"] = data["illum1"] /\ layout'["illum1"] = layout["illum1"]
       /\ \A k \in {"noise", "accel_depth", "accel_table"} : layout'[k] = layout[k]
  BY <1>1, <1>4, <1>5, <1>7, <1>8, <1>10
<1>14. pc' \in {"show_table"} /\ pc' # "idle"
  BY <1>2
<1>15. PassTypes'
  <2>1. DOMAIN extent' = DOMAIN extent
    BY <1>2
  <2> QED BY <1>2, <1>14, <2>1 DEF PassInv, PassTypes, Shows
<1>16. AccelInv'
  BY <1>2, <1>4, <1>13 DEF AccelInv, Drawn
<1>21. PlacesInv'
  BY <1>2, <1>4, <1>13 DEF PlacesInv
<1>17. SsdoInv'
  BY <1>2, <1>4, <1>13, <1>14 DEF SsdoInv, Ssdo, Shows, Drawn
<1>18. TableInv'
  <2>1. AccelWidth' = AccelWidth /\ AccelHeight' = AccelHeight
    BY <1>2 DEF AccelWidth, AccelHeight
  <2>2. extent'.table = extent.table
    BY <1>2 DEF PassInv, PassTypes
  <2> QED BY <1>2, <2>1, <2>2 DEF PassInv, TableInv, Packed, Early, Idle
<1>19. OutputInv'
  BY <1>2, <1>13, <1>14 DEF OutputInv, Drawn
<1>20. UsesInv' /\ KeptInv'
  BY <1>1, <1>2, <1>4, <1>12, <1>14 DEF UsesInv, KeptInv, Shows
<1> QED BY <1>15, <1>16, <1>17, <1>18, <1>19, <1>20, <1>21 DEF PassInv

LEMMA ShowLookupTableInv ==
  ASSUME PassInv, ShowLookupTable
  PROVE  PassInv'
<1> PICK c, d, e : /\ c = Transition("unpacked", Undefined, General)
                   /\ d = Dispatch(Loaded("accel_table"), "unpacked", "unpack")
                   /\ e = Blit("unpacked", General)
  OBVIOUS
<1> PICK r : r = Recorded(<<c, d, e>>)
  OBVIOUS
<1>1. /\ layout' = r.layout /\ data' = r.data /\ uses' = r.uses /\ submitted' = submitted
      /\ used' = used \cup {u.image : u \in r.uses} /\ kept' = kept \cup {"accel_table", "unpacked"}
  BY DEF ShowLookupTable, Record, Execute, UsedWith, Transition, Blit
<1>2. /\ pc = "show_table" /\ pc' = (IF flags.lighting THEN "show_illumination" ELSE "finish")
      /\ frame' = frame /\ flags' = flags /\ size' = size /\ waited' = waited
      /\ extent' = [extent EXCEPT !.unpacked = <<AccelWidth, AccelHeight>>]
  BY DEF ShowLookupTable
<1> PICK g : g = Apply(Now, c)
  OBVIOUS
<1> PICK h : h = Apply(g, d)
  OBVIOUS
<1>3. r = Apply(h, e)
  BY RecordedThree
<1>4. /\ data["accel_depth"] = Drawn("accel_prepass")
      /\ data["accel_table"] \in {Drawn("table"), Drawn("null_table")} /\ waited
      /\ layout["output"] = ColorAttachment /\ data["output"] = Drawn("lighting")
      /\ "output" \in kept
      /\ flags.lighting => /\ layout["illum1"] = ShaderReadOnly
                           /\ data["illum1"] = Drawn("filter_2") /\ "illum1" \in kept
      /\ layout["noise"] = ShaderReadOnly /\ layout["accel_depth"] = DepthAttachment
      /\ layout["accel_table"] = General
  BY <1>2 DEF PassInv, SsdoInv, AccelInv, PlacesInv, OutputInv, UsesInv, KeptInv, Idle, Early, Ssdo, Shows
<1>5. /\ {"unpacked", "accel_depth", "accel_table", "illum1", "output", "noise"} \subseteq Images
      /\ General # Same
  BY LayoutsAreNotSame DEF Images
<1>6. "unpack" \notin {Same, "nothing"}
  BY DEF Same
<1>7. /\ \A k \in Images \ {"unpacked"} : g.layout[k] = layout[k] /\ g.data[k] = data[k]
      /\ g.layout["unpacked"] = General
      /\ GoodUses(g, {"accel_table", "unpacked", "output"})
  <2>1. g = Apply(Now, Transition("unpacked", Undefined, General))
    OBVIOUS
  <2>2. "unpacked" \in Images /\ General # Same
    BY <1>5
  <2>3. /\ \A k \in Images \ {"unpacked"} : g.layout[k] = Now.layout[k] /\ g.data[k] = Now.data[k]
        /\ g.layout["unpacked"] = General
        /\ \A X : GoodUses(Now, X) /\ "unpacked" \in X => GoodUses(g, X)
    BY ONLY <2>1, <2>2, BarrierDoes
  <2> QED BY <2>3, NowIsGood
<1>8. /\ h.data["unpacked"] = Drawn("unpack") /\ h.data["accel_table"] = g.data["accel_table"]
      /\ \A k \in Images : h.layout[k] = g.layout[k]
      /\ \A k \in Images : k # "accel_table" /\ k # "unpacked" => h.data[k] = g.data[k]
  <2>1. PICK i, j, p : i = "accel_table" /\ j = "unpacked" /\ p = "unpack"
    OBVIOUS
  <2>2. PICK a : a = Loaded(i)
    OBVIOUS
  <2>3. /\ h = Apply(g, Dispatch(a, j, p)) /\ Reading(a, i) /\ i \in Images /\ j \in Images
        /\ i # j /\ p \notin {Same, "nothing"}
    BY <1>5, <1>6, <2>1, <2>2 DEF Reading
  <2>4. /\ h.data[i] = g.data[i] /\ h.data[j] = Drawn(p)
        /\ \A k \in Images : h.layout[k] = g.layout[k]
        /\ \A k \in Images : k # i /\ k # j => h.data[k] = g.data[k]
    <3>1. Dispatched(g, h, i, j, p)
      BY ONLY <2>3, DispatchGives
    <3> QED BY ONLY <3>1 DEF Dispatched
  <2> QED BY <2>1, <2>4
<1>9. GoodUses(h, {"accel_table", "unpacked", "output"})
  <2>1. h = Apply(g, Dispatch(Loaded("accel_table"), "unpacked", "unpack"))
    OBVIOUS
  <2>2. /\ Reading(Loaded("accel_table"), "accel_table") /\ g.layout["unpacked"] = General
        /\ AsDeclared("accel_table", Loaded("accel_table").needs, g.layout["accel_table"])
    BY <1>4, <1>5, <1>7, DeclaredIs DEF Reading, Loaded
  <2>3. PICK from : from \in {"table", "null_table"} /\ g.data["accel_table"] = Drawn(from)
    BY <1>4, <1>5, <1>7
  <2>4. Only(from, "accel_table")
    BY <2>3, ProducersAre DEF Only
  <2>5. PICK X : X = {"accel_table", "unpacked", "output"}
    OBVIOUS
  <2>6. GoodUses(g, X) /\ "accel_table" \in X /\ "unpacked" \in X
    BY <1>7, <2>5
  <2>7. GoodUses(h, X)
    BY ONLY <2>1, <2>2, <2>3, <2>4, <2>6, DispatchIsGood
  <2> QED BY <2>5, <2>7
<1>10. \A k \in Images : r.data[k] = h.data[k] /\ r.layout[k] = h.layout[k]
  <2>1. r = Apply(h, Blit("unpacked", General))
    BY <1>3
  <2>2. "unpacked" \in Images /\ "unpacked" # "output"
    BY <1>5
  <2> QED BY ONLY <2>1, <2>2, BlitGives
<1>11. GoodUses(r, {"accel_table", "unpacked", "output"})
  <2>1. r = Apply(h, Blit("unpacked", General))
    BY <1>3
  <2>2. OnlyWithNone("unpack", "unpacked")
    BY ProducersAre DEF OnlyWithNone
  <2>3. /\ h.data["unpacked"] = Drawn("unpack") 
        /\ AsDeclared("unpacked", General, h.layout["unpacked"])
        /\ h.layout["output"] = ColorAttachment /\ h.data["output"] = Drawn("lighting")
    BY <1>4, <1>5, <1>7, <1>8, DeclaredIs
  <2>4. PICK X : X = {"accel_table", "unpacked", "output"}
    OBVIOUS
  <2>5. GoodUses(h, X) /\ "unpacked" \in X /\ "output" \in X
    BY <1>9, <2>4
  <2>6. GoodUses(r, X)
    BY ONLY <2>1, <2>2, <2>3, <2>5, BlitIsGood
  <2> QED BY <2>4, <2>6
<1>12. /\ \A u \in uses' : Sound(u)' /\ (u.image = "output" => waited')
       /\ used' \ {"noise"} \subseteq kept'
       /\ submitted'.used \ {"noise"} \subseteq submitted'.kept
  <2>1. kept \subseteq kept' /\ {"accel_table", "unpacked", "output"} \ {"noise"} \subseteq kept'
    BY <1>1, <1>4
  <2> QED BY <1>1, <1>2, <1>4, <1>11, <2>1, RecordDoes
<1>13. /\ data'["accel_depth"] = data["accel_depth"] /\ data'["accel_table"] = data["accel_table"]
       /\ data'["output"] = Drawn("lighting") /\ layout'["output"] = ColorAttachment
       /\ data'["illum1"] = data["illum1"] /\ layout'["illum1"] = layout["illum1"]
       /\ \A k \in {"noise", "accel_depth", "accel_table"} : layout'[k] = layout[k]
  BY <1>1, <1>4, <1>5, <1>7, <1>8, <1>10
<1>14. pc' \in {"show_illumination", "finish"} /\ pc' # "idle"
  BY <1>2
<1>15. PassTypes'
  <2>1. DOMAIN extent' = DOMAIN extent
    BY <1>2
  <2> QED BY <1>2, <1>14, <2>1 DEF PassInv, PassTypes, Shows
<1>16. AccelInv'
  BY <1>2, <1>4, <1>13 DEF AccelInv, Drawn
<1>21. PlacesInv'
  BY <1>2, <1>4, <1>13 DEF PlacesInv
<1>17. SsdoInv'
  BY <1>2, <1>4, <1>13, <1>14 DEF SsdoInv, Ssdo, Shows, Drawn
<1>18. TableInv'
  <2>1. AccelWidth' = AccelWidth /\ AccelHeight' = AccelHeight
    BY <1>2 DEF AccelWidth, AccelHeight
  <2>2. extent'.table = extent.table
    BY <1>2 DEF PassInv, PassTypes
  <2> QED BY <1>2, <2>1, <2>2 DEF PassInv, TableInv, Packed, Early, Idle
<1>19. OutputInv'
  BY <1>2, <1>13, <1>14 DEF OutputInv, Drawn
<1>20. UsesInv' /\ KeptInv'
  BY <1>1, <1>2, <1>4, <1>12, <1>14 DEF UsesInv, KeptInv, Shows
<1> QED BY <1>15, <1>16, <1>17, <1>18, <1>19, <1>20, <1>21 DEF PassInv

LEMMA ShowIlluminationInv ==
  ASSUME PassInv, ShowIllumination
  PROVE  PassInv'
<1> PICK c : c = Blit("illum1", ShaderReadOnly)
  OBVIOUS
<1> PICK r : r = Recorded(<<c>>)
  OBVIOUS
<1>1. /\ layout' = r.layout /\ data' = r.data /\ uses' = r.uses /\ submitted' = submitted
      /\ used' = used \cup {u.image : u \in r.uses} /\ kept' = kept
  BY DEF ShowIllumination, Record, Execute, UsedWith, Blit
<1>2. /\ pc = "show_illumination" /\ pc' = "finish" /\ frame' = frame /\ flags' = flags
      /\ size' = size /\ extent' = extent /\ waited' = waited
  BY DEF ShowIllumination
<1>3. r = Apply(Now, Blit("illum1", ShaderReadOnly))
  BY RecordedOne
<1>4. /\ data["accel_depth"] = Drawn("accel_prepass")
      /\ data["accel_table"] \in {Drawn("table"), Drawn("null_table")} /\ waited
      /\ layout["output"] = ColorAttachment /\ data["output"] = Drawn("lighting")
      /\ layout["illum1"] = ShaderReadOnly /\ data["illum1"] = Drawn("filter_2")
      /\ "output" \in kept /\ "illum1" \in kept
      /\ layout["noise"] = ShaderReadOnly /\ layout["accel_depth"] = DepthAttachment
      /\ layout["accel_table"] = General
  BY <1>2 DEF PassInv, SsdoInv, AccelInv, PlacesInv, OutputInv, UsesInv, KeptInv, Idle, Early, Ssdo, Shows
<1>5. {"illum1", "output", "accel_depth", "accel_table", "noise"} \subseteq Images
  BY DEF Images
<1>6. \A k \in Images : r.data[k] = data[k] /\ r.layout[k] = layout[k]
  <2>1. "illum1" \in Images /\ "illum1" # "output"
    BY <1>5
  <2>2. \A k \in Images : r.data[k] = Now.data[k] /\ r.layout[k] = Now.layout[k]
    BY ONLY <1>3, <2>1, BlitGives
  <2> QED BY <2>2, NowIsGood
<1> PICK X : X = {"illum1", "output"}
  OBVIOUS
<1>7. GoodUses(r, X)
  <2>1. OnlyWithNone("filter_2", "illum1")
    BY ProducersAre DEF OnlyWithNone
  <2>2. /\ Now.layout["illum1"] = ShaderReadOnly /\ Now.data["illum1"] = Drawn("filter_2")
        /\ Now.layout["output"] = ColorAttachment /\ Now.data["output"] = Drawn("lighting")
        /\ GoodUses(Now, X) /\ "illum1" \in X /\ "output" \in X
        /\ AsDeclared("illum1", ShaderReadOnly, Now.layout["illum1"])
    BY <1>4, NowIsGood, DeclaredIs
  <2> QED BY ONLY <1>3, <2>1, <2>2, BlitIsGood
<1>8. /\ \A u \in uses' : Sound(u)' /\ (u.image = "output" => waited')
      /\ used' \ {"noise"} \subseteq kept'
      /\ submitted'.used \ {"noise"} \subseteq submitted'.kept
  <2>1. kept \subseteq kept' /\ X \ {"noise"} \subseteq kept'
    BY <1>1, <1>4
  <2> QED BY <1>1, <1>2, <1>4, <1>7, <2>1, RecordDoes
<1>9. PassTypes'
  BY <1>2 DEF PassInv, PassTypes
<1>10. AccelInv'
  BY <1>1, <1>2, <1>4, <1>5, <1>6 DEF AccelInv, Drawn
<1>14. PlacesInv'
  BY <1>1, <1>2, <1>4, <1>5, <1>6 DEF PlacesInv
<1>11. TableInv'
  <2>1. AccelWidth' = AccelWidth /\ AccelHeight' = AccelHeight
    BY <1>2 DEF AccelWidth, AccelHeight
  <2> QED BY <1>2, <2>1 DEF PassInv, TableInv, Packed, Early, Idle
<1>12. OutputInv'
  BY <1>1, <1>2, <1>4, <1>5, <1>6 DEF OutputInv, Drawn
<1>13. SsdoInv' /\ UsesInv' /\ KeptInv'
  BY <1>1, <1>2, <1>4, <1>8 DEF SsdoInv, UsesInv, KeptInv, Ssdo, Shows
<1> QED BY <1>9, <1>10, <1>11, <1>12, <1>13, <1>14 DEF PassInv

LEMMA FinishFrameInv ==
  ASSUME PassInv, FinishFrame
  PROVE  PassInv'
<1> PICK c : c = Transition("output", ColorAttachment, PresentSrc)
  OBVIOUS
<1> PICK r : r = Recorded(<<c>>)
  OBVIOUS
<1>1. /\ layout' = r.layout /\ data' = r.data /\ uses' = r.uses /\ used' = {} /\ kept' = {}
      /\ submitted' = [used |-> used \cup {u.image : u \in r.uses}, kept |-> kept \cup {"output"}]
  BY DEF FinishFrame, RecordAndSubmit, Execute, UsedWith, Transition
<1>2. /\ pc = "finish" /\ pc' = "idle" /\ frame' = frame /\ flags' = flags
      /\ size' = size /\ extent' = extent /\ waited' = waited
  BY DEF FinishFrame
<1>3. r = Apply(Now, Transition("output", ColorAttachment, PresentSrc))
  BY RecordedOne
<1>4. layout["output"] = ColorAttachment /\ data["output"] = Drawn("lighting") /\ waited
  BY <1>2 DEF PassInv, OutputInv, UsesInv, Early, Idle
<1>5. /\ r.layout["output"] = PresentSrc /\ r.data["output"] = Drawn("lighting")
      /\ GoodUses(r, {"output"})
      /\ \A k \in {"noise", "accel_depth", "accel_table"} : r.layout[k] = layout[k]
  <2>1. "output" \in Images /\ ColorAttachment # Undefined /\ PresentSrc # Same
    BY LayoutsAreNotSame DEF Images, ColorAttachment, Undefined
  <2>2. Now.layout["output"] = ColorAttachment
    BY <1>4, NowIsGood
  <2>3. /\ r.layout["output"] = PresentSrc /\ r.data["output"] = Now.data["output"]
        /\ \A k \in Images \ {"output"} : r.layout[k] = Now.layout[k]
        /\ \A X : GoodUses(Now, X) /\ "output" \in X => GoodUses(r, X)
    BY ONLY <1>3, <2>1, <2>2, BarrierDoes
  <2>4. {"noise", "accel_depth", "accel_table"} \subseteq Images \ {"output"}
    BY DEF Images
  <2> QED BY <1>4, <2>3, <2>4, NowIsGood
<1>6. /\ \A u \in uses' : Sound(u)' /\ (u.image = "output" => waited')
      /\ used' \ {"noise"} \subseteq kept'
      /\ submitted'.used \ {"noise"} \subseteq submitted'.kept
  BY <1>1, <1>2, <1>4, <1>5, SubmitDoes
<1>7. PassTypes'
  BY <1>2 DEF PassInv, PassTypes, Early, Idle
<1>8. OutputInv'
  BY <1>1, <1>2, <1>5 DEF OutputInv, Shows, Drawn
<1>10. PlacesInv'
  BY <1>1, <1>2, <1>5 DEF PassInv, PlacesInv, Early, Idle
<1>9. AccelInv' /\ SsdoInv' /\ UsesInv' /\ KeptInv' /\ TableInv'
  BY <1>1, <1>2, <1>4, <1>6
     DEF AccelInv, SsdoInv, UsesInv, KeptInv, TableInv, Early, Idle, Ssdo, Shows
<1> QED BY <1>7, <1>8, <1>9, <1>10 DEF PassInv

LEMMA SetFlagInv ==
  ASSUME NEW f, PassInv, SetFlag(f)
  PROVE  PassInv'
<1>1. /\ pc = "idle"
      /\ UNCHANGED <<pc, frame, size, extent, layout, data, uses, used, kept, submitted, waited>>
  BY DEF SetFlag
<1>2. \A u : Sound(u) => Sound(u)'
  BY <1>1 DEF Sound
<1>3. PassTypes' /\ AccelInv' /\ PlacesInv' /\ SsdoInv' /\ TableInv'
  BY <1>1 DEF PassInv, PassTypes, AccelInv, PlacesInv, SsdoInv, TableInv, Early, Idle, Ssdo, Shows
<1>4. OutputInv'
  BY <1>1 DEF PassInv, OutputInv, Shows, Drawn
<1>5. UsesInv' /\ KeptInv'
  BY <1>1, <1>2 DEF PassInv, UsesInv, KeptInv, Shows, Early, Idle
<1> QED BY <1>3, <1>4, <1>5 DEF PassInv

LEMMA BeginFrameInv ==
  ASSUME PassInv, BeginFrame
  PROVE  PassInv'
<1>1. /\ pc' = "accel_depth" /\ size' \in Sizes /\ uses' = {} /\ used' = {} /\ kept' = {}
      /\ frame' = frame + 1 /\ extent' = extent /\ submitted' = submitted
      /\ layout' = layout
  BY DEF BeginFrame
<1>2. PassTypes'
  BY <1>1 DEF PassInv, PassTypes, Early, Idle
<1>3. AccelInv' /\ SsdoInv' /\ TableInv' /\ OutputInv' /\ UsesInv'
  BY <1>1 DEF AccelInv, SsdoInv, TableInv, OutputInv, UsesInv, Early, Idle, Ssdo, Shows
<1>5. PlacesInv'
  BY <1>1 DEF PassInv, PlacesInv, Early, Idle
<1>4. KeptInv'
  BY <1>1 DEF PassInv, KeptInv, Shows
<1> QED BY <1>2, <1>3, <1>4, <1>5 DEF PassInv

LEMMA PassesInitInv == PassesInit => PassInv
<1> SUFFICES ASSUME PassesInit PROVE PassInv
  OBVIOUS
<1>1. /\ pc = "idle" /\ frame = 0 /\ size \in Sizes /\ uses = {} /\ used = {} /\ kept = {}
      /\ submitted.used = {}
      /\ extent = [table |-> <<0, 0>>, as_color |-> <<0, 0>>, unpacked |-> <<0, 0>>]
  BY DEF PassesInit
<1>2. PassTypes
  BY <1>1 DEF PassTypes, Early, Idle
<1>3. AccelInv /\ SsdoInv /\ TableInv /\ UsesInv /\ KeptInv
  BY <1>1 DEF AccelInv, SsdoInv, TableInv, UsesInv, KeptInv, Early, Idle, Ssdo, Shows
<1>4. OutputInv
  BY <1>1 DEF OutputInv, Shows
<1>5. PlacesInv
  BY <1>1 DEF PassesInit, PlacesInv, Images, Early, Idle
<1> QED BY <1>2, <1>3, <1>4, <1>5 DEF PassInv

LEMMA PassesNextInv == PassInv /\ [PassesNext]_passesVars => PassInv'
<1> SUFFICES ASSUME PassInv, [PassesNext]_passesVars PROVE PassInv'
  OBVIOUS
<1>1. CASE UNCHANGED passesVars
  <2>1. /\ pc' = pc /\ frame' = frame /\ flags' = flags /\ size' = size /\ extent' = extent
        /\ layout' = layout /\ data' = data /\ uses' = uses /\ used' = used /\ kept' = kept
        /\ submitted' = submitted /\ waited' = waited
    BY <1>1 DEF passesVars
  <2>2. \A u : Sound(u) => Sound(u)'
    BY <2>1 DEF Sound
  <2>3. PassTypes' /\ AccelInv' /\ PlacesInv' /\ SsdoInv' /\ OutputInv'
    BY <2>1 DEF PassInv, PassTypes, AccelInv, PlacesInv, SsdoInv, OutputInv, Drawn
  <2>4. UsesInv' /\ KeptInv'
    BY <2>1, <2>2 DEF PassInv, UsesInv, KeptInv
  <2>5. TableInv'
    BY <2>1 DEF PassInv, TableInv, Packed, AccelWidth, AccelHeight
  <2> QED BY <2>3, <2>4, <2>5 DEF PassInv
<1>2. CASE PassesNext
  BY <1>2, SetFlagInv, BeginFrameInv, AccelDepthPrePassInv, GenerateLookupTableInv,
     DepthPrePassInv, SsdoSampleInv, FilterPass1Inv, FilterPass2Inv, LightingPassInv,
     ShowAccelDepthInv, ShowLookupTableInv, ShowIlluminationInv, FinishFrameInv
     DEF PassesNext, FrameStep
<1> QED BY <1>1, <1>2

(* The packed table covers the depth image by less than a neighborhood too *)
(* much, and the work groups cover the table.                              *)
LEMMA TableCovers ==
  ASSUME NEW n \in Nat
  PROVE  n <= 4 * Packed(n) /\ n + kSize > 4 * Packed(n) /\ Packed(n) <= 2 * WorkGroups(n)
<1> PICK q, x : q = n \div 8 /\ x = n % 8
  OBVIOUS
<1> PICK a, y : a = n \div 4 /\ y = n % 4
  OBVIOUS
<1>1. q \in Nat /\ a \in Nat /\ x \in 0..7 /\ y \in 0..3 /\ n = 8 * q + x /\ n = 4 * a + y
  OBVIOUS
<1>2. Packed(n) = IF x > 0 THEN a + 1 ELSE a
  BY <1>1 DEF Packed, kSize
<1>3. WorkGroups(n) = IF x > 0 THEN q + 1 ELSE q
  BY <1>1 DEF WorkGroups, kSize
<1> QED BY <1>1, <1>2, <1>3 DEF kSize

LEMMA PassInvSuffices ==
  ASSUME PassInv
  PROVE  LayoutsAreHandedOn /\ PassesReadWholeFrame /\ UsedImagesAreThere
<1>1. \A u \in uses : Sound(u) /\ (u.image = "output" => waited)
  BY DEF PassInv, UsesInv
<1>2. ImagesAreAsDeclared /\ PassesReadThisFrame
  BY <1>1 DEF ImagesAreAsDeclared, PassesReadThisFrame, Sound
<1>3. FinishedFrameIsPresentable
  BY DEF PassInv, OutputInv, FinishedFrameIsPresentable, Drawn
<1>4. UsedImagesAreKept /\ OutputIsWaitedFor
  BY <1>1 DEF PassInv, KeptInv, UsedImagesAreKept, OutputIsWaitedFor
<1>5. TableCoversDepthImage
  <2> SUFFICES ASSUME pc \in {"depth", "lighting", "show_table"}
               PROVE  \A d \in {1, 2} :
                        LET n == <<AccelWidth, AccelHeight>>[d]
                            texels == extent.table[d]
                        IN  /\ n <= 4 * texels
                            /\ n + kSize > 4 * texels
                            /\ texels <= 2 * WorkGroups(n)
    BY DEF TableCoversDepthImage
  <2>1. extent.table = <<Packed(AccelWidth), Packed(AccelHeight)>>
    BY DEF PassInv, TableInv, Early, Idle
  <2>2. size[1] \in Nat /\ size[2] \in Nat
    BY SizesAssumption DEF PassInv, PassTypes
  <2>3. AccelWidth \in Nat /\ AccelHeight \in Nat
    BY <2>2 DEF AccelWidth, AccelHeight, kDownsampleFactor
  <2> QED BY <2>1, <2>3, TableCovers
<1> QED BY <1>2, <1>3, <1>4, <1>5 DEF LayoutsAreHandedOn, PassesReadWholeFrame, UsedImagesAreThere

(* At any size and with any flags, frame after frame, every image that a   *)
(* command uses is in the layout which the command declares, but for the   *)
(* three that Misdeclared names, which are in the layout named there; and  *)
(* the presentation engine gets the output image as it expects it          *)
(* (TransitionImageLayout(), the kernels and the render passes).           *)
THEOREM LayoutsAreKnown == PassesSpec => []LayoutsAreHandedOn
<1> QED BY PassesInitInv, PassesNextInv, PassInvSuffices, PTL DEF PassesSpec

(* A pass of PaperRenderer::DrawFrame() or SsdoSampler reads what the      *)
(* right pass of the same frame has written, although images come from a   *)
(* cache, and the lookup table is as large as its kernels take it to be.   *)
THEOREM FramesAreDrawnWhole == PassesSpec => []PassesReadWholeFrame
<1> QED BY PassesInitInv, PassesNextInv, PassInvSuffices, PTL DEF PassesSpec

(* A command buffer keeps alive what it uses, also what an earlier command *)
(* buffer of the frame has kept, and waits for the output image.           *)
THEOREM FrameImagesAreThere == PassesSpec => []UsedImagesAreThere
<1> QED BY PassesInitInv, PassesNextInv, PassInvSuffices, PTL DEF PassesSpec
------------------------------------------------------------------------------
(* SsdoTable.                                                              *)
Words == [r: SUBSET Nat, g: SUBSET Nat, b: SUBSET Nat, a: SUBSET Nat]
AllIn(cs, n, S) == n \in Nat /\ DOMAIN cs = 1..n /\ \A i \in 1..n : cs[i] \in S

RowsOfWords == [Neighborhood -> Words]

SmearAllDown(base, cs) == FoldLeft(SmearDown, base, cs)

LEMMA SmearDownType ==
  ASSUME NEW rows \in RowsOfWords, NEW y \in Interest
  PROVE  SmearDown(rows, y) \in RowsOfWords
<1> DEFINE Near == {rows[kRadius + y - rad] : rad \in 0 .. kRadius - 1}
<1>1. \A rad \in 0 .. kRadius - 1 : kRadius + y - rad \in Neighborhood
  BY DEF Interest, Neighborhood, kRadius, kEight
<1>2. \A row \in Near : row \in Words
  BY <1>1 DEF RowsOfWords
<1>3. kRadius + y \in Neighborhood /\ rows[kRadius + y] \in Words
  BY DEF Interest, Neighborhood, kRadius, kEight, RowsOfWords
<1> HIDE DEF Near
<1>4. [r |-> rows[kRadius + y].r, g |-> UNION {row.g : row \in Near},
       b |-> UNION {row.b : row \in Near}, a |-> UNION {row.a : row \in Near}] \in Words
  BY <1>2, <1>3 DEF Words
<1> QED BY <1>3, <1>4 DEF SmearDown, Near, RowsOfWords

SmearAllUp(base, cs) == FoldLeft(SmearUp, base, cs)

LEMMA SmearUpType ==
  ASSUME NEW rows \in RowsOfWords, NEW y \in Interest
  PROVE  SmearUp(rows, y) \in RowsOfWords
<1> DEFINE Near == {rows[kRadius + y + rad] : rad \in 0 .. kRadius - 1}
<1>1. \A rad \in 0 .. kRadius - 1 : kRadius + y + rad \in Neighborhood
  BY DEF Interest, Neighborhood, kRadius, kEight
<1>2. \A row \in Near : row \in Words
  BY <1>1 DEF RowsOfWords
<1>3. kRadius + y \in Neighborhood /\ rows[kRadius + y] \in Words
  BY DEF Interest, Neighborhood, kRadius, kEight, RowsOfWords
<1> HIDE DEF Near
<1>4. [r |-> UNION {row.r : row \in Near}, g |-> rows[kRadius + y].g,
       b |-> UNION {row.b : row \in Near}, a |-> UNION {row.a : row \in Near}] \in Words
  BY <1>2, <1>3 DEF Words
<1> QED BY <1>3, <1>4 DEF SmearUp, Near, RowsOfWords

SmearAlong(base, cs) == FoldLeft(SmearOnce, base, cs)

LEMMA SmearOnceType ==
  ASSUME NEW row \in Words, NEW rad \in Nat
  PROVE  SmearOnce(row, rad) \in Words
  BY DEF SmearOnce, Words, RightShift, LeftShift

LEMMA SmearDownSteps ==
  ASSUME NEW base, NEW n, NEW cs, base \in RowsOfWords, AllIn(cs, n, Interest)
  PROVE  \E h : /\ h[0] = base
                /\ \A k \in 1..n : h[k] = SmearDown(h[k - 1], cs[k])
                /\ SmearAllDown(base, cs) = h[n]
<1>0. n \in Nat /\ DOMAIN cs = 1..n /\ \A i \in 1..n : cs[i] \in Interest
  BY DEF AllIn
<1> DEFINE step == [p \in RowsOfWords \X Interest |-> SmearDown(p[1], p[2])]
           Solves(g) == g = [s \in SUBSET DOMAIN cs |->
                               IF s = {} THEN base ELSE SmearDown(g[s \ {Max(s)}], cs[Max(s)])]
<1>1. \A v \in RowsOfWords, x \in Interest : step[<<v, x>>] = SmearDown(v, x) /\ SmearDown(v, x) \in RowsOfWords
  BY SmearDownType
<1> HIDE DEF step
<1>2. PICK f : FoldEquation(step, base, cs, n, f) /\ \A s \in SUBSET (1..n) : f[s] \in RowsOfWords
  <2>1. \A v \in RowsOfWords, x \in Interest : step[<<v, x>>] \in RowsOfWords
    BY <1>1
  <2> QED BY <1>0, <2>1, FoldEquationHasSolution
<1> DEFINE g == [s \in SUBSET (1..n) |-> f[s]]
<1>3. \A s \in SUBSET (1..n) : g[s] = f[s]
  OBVIOUS
<1>4. g = [s \in SUBSET (1..n) |-> g[s]]
  OBVIOUS
<1> HIDE DEF g
<1>5. ASSUME NEW s \in SUBSET (1..n)
      PROVE  g[s] = IF s = {} THEN base ELSE SmearDown(g[s \ {Max(s)}], cs[Max(s)])
  <2>1. CASE s = {}
    BY <1>2, <1>3, <2>1 DEF FoldEquation
  <2>2. CASE s # {}
    <3>1. Max(s) \in 1..n
      BY <1>0, <2>2, MaxProperties
    <3>2. s \ {Max(s)} \in SUBSET (1..n)
      OBVIOUS
    <3>3. cs[Max(s)] \in Interest
      BY <1>0, <3>1
    <3> QED BY <1>1, <1>2, <1>3, <2>2, <3>2, <3>3 DEF FoldEquation
  <2> QED BY <2>1, <2>2
<1>6. Solves(g)
  BY <1>0, <1>4, <1>5
<1>7. SmearAllDown(base, cs) = (CHOOSE e : Solves(e))[DOMAIN cs]
  BY DEF SmearAllDown, FoldLeft, MapThenFoldSet
<1> HIDE DEF Solves
<1>8. PICK e : Solves(e) /\ SmearAllDown(base, cs) = e[1..n]
  BY <1>0, <1>6, <1>7
<1> DEFINE h == [k \in 0..n |-> e[1..k]]
<1>9. \A k \in 0..n : h[k] = e[1..k]
  OBVIOUS
<1> HIDE DEF h
<1>10. \A s \in SUBSET (1..n) : e[s] =
         IF s = {} THEN base ELSE SmearDown(e[s \ {Max(s)}], cs[Max(s)])
  BY <1>0, <1>8 DEF Solves
<1>11. h[0] = base
  <2>1. 1..0 = {} /\ 1..0 \in SUBSET (1..n) /\ 0 \in 0..n
    BY <1>0
  <2> QED BY <1>9, <1>10, <2>1
<1>12. ASSUME NEW k \in 1..n PROVE h[k] = SmearDown(h[k - 1], cs[k])
  <2>1. 1..k \in SUBSET (1..n) /\ k \in 0..n /\ k - 1 \in 0..n /\ k \in Nat \ {0}
    BY <1>0
  <2>2. Max(1..k) = k /\ (1..k) \ {k} = 1..(k - 1) /\ 1..k # {}
    BY <2>1, PrefixMax
  <2>3. h[k] = e[1..k] /\ h[k - 1] = e[1..(k - 1)]
    BY <1>9, <2>1
  <2> QED BY <1>10, <2>1, <2>2, <2>3
<1>13. h[n] = e[1..n]
  BY <1>0, <1>9
<1> QED BY <1>8, <1>11, <1>12, <1>13

LEMMA SmearUpSteps ==
  ASSUME NEW base, NEW n, NEW cs, base \in RowsOfWords, AllIn(cs, n, Interest)
  PROVE  \E h : /\ h[0] = base
                /\ \A k \in 1..n : h[k] = SmearUp(h[k - 1], cs[k])
                /\ SmearAllUp(base, cs) = h[n]
<1>0. n \in Nat /\ DOMAIN cs = 1..n /\ \A i \in 1..n : cs[i] \in Interest
  BY DEF AllIn
<1> DEFINE step == [p \in RowsOfWords \X Interest |-> SmearUp(p[1], p[2])]
           Solves(g) == g = [s \in SUBSET DOMAIN cs |->
                               IF s = {} THEN base ELSE SmearUp(g[s \ {Max(s)}], cs[Max(s)])]
<1>1. \A v \in RowsOfWords, x \in Interest : step[<<v, x>>] = SmearUp(v, x) /\ SmearUp(v, x) \in RowsOfWords
  BY SmearUpType
<1> HIDE DEF step
<1>2. PICK f : FoldEquation(step, base, cs, n, f) /\ \A s \in SUBSET (1..n) : f[s] \in RowsOfWords
  <2>1. \A v \in RowsOfWords, x \in Interest : step[<<v, x>>] \in RowsOfWords
    BY <1>1
  <2> QED BY <1>0, <2>1, FoldEquationHasSolution
<1> DEFINE g == [s \in SUBSET (1..n) |-> f[s]]
<1>3. \A s \in SUBSET (1..n) : g[s] = f[s]
  OBVIOUS
<1>4. g = [s \in SUBSET (1..n) |-> g[s]]
  OBVIOUS
<1> HIDE DEF g
<1>5. ASSUME NEW s \in SUBSET (1..n)
      PROVE  g[s] = IF s = {} THEN base ELSE SmearUp(g[s \ {Max(s)}], cs[Max(s)])
  <2>1. CASE s = {}
    BY <1>2, <1>3, <2>1 DEF FoldEquation
  <2>2. CASE s # {}
    <3>1. Max(s) \in 1..n
      BY <1>0, <2>2, MaxProperties
    <3>2. s \ {Max(s)} \in SUBSET (1..n)
      OBVIOUS
    <3>3. cs[Max(s)] \in Interest
      BY <1>0, <3>1
    <3> QED BY <1>1, <1>2, <1>3, <2>2, <3>2, <3>3 DEF FoldEquation
  <2> QED BY <2>1, <2>2
<1>6. Solves(g)
  BY <1>0, <1>4, <1>5
<1>7. SmearAllUp(base, cs) = (CHOOSE e : Solves(e))[DOMAIN cs]
  BY DEF SmearAllUp, FoldLeft, MapThenFoldSet
<1> HIDE DEF Solves
<1>8. PICK e : Solves(e) /\ SmearAllUp(base, cs) = e[1..n]
  BY <1>0, <1>6, <1>7
<1> DEFINE h == [k \in 0..n |-> e[1..k]]
<1>9. \A k \in 0..n : h[k] = e[1..k]
  OBVIOUS
<1> HIDE DEF h
<1>10. \A s \in SUBSET (1..n) : e[s] =
         IF s = {} THEN base ELSE SmearUp(e[s \ {Max(s)}], cs[Max(s)])
  BY <1>0, <1>8 DEF Solves
<1>11. h[0] = base
  <2>1. 1..0 = {} /\ 1..0 \in SUBSET (1..n) /\ 0 \in 0..n
    BY <1>0
  <2> QED BY <1>9, <1>10, <2>1
<1>12. ASSUME NEW k \in 1..n PROVE h[k] = SmearUp(h[k - 1], cs[k])
  <2>1. 1..k \in SUBSET (1..n) /\ k \in 0..n /\ k - 1 \in 0..n /\ k \in Nat \ {0}
    BY <1>0
  <2>2. Max(1..k) = k /\ (1..k) \ {k} = 1..(k - 1) /\ 1..k # {}
    BY <2>1, PrefixMax
  <2>3. h[k] = e[1..k] /\ h[k - 1] = e[1..(k - 1)]
    BY <1>9, <2>1
  <2> QED BY <1>10, <2>1, <2>2, <2>3
<1>13. h[n] = e[1..n]
  BY <1>0, <1>9
<1> QED BY <1>8, <1>11, <1>12, <1>13

LEMMA SmearOnceSteps ==
  ASSUME NEW base, NEW n, NEW cs, base \in Words, AllIn(cs, n, Nat)
  PROVE  \E h : /\ h[0] = base
                /\ \A k \in 1..n : h[k] = SmearOnce(h[k - 1], cs[k])
                /\ SmearAlong(base, cs) = h[n]
<1>0. n \in Nat /\ DOMAIN cs = 1..n /\ \A i \in 1..n : cs[i] \in Nat
  BY DEF AllIn
<1> DEFINE step == [p \in Words \X Nat |-> SmearOnce(p[1], p[2])]
           Solves(g) == g = [s \in SUBSET DOMAIN cs |->
                               IF s = {} THEN base ELSE SmearOnce(g[s \ {Max(s)}], cs[Max(s)])]
<1>1. \A v \in Words, x \in Nat : step[<<v, x>>] = SmearOnce(v, x) /\ SmearOnce(v, x) \in Words
  BY SmearOnceType
<1> HIDE DEF step
<1>2. PICK f : FoldEquation(step, base, cs, n, f) /\ \A s \in SUBSET (1..n) : f[s] \in Words
  <2>1. \A v \in Words, x \in Nat : step[<<v, x>>] \in Words
    BY <1>1
  <2> QED BY <1>0, <2>1, FoldEquationHasSolution
<1> DEFINE g == [s \in SUBSET (1..n) |-> f[s]]
<1>3. \A s \in SUBSET (1..n) : g[s] = f[s]
  OBVIOUS
<1>4. g = [s \in SUBSET (1..n) |-> g[s]]
  OBVIOUS
<1> HIDE DEF g
<1>5. ASSUME NEW s \in SUBSET (1..n)
      PROVE  g[s] = IF s = {} THEN base ELSE SmearOnce(g[s \ {Max(s)}], cs[Max(s)])
  <2>1. CASE s = {}
    BY <1>2, <1>3, <2>1 DEF FoldEquation
  <2>2. CASE s # {}
    <3>1. Max(s) \in 1..n
      BY <1>0, <2>2, MaxProperties
    <3>2. s \ {Max(s)} \in SUBSET (1..n)
      OBVIOUS
    <3>3. cs[Max(s)] \in Nat
      BY <1>0, <3>1
    <3> QED BY <1>1, <1>2, <1>3, <2>2, <3>2, <3>3 DEF FoldEquation
  <2> QED BY <2>1, <2>2
<1>6. Solves(g)
  BY <1>0, <1>4, <1>5
<1>7. SmearAlong(base, cs) = (CHOOSE e : Solves(e))[DOMAIN cs]
  BY DEF SmearAlong, FoldLeft, MapThenFoldSet
<1> HIDE DEF Solves
<1>8. PICK e : Solves(e) /\ SmearAlong(base, cs) = e[1..n]
  BY <1>0, <1>6, <1>7
<1> DEFINE h == [k \in 0..n |-> e[1..k]]
<1>9. \A k \in 0..n : h[k] = e[1..k]
  OBVIOUS
<1> HIDE DEF h
<1>10. \A s \in SUBSET (1..n) : e[s] =
         IF s = {} THEN base ELSE SmearOnce(e[s \ {Max(s)}], cs[Max(s)])
  BY <1>0, <1>8 DEF Solves
<1>11. h[0] = base
  <2>1. 1..0 = {} /\ 1..0 \in SUBSET (1..n) /\ 0 \in 0..n
    BY <1>0
  <2> QED BY <1>9, <1>10, <2>1
<1>12. ASSUME NEW k \in 1..n PROVE h[k] = SmearOnce(h[k - 1], cs[k])
  <2>1. 1..k \in SUBSET (1..n) /\ k \in 0..n /\ k - 1 \in 0..n /\ k \in Nat \ {0}
    BY <1>0
  <2>2. Max(1..k) = k /\ (1..k) \ {k} = 1..(k - 1) /\ 1..k # {}
    BY <2>1, PrefixMax
  <2>3. h[k] = e[1..k] /\ h[k - 1] = e[1..(k - 1)]
    BY <1>9, <2>1
  <2> QED BY <1>10, <2>1, <2>2, <2>3
<1>13. h[n] = e[1..n]
  BY <1>0, <1>9
<1> QED BY <1>8, <1>11, <1>12, <1>13

(* A row after it was smeared on by the three rows above it, or below it.  *)
DownRow(rows, z) ==
  LET Near == {rows[z - rad] : rad \in 0 .. kRadius - 1}
  IN  [r |-> rows[z].r, g |-> UNION {row.g : row \in Near},
       b |-> UNION {row.b : row \in Near}, a |-> UNION {row.a : row \in Near}]

UpRow(rows, z) ==
  LET Near == {rows[z + rad] : rad \in 0 .. kRadius - 1}
  IN  [r |-> UNION {row.r : row \in Near}, g |-> rows[z].g,
       b |-> UNION {row.b : row \in Near}, a |-> UNION {row.a : row \in Near}]

(* Downward, the last row is smeared first, and so on: a row that was      *)
(* smeared is not looked at again.                                         *)
LEMMA DownIs ==
  ASSUME NEW rows, rows \in RowsOfWords
  PROVE  LET down == SmearAllDown(rows, DownFrom(kEight))
         IN  /\ down \in RowsOfWords
             /\ \A z \in Neighborhood :
                  down[z] = IF z \in 4..11 THEN DownRow(rows, z) ELSE rows[z]
<1> DEFINE cs == DownFrom(kEight)
<1>1. DOMAIN cs = 1..8 /\ \A k \in 1..8 : cs[k] = 8 - k /\ cs[k] \in Interest
  BY DEF DownFrom, kEight, Interest
<1> HIDE DEF cs
<1>2. PICK h : /\ h[0] = rows
               /\ \A k \in 1..8 : h[k] = SmearDown(h[k - 1], cs[k])
               /\ SmearAllDown(rows, cs) = h[8]
  <2>1. AllIn(cs, 8, Interest)
    BY <1>1 DEF AllIn
  <2> QED BY <2>1, SmearDownSteps
<1> DEFINE Reached(k) == /\ h[k] \in RowsOfWords
                     /\ \A z \in Neighborhood :
                          h[k][z] = IF z \in 12 - k .. 11 THEN DownRow(rows, z) ELSE rows[z]
           good == {k \in Nat : Reached(k)}
<1>3. Reached(0)
  BY <1>2
<1>4. ASSUME NEW k \in 0 .. 8 - 1, Reached(k)
      PROVE  Reached(k + 1)
  <2>1. h[k + 1] = SmearDown(h[k], 7 - k) /\ 7 - k \in Interest /\ k + 1 \in 1..8
    <3>1. k + 1 \in 1..8 /\ (k + 1) - 1 = k /\ 8 - (k + 1) = 7 - k
      OBVIOUS
    <3> QED BY <1>1, <1>2, <3>1
  <2>2. h[k + 1] \in RowsOfWords
    BY <1>4, <2>1, SmearDownType
  <2>3. h[k + 1] = [h[k] EXCEPT ![11 - k] = DownRow(h[k], 11 - k)]
    <3>1. kRadius + (7 - k) = 11 - k
      BY DEF kRadius
    <3>2. h[k + 1] = [h[k] EXCEPT ![kRadius + (7 - k)] = DownRow(h[k], kRadius + (7 - k))]
      <4> PICK y \in Interest : y = 7 - k
        BY <2>1
      <4>1. h[k + 1] = SmearDown(h[k], y)
        BY <2>1
      <4>2. \A rad \in 0 .. kRadius - 1 : kRadius + y - rad = (kRadius + y) - rad
        BY DEF kRadius, Interest
      <4>3. {h[k][kRadius + y - rad] : rad \in 0 .. kRadius - 1}
              = {h[k][(kRadius + y) - rad] : rad \in 0 .. kRadius - 1}
        BY <4>2
      <4>4. h[k + 1] = [h[k] EXCEPT ![kRadius + y] = DownRow(h[k], kRadius + y)]
        BY <4>1, <4>3 DEF SmearDown, DownRow
      <4> QED BY <4>4
    <3> QED BY <3>1, <3>2
  <2>4. DownRow(h[k], 11 - k) = DownRow(rows, 11 - k)
    <3>1. \A rad \in 0 .. kRadius - 1 : h[k][11 - k - rad] = rows[11 - k - rad]
      BY <1>4 DEF kRadius, Neighborhood, kEight
    <3>2. h[k][11 - k] = rows[11 - k]
      BY <1>4 DEF Neighborhood, kEight, kRadius
    <3> QED BY <3>1, <3>2 DEF DownRow
  <2>5. DOMAIN h[k] = Neighborhood
    BY <1>4 DEF RowsOfWords
  <2>6. ASSUME NEW z \in Neighborhood
        PROVE  h[k + 1][z] = IF z \in 12 - (k + 1) .. 11 THEN DownRow(rows, z) ELSE rows[z]
    <3>1. z \in Nat
      BY DEF Neighborhood
    <3>2. CASE z = 11 - k
      BY <2>3, <2>4, <2>5, <3>2
    <3>3. CASE z # 11 - k
      <4>1. h[k + 1][z] = h[k][z]
        BY <2>3, <2>5, <3>3
      <4>2. z \in 12 - (k + 1) .. 11 <=> z \in 12 - k .. 11
        BY <3>1, <3>3
      <4> QED BY <1>4, <4>1, <4>2
    <3> QED BY <3>2, <3>3
  <2> QED BY <2>2, <2>6
<1> HIDE DEF Reached
<1>5. 8 \in good
  <2>1. 0 \in good /\ good \in SUBSET Nat
    BY <1>3
  <2>2. \A k \in 0 .. 8 - 1 : k \in good => k + 1 \in good
    BY <1>4
  <2> HIDE DEF good
  <2> QED BY <2>1, <2>2, AfterSteps
<1>6. Reached(8)
  BY <1>5
<1> QED BY <1>2, <1>6 DEF Reached, cs

LEMMA UpIs ==
  ASSUME NEW rows, rows \in RowsOfWords
  PROVE  LET up == SmearAllUp(rows, UpTo(kEight))
         IN  /\ up \in RowsOfWords
             /\ \A z \in Neighborhood :
                  up[z] = IF z \in 4..11 THEN UpRow(rows, z) ELSE rows[z]
<1> DEFINE cs == UpTo(kEight)
<1>1. DOMAIN cs = 1..8 /\ \A k \in 1..8 : cs[k] = k - 1 /\ cs[k] \in Interest
  BY DEF UpTo, kEight, Interest
<1> HIDE DEF cs
<1>2. PICK h : /\ h[0] = rows
               /\ \A k \in 1..8 : h[k] = SmearUp(h[k - 1], cs[k])
               /\ SmearAllUp(rows, cs) = h[8]
  <2>1. AllIn(cs, 8, Interest)
    BY <1>1 DEF AllIn
  <2> QED BY <2>1, SmearUpSteps
<1> DEFINE Reached(k) == /\ h[k] \in RowsOfWords
                     /\ \A z \in Neighborhood :
                          h[k][z] = IF z \in 4 .. 3 + k THEN UpRow(rows, z) ELSE rows[z]
           good == {k \in Nat : Reached(k)}
<1>3. Reached(0)
  BY <1>2
<1>4. ASSUME NEW k \in 0 .. 8 - 1, Reached(k)
      PROVE  Reached(k + 1)
  <2>1. h[k + 1] = SmearUp(h[k], k) /\ k \in Interest /\ k + 1 \in 1..8
    <3>1. k + 1 \in 1..8 /\ (k + 1) - 1 = k
      OBVIOUS
    <3> QED BY <1>1, <1>2, <3>1
  <2>2. h[k + 1] \in RowsOfWords
    BY <1>4, <2>1, SmearUpType
  <2>3. h[k + 1] = [h[k] EXCEPT ![4 + k] = UpRow(h[k], 4 + k)]
    <3>1. kRadius + k = 4 + k
      BY DEF kRadius
    <3>2. h[k + 1] = [h[k] EXCEPT ![kRadius + k] = UpRow(h[k], kRadius + k)]
      BY <2>1 DEF SmearUp, UpRow
    <3> QED BY <3>1, <3>2
  <2>4. UpRow(h[k], 4 + k) = UpRow(rows, 4 + k)
    <3>1. \A rad \in 0 .. kRadius - 1 : h[k][4 + k + rad] = rows[4 + k + rad]
      BY <1>4 DEF kRadius, Neighborhood, kEight
    <3>2. h[k][4 + k] = rows[4 + k]
      BY <1>4 DEF Neighborhood, kEight, kRadius
    <3> QED BY <3>1, <3>2 DEF UpRow
  <2>5. DOMAIN h[k] = Neighborhood
    BY <1>4 DEF RowsOfWords
  <2>6. ASSUME NEW z \in Neighborhood
        PROVE  h[k + 1][z] = IF z \in 4 .. 3 + (k + 1) THEN UpRow(rows, z) ELSE rows[z]
    <3>1. z \in Nat
      BY DEF Neighborhood
    <3>2. CASE z = 4 + k
      BY <2>3, <2>4, <2>5, <3>2
    <3>3. CASE z # 4 + k
      <4>1. h[k + 1][z] = h[k][z]
        BY <2>3, <2>5, <3>3
      <4>2. z \in 4 .. 3 + (k + 1) <=> z \in 4 .. 3 + k
        BY <3>1, <3>3
      <4> QED BY <1>4, <4>1, <4>2
    <3> QED BY <3>2, <3>3
  <2> QED BY <2>2, <2>6
<1> HIDE DEF Reached
<1>5. 8 \in good
  <2>1. 0 \in good /\ good \in SUBSET Nat
    BY <1>3
  <2>2. \A k \in 0 .. 8 - 1 : k \in good => k + 1 \in good
    BY <1>4
  <2> HIDE DEF good
  <2> QED BY <2>1, <2>2, AfterSteps
<1>6. Reached(8)
  BY <1>5
<1> QED BY <1>2, <1>6 DEF Reached, cs

(* Sideways, bits reach up to three positions, and no further.             *)
OneFurther(row, after, x) ==
  /\ x \in after.r <=> x - 1 \in row.r \/ x \in row.r \/ x + 1 \in row.r
  /\ x \in after.g <=> x - 1 \in row.g \/ x \in row.g \/ x + 1 \in row.g
  /\ x \in after.b <=> x \in row.b \/ x + 1 \in row.b
  /\ x \in after.a <=> x - 1 \in row.a \/ x \in row.a

LEMMA SmearOnceIs ==
  ASSUME NEW row, NEW rad, NEW x, row \in Words, x \in Nat
  PROVE  OneFurther(row, SmearOnce(row, rad), x)
<1>1. row.r \in SUBSET Nat /\ row.g \in SUBSET Nat /\ row.b \in SUBSET Nat /\ row.a \in SUBSET Nat
  BY DEF Words
<1>2. \A bits \in SUBSET Nat : x \in RightShift(bits, 1) <=> x + 1 \in bits
  <2> SUFFICES ASSUME NEW bits \in SUBSET Nat PROVE x \in RightShift(bits, 1) <=> x + 1 \in bits
    OBVIOUS
  <2>1. ASSUME x + 1 \in bits PROVE x \in RightShift(bits, 1)
    <3>1. x + 1 \in {z \in bits : z >= 1} /\ x = (x + 1) - 1
      BY <2>1
    <3> QED BY <3>1 DEF RightShift
  <2>2. ASSUME x \in RightShift(bits, 1) PROVE x + 1 \in bits
    BY <2>2 DEF RightShift
  <2> QED BY <2>1, <2>2
<1>3. \A bits \in SUBSET Nat : x \in LeftShift(bits) <=> x - 1 \in bits
  <2> SUFFICES ASSUME NEW bits \in SUBSET Nat PROVE x \in LeftShift(bits) <=> x - 1 \in bits
    OBVIOUS
  <2>1. ASSUME x - 1 \in bits PROVE x \in LeftShift(bits)
    <3>1. x = (x - 1) + 1
      OBVIOUS
    <3> QED BY <2>1, <3>1 DEF LeftShift
  <2>2. ASSUME x \in LeftShift(bits) PROVE x - 1 \in bits
    BY <2>2 DEF LeftShift
  <2> QED BY <2>1, <2>2
<1>4. \A bits \in SUBSET Nat :
        x \in LeftShift(bits \union RightShift(bits, 1)) <=> x - 1 \in bits \/ (x # 0 /\ x \in bits)
  <2> SUFFICES ASSUME NEW bits \in SUBSET Nat
               PROVE  x \in LeftShift(bits \union RightShift(bits, 1)) <=> x - 1 \in bits \/ (x # 0 /\ x \in bits)
    OBVIOUS
  <2>1. bits \union RightShift(bits, 1) \in SUBSET Nat
    <3>1. \A z \in bits : z >= 1 => z - 1 \in Nat
      OBVIOUS
    <3>2. RightShift(bits, 1) \in SUBSET Nat
      BY <3>1 DEF RightShift
    <3> QED BY <3>2
  <2>2. x \in LeftShift(bits \union RightShift(bits, 1)) <=> x - 1 \in bits \union RightShift(bits, 1)
    BY <1>3, <2>1
  <2>3. x - 1 \in RightShift(bits, 1) <=> x # 0 /\ x \in bits
    <3>1. ASSUME x # 0, x \in bits PROVE x - 1 \in RightShift(bits, 1)
      <4>1. x \in {z \in bits : z >= 1}
        BY <3>1
      <4> QED BY <4>1 DEF RightShift
    <3>2. ASSUME x - 1 \in RightShift(bits, 1) PROVE x # 0 /\ x \in bits
      BY <3>2 DEF RightShift
    <3> QED BY <3>1, <3>2
  <2> QED BY <2>2, <2>3
<1> QED BY <1>1, <1>2, <1>3, <1>4 DEF SmearOnce, OneFurther

LEMMA SidewaysIs ==
  ASSUME NEW row, row \in Words, NEW x, x \in 4..11
  PROVE  /\ x \in SmearSideways(row).r <=> \E j \in -3 .. 3 : x + j \in row.r
         /\ x \in SmearSideways(row).g <=> \E j \in -3 .. 3 : x + j \in row.g
         /\ x \in SmearSideways(row).b <=> \E j \in 0 .. 3 : x + j \in row.b
         /\ x \in SmearSideways(row).a <=> \E j \in -3 .. 0 : x + j \in row.a
         /\ SmearSideways(row) \in Words
<1> DEFINE cs == [rad \in 1 .. kRadius - 1 |-> rad]
<1>1. AllIn(cs, 3, Nat) /\ SmearSideways(row) = SmearAlong(row, cs)
  BY DEF AllIn, kRadius, SmearSideways, SmearAlong
<1> HIDE DEF cs
<1>2. PICK h : /\ h[0] = row
               /\ \A k \in 1..3 : h[k] = SmearOnce(h[k - 1], cs[k])
               /\ SmearAlong(row, cs) = h[3]
  BY <1>1, SmearOnceSteps
<1>3. \A k \in 1..3 : cs[k] \in Nat
  BY <1>1 DEF AllIn
<1> PICK c1, c2, c3 : c1 = cs[1] /\ c2 = cs[2] /\ c3 = cs[3]
  OBVIOUS
<1> PICK h1, h2, h3 : h1 = h[1] /\ h2 = h[2] /\ h3 = h[3]
  OBVIOUS
<1>4. h1 = SmearOnce(row, c1) /\ h2 = SmearOnce(h1, c2) /\ h3 = SmearOnce(h2, c3)
      /\ SmearSideways(row) = h3
  BY <1>1, <1>2
<1>5. c1 \in Nat /\ c2 \in Nat /\ c3 \in Nat
  BY <1>3
<1>6. h1 \in Words
  BY <1>4, <1>5, SmearOnceType
<1>7. h2 \in Words
  BY <1>4, <1>5, <1>6, SmearOnceType
<1>8. x \in Nat /\ \A j \in -3 .. 3 : x + j \in Nat
  OBVIOUS
<1>9. \A z \in Nat : OneFurther(row, h1, z)
  BY <1>4, SmearOnceIs
<1>10. \A z \in Nat : OneFurther(h1, h2, z)
  BY <1>4, <1>6, SmearOnceIs
<1>11. \A z \in Nat : OneFurther(h2, h3, z)
  BY <1>4, <1>7, SmearOnceIs
<1>12. x \in h3.r <=> \E j \in -3 .. 3 : x + j \in row.r
  <2> DEFINE In2(z) == z \in h2.r
  <2>1. In2(x) <=> \E j \in -2 .. 2 : x + j \in row.r
    BY <1>8, <1>9, <1>10 DEF OneFurther
  <2>2. In2(x - 1) <=> \E j \in -2 .. 2 : (x - 1) + j \in row.r
    BY <1>8, <1>9, <1>10 DEF OneFurther
  <2>3. In2(x + 1) <=> \E j \in -2 .. 2 : (x + 1) + j \in row.r
    BY <1>8, <1>9, <1>10 DEF OneFurther
  <2>4. x \in h3.r <=> In2(x - 1) \/ In2(x) \/ In2(x + 1)
    BY <1>8, <1>11 DEF OneFurther
  <2> HIDE DEF In2
  <2> QED BY <2>1, <2>2, <2>3, <2>4
<1>13. x \in h3.g <=> \E j \in -3 .. 3 : x + j \in row.g
  <2> DEFINE In2(z) == z \in h2.g
  <2>1. In2(x) <=> \E j \in -2 .. 2 : x + j \in row.g
    BY <1>8, <1>9, <1>10 DEF OneFurther
  <2>2. In2(x - 1) <=> \E j \in -2 .. 2 : (x - 1) + j \in row.g
    BY <1>8, <1>9, <1>10 DEF OneFurther
  <2>3. In2(x + 1) <=> \E j \in -2 .. 2 : (x + 1) + j \in row.g
    BY <1>8, <1>9, <1>10 DEF OneFurther
  <2>4. x \in h3.g <=> In2(x - 1) \/ In2(x) \/ In2(x + 1)
    BY <1>8, <1>11 DEF OneFurther
  <2> HIDE DEF In2
  <2> QED BY <2>1, <2>2, <2>3, <2>4
<1>14. x \in h3.b <=> \E j \in 0 .. 3 : x + j \in row.b
  <2> DEFINE In2(z) == z \in h2.b
  <2>1. In2(x) <=> \E j \in 0 .. 2 : x + j \in row.b
    BY <1>8, <1>9, <1>10 DEF OneFurther
  <2>2. In2(x + 1) <=> \E j \in 0 .. 2 : (x + 1) + j \in row.b
    BY <1>8, <1>9, <1>10 DEF OneFurther
  <2>3. x \in h3.b <=> In2(x + 1) \/ In2(x)
    BY <1>8, <1>11 DEF OneFurther
  <2> HIDE DEF In2
  <2> QED BY <2>1, <2>2, <2>3
<1>15. x \in h3.a <=> \E j \in -3 .. 0 : x + j \in row.a
  <2> DEFINE In2(z) == z \in h2.a
  <2>1. In2(x) <=> \E j \in -2 .. 0 : x + j \in row.a
    BY <1>8, <1>9, <1>10 DEF OneFurther
  <2>2. In2(x - 1) <=> \E j \in -2 .. 0 : (x - 1) + j \in row.a
    BY <1>8, <1>9, <1>10 DEF OneFurther
  <2>3. x \in h3.a <=> In2(x - 1) \/ In2(x)
    BY <1>8, <1>11 DEF OneFurther
  <2> HIDE DEF In2
  <2> QED BY <2>1, <2>2, <2>3
<1>16. h3 \in Words
  BY <1>4, <1>5, <1>7, SmearOnceType
<1> QED BY <1>4, <1>12, <1>13, <1>14, <1>15, <1>16

UpOfDown(rows) == SmearAllUp(SmearAllDown(rows, DownFrom(kEight)), UpTo(kEight))

LEMMA UpOfDownIs ==
  ASSUME NEW rows, rows \in RowsOfWords, NEW z, z \in 4..11
  PROVE  /\ UpOfDown(rows)[z] \in Words
         /\ \A w : w \in UpOfDown(rows)[z].r <=> \E i \in 0 .. 3 : w \in rows[z + i].r
         /\ \A w : w \in UpOfDown(rows)[z].g <=> \E i \in 0 .. 3 : w \in rows[z - i].g
         /\ \A w : w \in UpOfDown(rows)[z].b <=> \E i \in -3 .. 3 : w \in rows[z + i].b
         /\ \A w : w \in UpOfDown(rows)[z].a <=> \E i \in -3 .. 3 : w \in rows[z + i].a
<1> PICK down : down = SmearAllDown(rows, DownFrom(kEight))
  OBVIOUS
<1> PICK up : up = SmearAllUp(down, UpTo(kEight))
  OBVIOUS
<1>1. /\ down \in RowsOfWords
      /\ \A m \in Neighborhood : down[m] = IF m \in 4..11 THEN DownRow(rows, m) ELSE rows[m]
  BY DownIs
<1>2. /\ up \in RowsOfWords
      /\ \A m \in Neighborhood : up[m] = IF m \in 4..11 THEN UpRow(down, m) ELSE down[m]
  BY <1>1, UpIs
<1>3. up = UpOfDown(rows)
  BY DEF UpOfDown
<1>4. Neighborhood = 0..15
  BY DEF Neighborhood, kEight, kRadius
<1>5. up[z] \in Words /\ up[z] = UpRow(down, z)
  BY <1>2, <1>4 DEF RowsOfWords
<1>6. \A i \in 0 .. 3 : z + i \in Neighborhood /\ z - i \in Neighborhood
  BY <1>4
<1>7. ASSUME NEW m \in 4..11
      PROVE  /\ down[m].r = rows[m].r
             /\ \A w : w \in down[m].g <=> \E i \in 0 .. 3 : w \in rows[m - i].g
             /\ \A w : w \in down[m].b <=> \E i \in 0 .. 3 : w \in rows[m - i].b
             /\ \A w : w \in down[m].a <=> \E i \in 0 .. 3 : w \in rows[m - i].a
  <2>1. down[m] = DownRow(rows, m)
    BY <1>1, <1>4
  <2> QED BY <2>1 DEF DownRow, kRadius
<1>8. \A m \in 12 .. 15 : down[m] = rows[m]
  BY <1>1, <1>4
<1>9. \A m \in 4 .. 15 : down[m].r = rows[m].r
  BY <1>7, <1>8
<1>10. /\ \A w : w \in up[z].r <=> \E i \in 0 .. 3 : w \in down[z + i].r
       /\ up[z].g = down[z].g
       /\ \A w : w \in up[z].b <=> \E i \in 0 .. 3 : w \in down[z + i].b
       /\ \A w : w \in up[z].a <=> \E i \in 0 .. 3 : w \in down[z + i].a
  BY <1>5 DEF UpRow, kRadius
<1>11. \A w : w \in up[z].r <=> \E i \in 0 .. 3 : w \in rows[z + i].r
  <2>1. \A i \in 0 .. 3 : z + i \in 4 .. 15
    OBVIOUS
  <2> QED BY <1>9, <1>10, <2>1
<1>12. \A w : w \in up[z].g <=> \E i \in 0 .. 3 : w \in rows[z - i].g
  BY <1>7, <1>10
<1>13. \A w : w \in up[z].b <=> \E i \in -3 .. 3 : w \in rows[z + i].b
  <2> SUFFICES ASSUME NEW w PROVE w \in up[z].b <=> \E i \in -3 .. 3 : w \in rows[z + i].b
    OBVIOUS
  <2> DEFINE Has(m) == w \in rows[m].b
             Down(m) == w \in down[m].b
  <2>1. \A m \in 4 .. 11 : Down(m) <=> \E i \in 0 .. 3 : Has(m - i)
    BY <1>7
  <2>2. \A m \in 12 .. 15 : Down(m) <=> Has(m)
    BY <1>8
  <2>3. w \in up[z].b <=> \E i \in 0 .. 3 : Down(z + i)
    BY <1>10
  <2> HIDE DEF Has, Down
  <2>4. (\E i \in 0 .. 3 : Down(z + i)) <=> \E i \in -3 .. 3 : Has(z + i)
    <3>1. ASSUME NEW i \in 0 .. 3, Down(z + i) PROVE \E j \in -3 .. 3 : Has(z + j)
      <4>1. CASE z + i \in 4..11
        <5>1. PICK k \in 0 .. 3 : Has((z + i) - k)
          BY <2>1, <3>1, <4>1
        <5>2. i - k \in -3 .. 3 /\ z + (i - k) = (z + i) - k
          OBVIOUS
        <5> QED BY <5>1, <5>2
      <4>2. CASE z + i \in 12 .. 15
        BY <2>2, <3>1, <4>2
      <4> QED BY <4>1, <4>2
    <3>2. ASSUME NEW i \in 0 .. 3, Has(z + i) PROVE \E j \in 0 .. 3 : Down(z + j)
      <4>1. CASE z + i \in 4..11
        <5>1. (z + i) - 0 = z + i /\ 0 \in 0 .. 3
          OBVIOUS
        <5>2. Down(z + i)
          BY <2>1, <3>2, <4>1, <5>1
        <5> QED BY <5>2
      <4>2. CASE z + i \in 12 .. 15
        BY <2>2, <3>2, <4>2
      <4> QED BY <4>1, <4>2
    <3>3. ASSUME NEW i \in -3 .. -1, Has(z + i) PROVE \E j \in 0 .. 3 : Down(z + j)
      <4>1. PICK k \in 0 .. 3 : k = 0 - i
        OBVIOUS
      <4>2. z - k = z + i /\ z + 0 = z /\ 0 \in 0 .. 3
        BY <4>1
      <4>3. Down(z)
        BY <2>1, <3>3, <4>2
      <4> QED BY <4>2, <4>3
    <3>4. \A i \in -3 .. 3 : i \in -3 .. -1 \/ i \in 0 .. 3
      OBVIOUS
    <3> QED BY <3>1, <3>2, <3>3, <3>4
  <2> QED BY <2>3, <2>4 DEF Has
<1>14. \A w : w \in up[z].a <=> \E i \in -3 .. 3 : w \in rows[z + i].a
  <2> SUFFICES ASSUME NEW w PROVE w \in up[z].a <=> \E i \in -3 .. 3 : w \in rows[z + i].a
    OBVIOUS
  <2> DEFINE Has(m) == w \in rows[m].a
             Down(m) == w \in down[m].a
  <2>1. \A m \in 4 .. 11 : Down(m) <=> \E i \in 0 .. 3 : Has(m - i)
    BY <1>7
  <2>2. \A m \in 12 .. 15 : Down(m) <=> Has(m)
    BY <1>8
  <2>3. w \in up[z].a <=> \E i \in 0 .. 3 : Down(z + i)
    BY <1>10
  <2> HIDE DEF Has, Down
  <2>4. (\E i \in 0 .. 3 : Down(z + i)) <=> \E i \in -3 .. 3 : Has(z + i)
    <3>1. ASSUME NEW i \in 0 .. 3, Down(z + i) PROVE \E j \in -3 .. 3 : Has(z + j)
      <4>1. CASE z + i \in 4..11
        <5>1. PICK k \in 0 .. 3 : Has((z + i) - k)
          BY <2>1, <3>1, <4>1
        <5>2. i - k \in -3 .. 3 /\ z + (i - k) = (z + i) - k
          OBVIOUS
        <5> QED BY <5>1, <5>2
      <4>2. CASE z + i \in 12 .. 15
        BY <2>2, <3>1, <4>2
      <4> QED BY <4>1, <4>2
    <3>2. ASSUME NEW i \in 0 .. 3, Has(z + i) PROVE \E j \in 0 .. 3 : Down(z + j)
      <4>1. CASE z + i \in 4..11
        <5>1. (z + i) - 0 = z + i /\ 0 \in 0 .. 3
          OBVIOUS
        <5>2. Down(z + i)
          BY <2>1, <3>2, <4>1, <5>1
        <5> QED BY <5>2
      <4>2. CASE z + i \in 12 .. 15
        BY <2>2, <3>2, <4>2
      <4> QED BY <4>1, <4>2
    <3>3. ASSUME NEW i \in -3 .. -1, Has(z + i) PROVE \E j \in 0 .. 3 : Down(z + j)
      <4>1. PICK k \in 0 .. 3 : k = 0 - i
        OBVIOUS
      <4>2. z - k = z + i /\ z + 0 = z /\ 0 \in 0 .. 3
        BY <4>1
      <4>3. Down(z)
        BY <2>1, <3>3, <4>2
      <4> QED BY <4>2, <4>3
    <3>4. \A i \in -3 .. 3 : i \in -3 .. -1 \/ i \in 0 .. 3
      OBVIOUS
    <3> QED BY <3>1, <3>2, <3>3, <3>4
  <2> QED BY <2>3, <2>4 DEF Has
<1> QED BY <1>3, <1>5, <1>11, <1>12, <1>13, <1>14

Smeared(rows) ==
  [y \in Neighborhood |-> IF y - kRadius \in Interest THEN SmearSideways(UpOfDown(rows)[y])
                          ELSE UpOfDown(rows)[y]]

(* The closed form of what the kernel computes, for the pixels of interest. *)
LEMMA SmearedIs ==
  ASSUME NEW rows, rows \in RowsOfWords, NEW z, NEW x, z \in 4..11, x \in 4..11
  PROVE  /\ x \in Smeared(rows)[z].r <=> \E i \in 0 .. 3, j \in -3 .. 3 : x + j \in rows[z + i].r
         /\ x \in Smeared(rows)[z].g <=> \E i \in 0 .. 3, j \in -3 .. 3 : x + j \in rows[z - i].g
         /\ x \in Smeared(rows)[z].b <=> \E i \in -3 .. 3, j \in 0 .. 3 : x + j \in rows[z + i].b
         /\ x \in Smeared(rows)[z].a <=> \E i \in -3 .. 3, j \in -3 .. 0 : x + j \in rows[z + i].a
<1>1. z \in Neighborhood /\ z - kRadius \in Interest
  BY DEF Neighborhood, Interest, kEight, kRadius
<1> PICK row : row = UpOfDown(rows)[z]
  OBVIOUS
<1>2. Smeared(rows)[z] = SmearSideways(row)
  BY <1>1 DEF Smeared
<1>3. /\ row \in Words
      /\ \A w : w \in row.r <=> \E i \in 0 .. 3 : w \in rows[z + i].r
      /\ \A w : w \in row.g <=> \E i \in 0 .. 3 : w \in rows[z - i].g
      /\ \A w : w \in row.b <=> \E i \in -3 .. 3 : w \in rows[z + i].b
      /\ \A w : w \in row.a <=> \E i \in -3 .. 3 : w \in rows[z + i].a
  BY UpOfDownIs
<1>4. /\ x \in SmearSideways(row).r <=> \E j \in -3 .. 3 : x + j \in row.r
      /\ x \in SmearSideways(row).g <=> \E j \in -3 .. 3 : x + j \in row.g
      /\ x \in SmearSideways(row).b <=> \E j \in 0 .. 3 : x + j \in row.b
      /\ x \in SmearSideways(row).a <=> \E j \in -3 .. 0 : x + j \in row.a
  BY <1>3, SidewaysIs
<1> QED BY <1>2, <1>3, <1>4

LEMMA SmearedType ==
  ASSUME NEW rows, rows \in RowsOfWords, NEW z, z \in 4..11
  PROVE  Smeared(rows)[z] \in Words
<1>1. z \in Neighborhood /\ z - kRadius \in Interest
  BY DEF Neighborhood, Interest, kEight, kRadius
<1> PICK row : row = UpOfDown(rows)[z]
  OBVIOUS
<1>2. Smeared(rows)[z] = SmearSideways(row)
  BY <1>1 DEF Smeared
<1>3. row \in Words
  BY UpOfDownIs
<1>4. 4 \in 4..11
  OBVIOUS
<1> QED BY <1>2, <1>3, <1>4, SidewaysIs

(***************************************************************************)
(* The inductive invariant: what roi and the images hold at each stage.    *)
(***************************************************************************)
\* What ComputeNeighborRelationships() leaves in a row.
Compared(y) ==
  [r |-> {x \in Neighborhood : y > 0 /\ depth[y][x] < depth[y - 1][x]},
   g |-> {x \in Neighborhood : y + 1 \in Neighborhood /\ depth[y][x] < depth[y + 1][x]},
   b |-> {x \in Neighborhood : x > 0 /\ depth[y][x] < depth[y][x - 1]},
   a |-> {x \in Neighborhood : x + 1 \in Neighborhood /\ depth[y][x] < depth[y][x + 1]}]

AllCompared == [y \in Neighborhood |-> Compared(y)]

RoiIsAsComputed ==
  /\ stage = "compared" => roi = AllCompared
  /\ stage \in {"smeared", "packed", "unpacked"} /\ enabled => roi = Smeared(AllCompared)

PackedIsAsWritten ==
  IF stage \in {"packed", "unpacked"}
  THEN packed = [y \in 0..1 |-> [x \in 0..1 |-> IF enabled THEN Texel(x, y)
                                                ELSE [yy \in 0..3 |-> 0..7]]]
  ELSE packed = <<>>

UnpackedIsFromPacked ==
  IF stage = "unpacked"
  THEN unpacked = [y \in Interest |-> [x \in Interest |->
          LET block == packed[y \div 4][x \div 4]
          IN  [r |-> 2 * (x % 4) \in block[y % 4], g |-> 2 * (x % 4) + 1 \in block[y % 4]]]]
  ELSE unpacked = <<>>

LookupTableInv ==
  /\ depth \in Depths
  /\ stage \in {"compared", "smeared"} => enabled
  /\ RoiIsAsComputed
  /\ PackedIsAsWritten
  /\ UnpackedIsFromPacked

LEMMA SsdoInitially == SsdoInit => LookupTableInv
  BY DEF SsdoInit, LookupTableInv, RoiIsAsComputed, PackedIsAsWritten, UnpackedIsFromPacked

LEMMA SsdoStep == LookupTableInv /\ [SsdoNext]_ssdoVars => LookupTableInv'
<1> SUFFICES ASSUME LookupTableInv, [SsdoNext]_ssdoVars PROVE LookupTableInv'
  OBVIOUS
<1>1. CASE UNCHANGED ssdoVars
  <2>1. UNCHANGED <<enabled, stage, depth, roi, packed, unpacked>>
    BY <1>1 DEF ssdoVars
  <2>2. \A x, y : Texel(x, y)' = Texel(x, y)
    BY <2>1 DEF Texel, UpDown, LeftRight
  <2>3. AllCompared' = AllCompared
    BY <2>1 DEF AllCompared, Compared
  <2>4. Smeared(AllCompared)' = Smeared(AllCompared)
    BY <2>3 DEF Smeared, UpOfDown, SmearAllUp, SmearAllDown
  <2>5. RoiIsAsComputed'
    BY <2>1, <2>3, <2>4 DEF RoiIsAsComputed, LookupTableInv
  <2>6. PackedIsAsWritten'
    BY <2>1, <2>2 DEF PackedIsAsWritten, LookupTableInv
  <2>7. UnpackedIsFromPacked'
    BY <2>1 DEF UnpackedIsFromPacked, LookupTableInv
  <2> QED BY <2>1, <2>5, <2>6, <2>7 DEF LookupTableInv
<1>2. CASE ComputeNeighborRelationships
  <2>1. roi' = AllCompared'
    BY <1>2 DEF ComputeNeighborRelationships, AllCompared, Compared
  <2> QED BY <1>2, <2>1 DEF ComputeNeighborRelationships, LookupTableInv, RoiIsAsComputed,
                            PackedIsAsWritten, UnpackedIsFromPacked
<1>3. CASE SmearNeighborRelationships
  <2>1. roi' = Smeared(AllCompared)
    BY <1>3 DEF SmearNeighborRelationships, LookupTableInv, RoiIsAsComputed, Smeared, UpOfDown,
                SmearAllUp, SmearAllDown
  <2>2. AllCompared' = AllCompared
    BY <1>3 DEF SmearNeighborRelationships, AllCompared, Compared
  <2>3. Smeared(AllCompared)' = Smeared(AllCompared)
    BY <2>2 DEF Smeared, UpOfDown, SmearAllUp, SmearAllDown
  <2>4. stage' = "smeared" /\ stage = "compared" /\ UNCHANGED <<enabled, depth, packed, unpacked>>
    BY <1>3 DEF SmearNeighborRelationships
  <2> QED BY <2>1, <2>3, <2>4 DEF LookupTableInv, RoiIsAsComputed, PackedIsAsWritten, UnpackedIsFromPacked
<1>4. CASE Pack
  <2>1. /\ stage = "smeared" /\ stage' = "packed" /\ enabled
        /\ packed' = [y \in 0..1 |-> [x \in 0..1 |-> Texel(x, y)]]
        /\ UNCHANGED <<enabled, depth, roi, unpacked>>
    BY <1>4 DEF Pack, LookupTableInv
  <2>2. \A x, y : Texel(x, y)' = Texel(x, y)
    BY <2>1 DEF Texel, UpDown, LeftRight
  <2>3. AllCompared' = AllCompared
    BY <2>1 DEF AllCompared, Compared
  <2>4. PackedIsAsWritten'
    BY <2>1, <2>2 DEF PackedIsAsWritten
  <2>5. RoiIsAsComputed'
    <3>1. roi = Smeared(AllCompared)
      BY <2>1 DEF LookupTableInv, RoiIsAsComputed
    <3>2. Smeared(AllCompared)' = Smeared(AllCompared)
      BY <2>3 DEF Smeared, UpOfDown, SmearAllUp, SmearAllDown
    <3> QED BY <2>1, <3>1, <3>2 DEF RoiIsAsComputed
  <2> QED BY <2>1, <2>4, <2>5 DEF LookupTableInv, UnpackedIsFromPacked
<1>5. CASE DispatchNullKernel
  <2>1. /\ stage = "begin" /\ stage' = "packed" /\ ~enabled
        /\ packed' = [y \in 0..1 |-> [x \in 0..1 |-> [yy \in 0..3 |-> 0..7]]]
        /\ UNCHANGED <<enabled, depth, roi, unpacked>>
    BY <1>5 DEF DispatchNullKernel
  <2>2. PackedIsAsWritten'
    BY <2>1 DEF PackedIsAsWritten
  <2> QED BY <2>1, <2>2 DEF LookupTableInv, RoiIsAsComputed, UnpackedIsFromPacked
<1>6. CASE Unpack
  <2>1. /\ stage = "packed" /\ stage' = "unpacked" /\ UNCHANGED <<enabled, depth, roi, packed>>
        /\ unpacked' = [y \in Interest |-> [x \in Interest |->
            LET block == packed[y \div 4][x \div 4]
            IN  [r |-> 2 * (x % 4) \in block[y % 4], g |-> 2 * (x % 4) + 1 \in block[y % 4]]]]
    BY <1>6 DEF Unpack
  <2>2. \A x, y : Texel(x, y)' = Texel(x, y)
    BY <2>1 DEF Texel, UpDown, LeftRight
  <2>3. AllCompared' = AllCompared
    BY <2>1 DEF AllCompared, Compared
  <2>4. PackedIsAsWritten'
    BY <2>1, <2>2 DEF PackedIsAsWritten, LookupTableInv
  <2>5. RoiIsAsComputed'
    <3>2. Smeared(AllCompared)' = Smeared(AllCompared)
      BY <2>3 DEF Smeared, UpOfDown, SmearAllUp, SmearAllDown
    <3> QED BY <2>1, <3>2 DEF RoiIsAsComputed, LookupTableInv
  <2>6. UnpackedIsFromPacked'
    BY <2>1 DEF UnpackedIsFromPacked
  <2> QED BY <2>1, <2>4, <2>5, <2>6 DEF LookupTableInv
<1> QED BY <1>1, <1>2, <1>3, <1>4, <1>5, <1>6 DEF SsdoNext

(***************************************************************************)
(* What the shaders find.                                                  *)
(***************************************************************************)
\* The comparisons that mark the pixel of interest <<x, z>>, counted with the margin.
Marked(x, z) ==
  \/ \E i \in 0 .. 3, j \in -3 .. 3 : x + j \in Compared(z + i).r
  \/ \E i \in 0 .. 3, j \in -3 .. 3 : x + j \in Compared(z - i).g
  \/ \E i \in -3 .. 3, j \in 0 .. 3 : x + j \in Compared(z + i).b
  \/ \E i \in -3 .. 3, j \in -3 .. 0 : x + j \in Compared(z + i).a

LEMMA ComparedType == AllCompared \in RowsOfWords
<1>1. \A y \in Neighborhood : Compared(y) \in Words
  BY DEF Compared, Words, Neighborhood
<1> QED BY <1>1 DEF AllCompared, RowsOfWords

LEMMA MarkedIsSmeared ==
  ASSUME NEW z, NEW x, z \in 4..11, x \in 4..11
  PROVE  LET word == Smeared(AllCompared)[z]
         IN  Marked(x, z) <=> x \in word.r \/ x \in word.g \/ x \in word.b \/ x \in word.a
<1> PICK rows : rows = AllCompared
  OBVIOUS
<1>1. \A y \in 0 .. 15 : rows[y] = Compared(y)
  BY DEF AllCompared, Neighborhood, kEight, kRadius
<1>2. /\ x \in Smeared(rows)[z].r <=> \E i \in 0 .. 3, j \in -3 .. 3 : x + j \in rows[z + i].r
      /\ x \in Smeared(rows)[z].g <=> \E i \in 0 .. 3, j \in -3 .. 3 : x + j \in rows[z - i].g
      /\ x \in Smeared(rows)[z].b <=> \E i \in -3 .. 3, j \in 0 .. 3 : x + j \in rows[z + i].b
      /\ x \in Smeared(rows)[z].a <=> \E i \in -3 .. 3, j \in -3 .. 0 : x + j \in rows[z + i].a
  BY ComparedType, SmearedIs
<1>3. /\ \A i \in 0 .. 3 : rows[z + i] = Compared(z + i) /\ rows[z - i] = Compared(z - i)
      /\ \A i \in -3 .. 3 : rows[z + i] = Compared(z + i)
  <2>1. /\ \A i \in 0 .. 3 : z + i \in 0 .. 15 /\ z - i \in 0 .. 15
        /\ \A i \in -3 .. 3 : z + i \in 0 .. 15
    OBVIOUS
  <2> QED BY <1>1, <2>1
<1> QED BY <1>2, <1>3 DEF Marked

LEMMA PixelsOfCells ==
  ASSUME NEW f, NEW k, k \in Interest, f \in {8 * k, 8 * k + 7}
  PROVE  /\ f \div 8 = k
         /\ f \div 32 = k \div 4
         /\ ((f % 32) * 4) \div 32 = k % 4
<1>1. k \in 0 .. 7
  BY DEF Interest, kEight
<1>2. f \in Nat /\ f - 8 * k \in {0, 7}
  BY <1>1
<1> QED BY <1>1, <1>2

LEMMA CellsOfInterest ==
  ASSUME NEW k, k \in Interest
  PROVE  k \div 4 \in 0..1 /\ k % 4 \in 0..3 /\ 4 * (k \div 4) + (k % 4) = k /\ k + kRadius \in 4..11
<1>1. k \in 0 .. 7
  BY DEF Interest, kEight
<1>2. k \div 4 \in 0..1
  BY <1>1
<1>3. k % 4 \in 0..3
  BY <1>1
<1>4. 4 * (k \div 4) + (k % 4) = k
  BY <1>1
<1>5. k + kRadius \in 4..11
  BY <1>1 DEF kRadius
<1> QED BY <1>2, <1>3, <1>4, <1>5

\* The two bits of a cell.
LEMMA PackedBits ==
  ASSUME NEW cx, NEW cy, cx \in Interest, cy \in Interest,
         LookupTableInv, stage \in {"packed", "unpacked"}
  PROVE  LET two == packed[cy \div 4][cx \div 4][cy % 4] \intersect {2 * (cx % 4), 2 * (cx % 4) + 1}
         IN  /\ enabled => (two # {} <=> Marked(cx + kRadius, cy + kRadius))
             /\ ~enabled => two # {}
<1>1. /\ cx \div 4 \in 0..1 /\ cx % 4 \in 0..3 /\ 4 * (cx \div 4) + (cx % 4) = cx /\ cx + kRadius \in 4..11
      /\ cy \div 4 \in 0..1 /\ cy % 4 \in 0..3 /\ 4 * (cy \div 4) + (cy % 4) = cy /\ cy + kRadius \in 4..11
  BY CellsOfInterest
<1> PICK bx, by, mx, my : bx = cx \div 4 /\ by = cy \div 4 /\ mx = cx % 4 /\ my = cy % 4
  OBVIOUS
<1>6. bx \in 0..1 /\ by \in 0..1 /\ mx \in 0..3 /\ my \in 0..3
  BY <1>1
<1>7. 2 * mx \in 0..7 /\ 2 * mx \in Int
  BY <1>6
<1>2. packed[by][bx] = IF enabled THEN Texel(bx, by) ELSE [yy \in 0..3 |-> 0..7]
  <2>1. packed = [y \in 0..1 |-> [x \in 0..1 |-> IF enabled THEN Texel(x, y)
                                                 ELSE [yy \in 0..3 |-> 0..7]]]
    BY DEF LookupTableInv, PackedIsAsWritten
  <2>2. bx \in 0..1 /\ by \in 0..1
    BY <1>1
  <2> QED BY <2>1, <2>2
<1>3. ASSUME ~enabled PROVE packed[by][bx][my] \intersect {2 * mx, 2 * mx + 1} # {}
  <2>1. packed[by][bx][my] = 0..7
    BY <1>1, <1>2, <1>3
  <2> QED BY <1>7, <2>1
<1>4. ASSUME enabled
      PROVE  packed[by][bx][my] \intersect {2 * mx, 2 * mx + 1} # {}
               <=> Marked(cx + kRadius, cy + kRadius)
  <2>1. packed[by][bx][my] = {2 * xx : xx \in {k \in 0..3 : 4 * bx + k \in UpDown(4 * by + my)}} \union
                             {2 * xx + 1 : xx \in {k \in 0..3 : 4 * bx + k \in LeftRight(4 * by + my)}}
    BY <1>1, <1>2, <1>4 DEF Texel
  <2>2. 4 * by + my = cy /\ 4 * bx + mx = cx /\ mx \in 0..3 /\ bx \in 0..1
    BY <1>1
  <2> DEFINE UpDowns == {k \in 0..3 : 4 * bx + k \in UpDown(4 * by + my)}
             LeftRights == {k \in 0..3 : 4 * bx + k \in LeftRight(4 * by + my)}
  <2>10. /\ packed[by][bx][my] = {2 * xx : xx \in UpDowns} \union {2 * xx + 1 : xx \in LeftRights}
         /\ mx \in UpDowns <=> cx \in UpDown(cy)
         /\ mx \in LeftRights <=> cx \in LeftRight(cy)
         /\ UpDowns \in SUBSET (0..3) /\ LeftRights \in SUBSET (0..3)
    BY <2>1, <2>2
  <2> HIDE DEF UpDowns, LeftRights
  <2> PICK m : m = mx
    OBVIOUS
  <2>11. m \in 0..3
    BY <1>6
  <2>3. 2 * mx \in packed[by][bx][my] <=> cx \in UpDown(cy)
    <3>1. 2 * m \in {2 * xx : xx \in UpDowns} \union {2 * xx + 1 : xx \in LeftRights} <=> m \in UpDowns
      BY <2>10, <2>11
    <3> QED BY <2>10, <3>1
  <2>4. 2 * mx + 1 \in packed[by][bx][my] <=> cx \in LeftRight(cy)
    <3>1. 2 * m + 1 \in {2 * xx : xx \in UpDowns} \union {2 * xx + 1 : xx \in LeftRights}
            <=> m \in LeftRights
      BY <2>10, <2>11
    <3> QED BY <2>10, <3>1
  <2> PICK z, x : z = cy + kRadius /\ x = cx + kRadius
    OBVIOUS
  <2> PICK word : word = roi[z]
    OBVIOUS
  <2>5. word = Smeared(AllCompared)[z] /\ word \in Words
    BY <1>1, <1>4, ComparedType, SmearedType DEF LookupTableInv, RoiIsAsComputed
  <2>6. \A bits \in SUBSET Nat : cx \in RightShift(bits, kRadius) <=> x \in bits
    <3>1. x - kRadius = cx /\ x >= kRadius /\ cx \in Nat
      BY DEF kRadius, Interest, kEight
    <3> SUFFICES ASSUME NEW bits \in SUBSET Nat
                 PROVE  cx \in RightShift(bits, kRadius) <=> x \in bits
      OBVIOUS
    <3>2. ASSUME x \in bits PROVE cx \in RightShift(bits, kRadius)
      <4>1. x \in {b \in bits : b >= kRadius}
        BY <3>1, <3>2
      <4> QED BY <3>1, <4>1 DEF RightShift
    <3>3. ASSUME cx \in RightShift(bits, kRadius) PROVE x \in bits
      <4>1. PICK b \in bits : cx = b - kRadius
        BY <3>3 DEF RightShift
      <4>2. b = x
        BY <4>1, <3>1 DEF kRadius
      <4> QED BY <4>2
    <3> QED BY <3>2, <3>3
  <2>7. cx \in UpDown(cy) <=> x \in word.r \/ x \in word.g
    BY <2>5, <2>6 DEF UpDown, Words
  <2>8. cx \in LeftRight(cy) <=> x \in word.b \/ x \in word.a
    BY <2>5, <2>6 DEF LeftRight, Words
  <2>9. Marked(x, z) <=> x \in word.r \/ x \in word.g \/ x \in word.b \/ x \in word.a
    BY <1>1, <2>5, MarkedIsSmeared
  <2> QED BY <2>3, <2>4, <2>7, <2>8, <2>9
<1> QED BY <1>3, <1>4

\* The shaders stay at a fragment of a cell exactly where the kernel marked the cell.
LEMMA FragmentsOfCells ==
  ASSUME NEW fx, NEW fy, NEW cx, NEW cy, cx \in Interest, cy \in Interest,
         fx \in {8 * cx, 8 * cx + 7}, fy \in {8 * cy, 8 * cy + 7},
         LookupTableInv, packed # <<>>
  PROVE  /\ LeavesAtOnce(fx, fy) <=>
              packed[cy \div 4][cx \div 4][cy % 4] \intersect {2 * (cx % 4), 2 * (cx % 4) + 1} = {}
         /\ enabled => (LeavesAtOnce(fx, fy) <=> ~Marked(cx + kRadius, cy + kRadius))
         /\ ~enabled => ~LeavesAtOnce(fx, fy)
<1>1. stage \in {"packed", "unpacked"}
  BY DEF LookupTableInv, PackedIsAsWritten
<1>2. /\ fx \div 32 = cx \div 4 /\ ((fx % 32) * 4) \div 32 = cx % 4
      /\ fy \div 32 = cy \div 4 /\ ((fy % 32) * 4) \div 32 = cy % 4
  BY PixelsOfCells
<1>3. kSsdoAccelDownsampleFactor * 4 = 32
  BY DEF kSsdoAccelDownsampleFactor
<1> PICK two : two = packed[cy \div 4][cx \div 4][cy % 4] \intersect {2 * (cx % 4), 2 * (cx % 4) + 1}
  OBVIOUS
<1>4. LeavesAtOnce(fx, fy) <=> two = {}
  BY <1>2, <1>3 DEF LeavesAtOnce
<1>5. (enabled => (two # {} <=> Marked(cx + kRadius, cy + kRadius))) /\ (~enabled => two # {})
  BY <1>1, PackedBits
<1> QED BY <1>4, <1>5

LEMMA DepthsAreNumbers ==
  LookupTableInv => \A y \in 0 .. 15 : \A x \in 0 .. 15 : depth[y][x] \in Nat
<1> SUFFICES ASSUME LookupTableInv PROVE \A y \in 0 .. 15 : \A x \in 0 .. 15 : depth[y][x] \in Nat
  OBVIOUS
<1>1. depth \in Depths
  BY DEF LookupTableInv
<1>2. \A y \in Neighborhood : \A x \in Neighborhood : depth[y][x] \in Nat
  BY <1>1, SsdoTableAssumption
<1>3. Neighborhood = 0 .. 15
  BY DEF Neighborhood, kEight, kRadius
<1> QED BY <1>2, <1>3

\* Along the row of a pixel that is not marked, and from there along the columns,
\* the depth never falls.
LEMMA UnmarkedIsHighest ==
  ASSUME NEW x, NEW z, x \in 4..11, z \in 4..11, LookupTableInv, ~Marked(x, z),
         NEW i, NEW j, i \in -3 .. 3, j \in -3 .. 3
  PROVE  ~(depth[z + i][x + j] < depth[z][x])
<1>1. \A y \in 0 .. 15 : \A w \in 0 .. 15 : depth[y][w] \in Nat
  BY DepthsAreNumbers
<1>2. Neighborhood = 0 .. 15
  BY DEF Neighborhood, kEight, kRadius
<1>3. \A m \in -4 .. 4 : z + m \in 0 .. 15 /\ x + m \in 0 .. 15
  OBVIOUS
<1>4. \A k \in 0 .. 3 : ~(depth[z][x + k] < depth[z][x + k - 1])
  <2> SUFFICES ASSUME NEW k \in 0 .. 3 PROVE ~(depth[z][x + k] < depth[z][x + k - 1])
    OBVIOUS
  <2>1. ~(x + k \in Compared(z + 0).b)
    BY DEF Marked
  <2>2. z + 0 = z /\ x + k > 0 /\ x + k \in Neighborhood /\ x + k - 1 = (x + k) - 1
    BY <1>2
  <2> QED BY <2>1, <2>2 DEF Compared
<1>5. \A k \in -3 .. 0 : ~(depth[z][x + k] < depth[z][x + k + 1])
  <2> SUFFICES ASSUME NEW k \in -3 .. 0 PROVE ~(depth[z][x + k] < depth[z][x + k + 1])
    OBVIOUS
  <2>1. ~(x + k \in Compared(z + 0).a)
    BY DEF Marked
  <2>2. z + 0 = z /\ (x + k) + 1 \in Neighborhood /\ x + k \in Neighborhood /\ x + k + 1 = (x + k) + 1
    BY <1>2
  <2> QED BY <2>1, <2>2 DEF Compared
<1>6. \A k \in 0 .. 3 : ~(depth[z + k][x + j] < depth[z + k - 1][x + j])
  <2> SUFFICES ASSUME NEW k \in 0 .. 3 PROVE ~(depth[z + k][x + j] < depth[z + k - 1][x + j])
    OBVIOUS
  <2>1. ~(x + j \in Compared(z + k).r)
    BY DEF Marked
  <2>2. z + k > 0 /\ x + j \in Neighborhood /\ z + k - 1 = (z + k) - 1
    BY <1>2
  <2> QED BY <2>1, <2>2 DEF Compared
<1>7. \A k \in 0 .. 3 : ~(depth[z - k][x + j] < depth[z - k + 1][x + j])
  <2> SUFFICES ASSUME NEW k \in 0 .. 3 PROVE ~(depth[z - k][x + j] < depth[(z - k) + 1][x + j])
    OBVIOUS
  <2>1. ~(x + j \in Compared(z - k).g)
    BY DEF Marked
  <2>2. (z - k) + 1 \in Neighborhood /\ x + j \in Neighborhood
    BY <1>2
  <2> QED BY <2>1, <2>2 DEF Compared
<1> DEFINE Row(k) == depth[z][x + k]
           Column(k) == depth[z + k][x + j]
<1>8. (\A k \in -4 .. 4 : Row(k) \in Nat /\ Column(k) \in Nat) /\ Column(0) = Row(j) /\ Row(0) = depth[z][x]
  <2>1. z + 0 = z /\ x + 0 = x /\ z \in 0 .. 15
    OBVIOUS
  <2>2. x + j \in 0 .. 15
    OBVIOUS
  <2> QED BY <1>1, <1>3, <2>1, <2>2
<1>9. (\A k \in 0 .. 3 : ~(Row(k) < Row(k - 1))) /\ (\A k \in -3 .. 0 : ~(Row(k) < Row(k + 1)))
  <2>1. \A k \in -4 .. 4 : x + k - 1 = x + (k - 1) /\ x + k + 1 = x + (k + 1)
    OBVIOUS
  <2> QED BY <1>4, <1>5, <2>1
<1>10. (\A k \in 0 .. 3 : ~(Column(k) < Column(k - 1))) /\ (\A k \in -3 .. 0 : ~(Column(k) < Column(k + 1)))
  <2>1. \A k \in 0 .. 3 : z + k - 1 = z + (k - 1)
    OBVIOUS
  <2>2. ASSUME NEW k \in -3 .. 0 PROVE ~(Column(k) < Column(k + 1))
    <3>1. PICK m \in 0 .. 3 : m = 0 - k
      OBVIOUS
    <3>2. z - m = z + k /\ z - m + 1 = z + (k + 1)
      BY <3>1
    <3> QED BY <1>7, <3>1, <3>2
  <2> QED BY <1>6, <2>1, <2>2
<1>11. Column(i) = depth[z + i][x + j]
  OBVIOUS
<1> HIDE DEF Row, Column
<1>12. Row(j) >= Row(0)
  BY <1>8, <1>9
<1>13. Column(i) >= Column(0)
  BY <1>8, <1>10
<1>14. Column(i) \in Nat /\ Row(j) \in Nat /\ Row(0) \in Nat
  BY <1>8
<1> QED BY <1>8, <1>11, <1>12, <1>13, <1>14

LEMMA CellsWithin ==
  ASSUME NEW c, NEW d, c \in 0..7, d \in c - 3 .. c + 3
  PROVE  d - c \in -3 .. 3 /\ d + kRadius = (c + kRadius) + (d - c)
  BY DEF kRadius

LEMMA NoShadowIsMissedHolds == LookupTableInv => NoShadowIsMissed
<1> SUFFICES ASSUME LookupTableInv, packed # <<>>,
                    NEW f \in Fragments, LeavesAtOnce(f[1], f[2]), NEW p \in Taps(f)
             PROVE  ~Higher(p, CellOf(f))
  BY DEF NoShadowIsMissed
<1>1. PICK cx \in Interest, cy \in Interest :
        f[1] \in {8 * cx, 8 * cx + 7} /\ f[2] \in {8 * cy, 8 * cy + 7}
  <2>1. \A k \in Interest : 8 * (k + 1) - 1 = 8 * k + 7
    BY DEF Interest, kEight
  <2> DEFINE Ends == {8 * k : k \in Interest} \union {8 * (k + 1) - 1 : k \in Interest}
  <2>2. f \in Ends \X Ends
    BY DEF Fragments, kSsdoAccelDownsampleFactor
  <2>3. \A e \in Ends : \E k \in Interest : e \in {8 * k, 8 * k + 7}
    BY <2>1
  <2> QED BY <2>2, <2>3
<1>2. CellOf(f) = <<cx, cy>>
  BY <1>1, PixelsOfCells DEF CellOf, kSsdoAccelDownsampleFactor
<1>3. enabled /\ ~Marked(cx + kRadius, cy + kRadius)
  BY <1>1, FragmentsOfCells
<1>4. cx \in 0..7 /\ cy \in 0..7
  BY DEF Interest, kEight
<1>5. p \in (cx - 3 .. cx + 3) \X (cy - 3 .. cy + 3)
  BY <1>2 DEF Taps, Within
<1> PICK i, j : i = p[2] - cy /\ j = p[1] - cx
  OBVIOUS
<1>6. /\ i \in -3 .. 3 /\ j \in -3 .. 3
      /\ p[1] + kRadius = (cx + kRadius) + j /\ p[2] + kRadius = (cy + kRadius) + i
  <2>1. p[1] \in cx - 3 .. cx + 3 /\ p[2] \in cy - 3 .. cy + 3
    BY <1>5
  <2>2. i = p[2] - cy /\ j = p[1] - cx
    OBVIOUS
  <2> QED BY <1>4, <2>1, <2>2, CellsWithin
<1>7. cx + kRadius \in 4..11 /\ cy + kRadius \in 4..11
  BY <1>4 DEF kRadius
<1> PICK x, z : x = cx + kRadius /\ z = cy + kRadius
  OBVIOUS
<1>8. ~(depth[z + i][x + j] < depth[z][x])
  BY <1>3, <1>6, <1>7, UnmarkedIsHighest
<1> QED BY <1>2, <1>6, <1>8 DEF Higher

LEMMA MarksAreLocalHolds == LookupTableInv => MarksAreLocal
<1> SUFFICES ASSUME LookupTableInv, packed # <<>>, enabled, NEW x \in Interest, NEW y \in Interest,
                    ~LeavesAtOnce(kSsdoAccelDownsampleFactor * x, kSsdoAccelDownsampleFactor * y)
             PROVE  \E p \in Within(<<x, y>>, kRadius - 1), q \in Within(<<x, y>>, kRadius) : Higher(p, q)
  BY DEF MarksAreLocal
<1> DEFINE Cell(w, v) == <<w - kRadius, v - kRadius>>
           Taller(w, v, w2, v2) == depth[v][w] < depth[v2][w2]
<1>1. x \in 0..7 /\ y \in 0..7 /\ kRadius = 4 /\ Neighborhood = 0..15
  BY DEF Interest, kEight, kRadius, Neighborhood
<1>2. Marked(x + kRadius, y + kRadius)
  <2>1. kSsdoAccelDownsampleFactor * x = 8 * x /\ kSsdoAccelDownsampleFactor * y = 8 * y
    BY DEF kSsdoAccelDownsampleFactor
  <2> QED BY <2>1, FragmentsOfCells
<1>3. PICK i \in -3 .. 3, j \in -3 .. 3, v \in -4 .. 4, w \in -4 .. 4 :
        depth[(y + 4) + i][(x + 4) + j] < depth[(y + 4) + v][(x + 4) + w]
  <2> PICK X, Y : X = x + 4 /\ Y = y + 4
    OBVIOUS
  <2> DEFINE Goal(i, j, v, w) == depth[Y + i][X + j] < depth[Y + v][X + w]
  <2> SUFFICES \E i \in -3 .. 3, j \in -3 .. 3, v \in -4 .. 4, w \in -4 .. 4 : Goal(i, j, v, w)
    OBVIOUS
  <2>1. X \in 4..11 /\ Y \in 4..11 /\ Marked(X, Y)
    BY <1>1, <1>2
  <2>3. CASE \E i \in 0 .. 3, j \in -3 .. 3 : X + j \in Compared(Y + i).r
    <3>1. PICK i \in 0 .. 3, j \in -3 .. 3 : X + j \in Compared(Y + i).r
      BY <2>3
    <3>2. depth[Y + i][X + j] < depth[(Y + i) - 1][X + j]
      BY <3>1 DEF Compared
    <3>3. (Y + i) - 1 = Y + (i - 1) /\ i \in -3 .. 3 /\ i - 1 \in -4 .. 4 /\ j \in -4 .. 4
      BY <2>1
    <3>4. Goal(i, j, i - 1, j)
      BY <3>2, <3>3
    <3> QED BY <3>3, <3>4
  <2>4. CASE \E i \in 0 .. 3, j \in -3 .. 3 : X + j \in Compared(Y - i).g
    <3>1. PICK i \in 0 .. 3, j \in -3 .. 3 : X + j \in Compared(Y - i).g
      BY <2>4
    <3>2. PICK k \in -3 .. 3 : k = 0 - i /\ Y + k = Y - i
      BY <2>1
    <3>3. depth[Y + k][X + j] < depth[(Y + k) + 1][X + j]
      BY <3>1, <3>2 DEF Compared
    <3>4. (Y + k) + 1 = Y + (k + 1) /\ k + 1 \in -4 .. 4 /\ j \in -4 .. 4
      BY <2>1
    <3>5. Goal(k, j, k + 1, j)
      BY <3>3, <3>4
    <3> QED BY <3>4, <3>5
  <2>5. CASE \E i \in -3 .. 3, j \in 0 .. 3 : X + j \in Compared(Y + i).b
    <3>1. PICK i \in -3 .. 3, j \in 0 .. 3 : X + j \in Compared(Y + i).b
      BY <2>5
    <3>2. depth[Y + i][X + j] < depth[Y + i][(X + j) - 1]
      BY <3>1 DEF Compared
    <3>3. (X + j) - 1 = X + (j - 1) /\ j \in -3 .. 3 /\ j - 1 \in -4 .. 4 /\ i \in -4 .. 4
      BY <2>1
    <3>4. Goal(i, j, i, j - 1)
      BY <3>2, <3>3
    <3> QED BY <3>3, <3>4
  <2>6. CASE \E i \in -3 .. 3, j \in -3 .. 0 : X + j \in Compared(Y + i).a
    <3>1. PICK i \in -3 .. 3, j \in -3 .. 0 : X + j \in Compared(Y + i).a
      BY <2>6
    <3>2. depth[Y + i][X + j] < depth[Y + i][(X + j) + 1]
      BY <3>1 DEF Compared
    <3>3. (X + j) + 1 = X + (j + 1) /\ j \in -3 .. 3 /\ j + 1 \in -4 .. 4 /\ i \in -4 .. 4
      BY <2>1
    <3>4. Goal(i, j, i, j + 1)
      BY <3>2, <3>3
    <3> QED BY <3>3, <3>4
  <2> QED BY <2>1, <2>3, <2>4, <2>5, <2>6 DEF Marked
<1> PICK p, q : p = <<x + j, y + i>> /\ q = <<x + w, y + v>>
  OBVIOUS
<1>4. p \in Within(<<x, y>>, kRadius - 1) /\ q \in Within(<<x, y>>, kRadius)
  BY <1>1 DEF Within
<1>5. /\ p[1] + kRadius = (x + 4) + j /\ p[2] + kRadius = (y + 4) + i
      /\ q[1] + kRadius = (x + 4) + w /\ q[2] + kRadius = (y + 4) + v
  BY <1>1
<1>6. Higher(p, q)
  BY <1>3, <1>5 DEF Higher
<1> QED BY <1>4, <1>6

LEMMA UnpackedHolds == LookupTableInv => UnpackedIsWhatShadersRead
<1> SUFFICES ASSUME LookupTableInv, unpacked # <<>>, NEW x \in Interest, NEW y \in Interest
             PROVE  (unpacked[y][x].r \/ unpacked[y][x].g)
                      <=> ~LeavesAtOnce(kSsdoAccelDownsampleFactor * x, kSsdoAccelDownsampleFactor * y)
  BY DEF UnpackedIsWhatShadersRead
<1>1. stage = "unpacked" /\ packed # <<>>
  <2>1. stage = "unpacked"
    BY DEF LookupTableInv, UnpackedIsFromPacked
  <2>2. packed = [b \in 0..1 |-> [c \in 0..1 |-> IF enabled THEN Texel(c, b) ELSE [yy \in 0..3 |-> 0..7]]]
    BY <2>1 DEF LookupTableInv, PackedIsAsWritten
  <2>3. DOMAIN packed = 0..1 /\ DOMAIN <<>> = {}
    BY <2>2
  <2> QED BY <2>1, <2>3
<1> PICK row : row = packed[y \div 4][x \div 4][y % 4]
  OBVIOUS
<1>6. unpacked[y][x] = [r |-> 2 * (x % 4) \in row, g |-> 2 * (x % 4) + 1 \in row]
  BY <1>1 DEF LookupTableInv, UnpackedIsFromPacked
<1> PICK one, other : one = 2 * (x % 4) /\ other = 2 * (x % 4) + 1
  OBVIOUS
<1> PICK red \in BOOLEAN, green \in BOOLEAN : (red <=> one \in row) /\ (green <=> other \in row)
  OBVIOUS
<1>7. unpacked[y][x] = [r |-> red, g |-> green]
  BY <1>6
<1>8. unpacked[y][x].r = red /\ unpacked[y][x].g = green
  BY <1>7
<1>2. unpacked[y][x].r <=> 2 * (x % 4) \in row
  BY <1>8
<1>3. unpacked[y][x].g <=> 2 * (x % 4) + 1 \in row
  BY <1>8
<1>4. LeavesAtOnce(8 * x, 8 * y) <=> row \intersect {2 * (x % 4), 2 * (x % 4) + 1} = {}
  BY <1>1, FragmentsOfCells
<1>5. kSsdoAccelDownsampleFactor * x = 8 * x /\ kSsdoAccelDownsampleFactor * y = 8 * y
  BY DEF kSsdoAccelDownsampleFactor
<1> QED BY <1>2, <1>3, <1>4, <1>5

(* For every depth image: the shaders skip a fragment only where nothing    *)
(* that they would have sampled is higher, a mark is made only where        *)
(* something near by is, and the debug view shows what is read.             *)
THEOREM TheTableIsExact == SsdoSpec => []LookupTableIsExact
<1>1. LookupTableInv => LookupTableIsExact
  BY NoShadowIsMissedHolds, MarksAreLocalHolds, UnpackedHolds DEF LookupTableIsExact
<1> QED BY SsdoInitially, SsdoStep, <1>1, PTL DEF SsdoSpec
================================================================================
