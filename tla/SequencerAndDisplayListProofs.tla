------------------------ MODULE SequencerAndDisplayListProofs -------------------------
(***************************************************************************)
(* TLAPS proofs about CommandBufferSequencer, for every number of command  *)
(* buffers and every set of listeners, and about the display lists that    *)
(* the buffers draw (DisplayList), for all scenes and all sizes of buffers.*)
(***************************************************************************)
EXTENDS CommandBufferSequencer, DisplayList, DataLemmas

(* Assigning to an element, in range or not, leaves a sequence.            *)
LEMMA SeqExceptAnywhere ==
  ASSUME NEW S, NEW s \in Seq(S), NEW k, NEW e \in S
  PROVE  /\ [s EXCEPT ![k] = e] \in Seq(S)
         /\ Len([s EXCEPT ![k] = e]) = Len(s)
<1> DEFINE t == [s EXCEPT ![k] = e]
<1>1. /\ Len(s) \in Nat /\ DOMAIN s = 1..Len(s)
      /\ \A j \in 1..Len(s) : s[j] \in S
  BY LenProperties
<1>2. t = [j \in 1..Len(s) |-> t[j]]
  BY <1>1
<1>3. \A j \in 1..Len(s) : t[j] \in S
  BY <1>1
<1> HIDE DEF t
<1>4. [j \in 1..Len(s) |-> t[j]] \in Seq(S)
  BY <1>1, <1>3, IsASeq
<1>5. t \in Seq(S)
  BY <1>2, <1>4
<1>6. DOMAIN t = 1..Len(s)
  BY <1>2
<1>7. Len(t) = Len(s)
  BY <1>1, <1>5, <1>6, LenProperties
<1> QED BY <1>5, <1>7 DEF t

(* Types.  A numbered step per action; the sequence lemmas supply the types *)
(* of what the vector operations return.                                    *)
LEMMA TypeInit == SequencerInit => SequencerTypeOK
BY DEF SequencerInit, SequencerTypeOK

LEMMA TypeStep == SequencerTypeOK /\ [SequencerNext]_numberVars => SequencerTypeOK'
<1> SUFFICES ASSUME SequencerTypeOK, [SequencerNext]_numberVars
             PROVE  SequencerTypeOK'
  OBVIOUS
<1> USE DEF SequencerTypeOK, Idle, Enter, locals
<1>1. CASE GenerateNextCommandBufferSequenceNumber
  BY <1>1 DEF GenerateNextCommandBufferSequenceNumber
<1>2. ASSUME NEW n \in 1..latest_sequence_number, FinishedAboveGap(n)
      PROVE  SequencerTypeOK'
  <2>1. PICK p \in 1..Len(out_of_sequence_numbers) + 1 :
          out_of_sequence_numbers' = InsertAt(out_of_sequence_numbers, p, n)
    BY <1>2 DEF FinishedAboveGap, SortIn
  <2>2. n \in Nat /\ out_of_sequence_numbers \in Seq(Nat)
    OBVIOUS
  <2>3. InsertAt(out_of_sequence_numbers, p, n) \in Seq(Nat)
    BY ONLY <2>2, p \in 1..Len(out_of_sequence_numbers) + 1, InsertAtProperties
  <2> QED BY <1>2, <2>1, <2>3 DEF FinishedAboveGap, Reportable
<1>3. ASSUME NEW n \in 1..latest_sequence_number, FinishedInSequence(n)
      PROVE  SequencerTypeOK'
  BY <1>3 DEF FinishedInSequence, Reportable
<1>4. CASE FillGap
  <2> DEFINE n == out_of_sequence_numbers[cursor + 1]
  <2>1. n \in Nat
    BY <1>4, LenProperties DEF FillGap
  <2>2. CASE n = last_finished_sequence_number + 1
    BY <1>4, <2>1, <2>2 DEF FillGap
  <2>3. CASE n # last_finished_sequence_number + 1
    <3> DEFINE k == cursor + 1 - removed
    <3>1. \A m \in Nat : [out_of_sequence_numbers EXCEPT ![k] = m] \in Seq(Nat)
      BY SeqExceptAnywhere
    <3>2. out_of_sequence_numbers' \in Seq(Nat)
      BY <1>4, <2>1, <2>3, <3>1 DEF FillGap
    <3>3. /\ cursor' = cursor + 1
          /\ UNCHANGED <<last_finished_sequence_number, call, removed, latest_sequence_number,
                         listeners, reported, heard>>
      BY <1>4, <2>3 DEF FillGap
    <3> QED BY <3>2, <3>3
  <2> QED BY <2>2, <2>3
<1>5. CASE ShrinkAfterFill
  BY <1>5 DEF ShrinkAfterFill
<1>6. CASE NotifyListener
  <2>1. listeners[cursor + 1] \in Listener
    BY <1>6, LenProperties DEF NotifyListener
  <2>2. heard' \in [Listener -> Nat]
    BY <1>6, <2>1 DEF NotifyListener
  <2> QED BY <1>6, <2>2 DEF NotifyListener
<1>7. CASE Return
  BY <1>7 DEF Return
<1>8. ASSUME NEW l \in Listener, AddListener(l)
      PROVE  SequencerTypeOK'
  BY <1>8 DEF AddListener
<1>9. ASSUME NEW l \in Listener, RemoveListener(l)
      PROVE  SequencerTypeOK'
  <2>1. listeners' \in Seq(Listener)
    BY <1>9, RemoveAtProperties DEF RemoveListener
  <2> QED BY <1>9, <2>1 DEF RemoveListener
<1>10. CASE UNCHANGED numberVars
  BY <1>10 DEF numberVars
<1> QED
  BY <1>1, <1>2, <1>3, <1>4, <1>5, <1>6, <1>7, <1>8, <1>9, <1>10
  DEF SequencerNext, Finished, CallStep

(* Every reachable state is well typed. *)
THEOREM TypeCorrect == SequencerSpec => []SequencerTypeOK
BY TypeInit, TypeStep, PTL DEF SequencerSpec
------------------------------------------------------------------------------
(* The positions of the vector that still count: during the gap-filling    *)
(* loop, the survivors that have slid down to the front and the part that  *)
(* has not been looked at; otherwise all of it.                            *)
Kept == IF call = "fill" THEN cursor - removed ELSE 0
Seen == IF call = "fill" THEN cursor ELSE 0

Counts(a) ==
  a \in 1..Len(out_of_sequence_numbers) /\ (a <= Kept \/ a > Seen)

LoopBounds ==
  /\ removed <= cursor
  /\ call = "fill" => /\ cursor <= Len(out_of_sequence_numbers)
                      /\ removed < last_finished_sequence_number

StrictlySorted ==
  \A a, b \in Nat :
    Counts(a) /\ Counts(b) /\ a < b
      => out_of_sequence_numbers[a] < out_of_sequence_numbers[b]

(* What is in the vector is still above the gap; only the part the loop    *)
(* has yet to look at may begin with the number that closes it.            *)
AboveTheGap ==
  \A a \in Nat :
    Counts(a) =>
      /\ out_of_sequence_numbers[a] > last_finished_sequence_number
      /\ call # "fill" \/ a <= Kept =>
           out_of_sequence_numbers[a] > last_finished_sequence_number + 1

(* The reported numbers are those up to the last in sequence and those in  *)
(* the vector.                                                             *)
AccountedFor ==
  \A n \in Nat \ {0} :
    n \in reported <=> \/ n <= last_finished_sequence_number
                       \/ \E a \in Nat : /\ Counts(a)
                                        /\ out_of_sequence_numbers[a] = n

NoneInventedInv == reported \subseteq 1..latest_sequence_number

OrderInv ==
  /\ LoopBounds
  /\ StrictlySorted
  /\ AboveTheGap
  /\ AccountedFor
  /\ NoneInventedInv

ListenerInv ==
  /\ \A a, b \in 1..Len(listeners) : listeners[a] = listeners[b] => a = b
  /\ \A l \in Listener : heard[l] <= last_finished_sequence_number
  /\ call = "fill" => \A l \in Listener :
                       heard[l] < last_finished_sequence_number - removed
  /\ call = "notify" =>
       \A a \in 1..Len(listeners) :
         IF a <= cursor
         THEN heard[listeners[a]] = last_finished_sequence_number
         ELSE heard[listeners[a]] < last_finished_sequence_number
  /\ call = "none" =>
       \A a \in 1..Len(listeners) :
         heard[listeners[a]] \in {0, last_finished_sequence_number}

LEMMA OrderInit == SequencerInit => OrderInv
BY EmptySeq DEF SequencerInit, OrderInv, LoopBounds, StrictlySorted, AboveTheGap,
   AccountedFor, NoneInventedInv, Counts

(* Outside the loop every position counts. *)
LEMMA AllCount ==
  ASSUME SequencerTypeOK, call # "fill", NEW a \in Nat
  PROVE  Counts(a) <=> a \in 1..Len(out_of_sequence_numbers)
BY LenProperties DEF SequencerTypeOK, Counts, Kept, Seen

(* t has the elements of s and n.                                          *)
GainsOne(s, n, t) ==
  /\ Len(s) \in Nat
  /\ Len(t) = Len(s) + 1
  /\ \A a \in 1..Len(s) : s[a] \in Nat
  /\ \A a \in 1..Len(s) + 1 : t[a] = n \/ \E b \in 1..Len(s) : t[a] = s[b]
  /\ \E a \in 1..Len(s) + 1 : t[a] = n
  /\ \A b \in 1..Len(s) : \E a \in 1..Len(s) + 1 : t[a] = s[b]

(* What insertion does to the elements, apart from any state.              *)
LEMMA InsertedElements ==
  ASSUME NEW s \in Seq(Nat), NEW n \in Nat, NEW p \in 1..Len(s) + 1
  PROVE  GainsOne(s, n, InsertAt(s, p, n))
<1> DEFINE t == InsertAt(s, p, n)
<1>1. Len(s) \in Nat /\ \A a \in 1..Len(s) : s[a] \in Nat
  BY LenProperties
<1>2. /\ Len(t) = Len(s) + 1
      /\ \A j \in 1..Len(s) + 1 :
           t[j] = IF j < p THEN s[j] ELSE IF j = p THEN n ELSE s[j - 1]
  BY InsertAtProperties, ZenonT(60)
<1> HIDE DEF t
<1>3. \A a \in 1..Len(s) + 1 : t[a] = n \/ \E b \in 1..Len(s) : t[a] = s[b]
  <2> TAKE a \in 1..Len(s) + 1
  <2>1. CASE a < p
    <3>1. a \in 1..Len(s) /\ t[a] = s[a]
      BY <1>1, <1>2, <2>1
    <3> QED BY <3>1
  <2>2. CASE a = p
    BY <1>2, <2>2
  <2>3. CASE a > p
    <3>1. a - 1 \in 1..Len(s) /\ t[a] = s[a - 1]
      BY <1>1, <1>2, <2>3
    <3> QED BY <3>1
  <2> QED BY <1>1, <2>1, <2>2, <2>3
<1>4. t[p] = n
  BY <1>1, <1>2
<1>5. \A b \in 1..Len(s) : \E a \in 1..Len(s) + 1 : t[a] = s[b]
  <2> TAKE b \in 1..Len(s)
  <2>1. CASE b < p
    <3>1. b \in 1..Len(s) + 1 /\ t[b] = s[b]
      BY <1>1, <1>2, <2>1
    <3> QED BY <3>1
  <2>2. CASE b >= p
    <3>1. b + 1 \in 1..Len(s) + 1 /\ b + 1 > p /\ (b + 1) - 1 = b
      BY <1>1, <2>2
    <3>2. t[b + 1] = s[(b + 1) - 1]
      BY <1>2, <3>1
    <3> QED BY <3>1, <3>2
  <2> QED BY <1>1, <2>1, <2>2
<1> QED BY <1>1, <1>2, <1>3, <1>4, <1>5 DEF GainsOne, t

(* A number above the gap is sorted in: the vector stays sorted and gains  *)
(* exactly that number.                                                    *)
LEMMA OrderFinishedAboveGap ==
  ASSUME SequencerTypeOK, OrderInv, NEW n \in Nat, FinishedAboveGap(n)
  PROVE  OrderInv'
<1> DEFINE s == out_of_sequence_numbers
           t == out_of_sequence_numbers'
           last == last_finished_sequence_number
<1>1. PICK p \in 1..Len(s) + 1 : t = InsertAt(s, p, n)
  BY DEF FinishedAboveGap, SortIn
<1>2. Increasing(t)
  BY DEF FinishedAboveGap, SortIn
<1>3. s \in Seq(Nat) /\ last \in Nat
  BY DEF SequencerTypeOK
<1>4. /\ call = "none" /\ call' = "none"
      /\ UNCHANGED <<cursor, removed, last_finished_sequence_number,
                     latest_sequence_number>>
      /\ n \in 1..latest_sequence_number /\ n \notin reported
      /\ n # last + 1
      /\ reported' = reported \cup {n}
  BY DEF FinishedAboveGap, Reportable, Idle, locals
<1>5. \A a \in Nat : Counts(a) <=> a \in 1..Len(s)
  BY <1>4, AllCount
<1>6. /\ Len(s) \in Nat
      /\ Len(t) = Len(s) + 1
      /\ \A a \in 1..Len(s) : s[a] \in Nat
      /\ \A a \in 1..Len(s) + 1 :
           t[a] = n \/ \E b \in 1..Len(s) : t[a] = s[b]
      /\ \E a \in 1..Len(s) + 1 : t[a] = n
      /\ \A b \in 1..Len(s) : \E a \in 1..Len(s) + 1 : t[a] = s[b]
  <2>1. GainsOne(s, n, InsertAt(s, p, n))
    BY <1>3, InsertedElements
  <2>2. GainsOne(s, n, t)
    BY <1>1, <2>1
  <2> QED BY <2>2 DEF GainsOne
<1>7. \A a \in Nat : Counts(a)' <=> a \in 1..Len(t)
  BY ONLY <1>4, <1>6 DEF Counts, Kept, Seen
<1>8. n > last + 1
  BY <1>3, <1>4 DEF OrderInv, AccountedFor
<1>9. \A a \in 1..Len(s) : s[a] > last + 1
  BY <1>4, <1>5, <1>6 DEF OrderInv, AboveTheGap
<1> HIDE DEF s, t, last
<1>10. LoopBounds'
  BY <1>4 DEF OrderInv, LoopBounds
<1>11. StrictlySorted'
  BY <1>2, <1>7 DEF StrictlySorted, Increasing, t
<1>12. AboveTheGap'
  <2>1. \A a \in 1..Len(t) : t[a] > last + 1
    <3> TAKE a \in 1..Len(t)
    <3>1. CASE t[a] = n
      BY <3>1, <1>8
    <3>2. CASE \E b \in 1..Len(s) : t[a] = s[b]
      BY <3>2, <1>9
    <3> QED BY <3>1, <3>2, <1>6
  <2>2. \A a \in 1..Len(t) : t[a] \in Nat
    BY <1>6
  <2>3. \A x, y \in Nat : x > y + 1 => x > y
    OBVIOUS
  <2> QED BY <2>1, <2>2, <2>3, <1>3, <1>4, <1>7 DEF AboveTheGap, t, last
<1>13. AccountedFor'
  <2>1. \A m \in Nat \ {0} :
          m \in reported <=> m <= last \/ \E a \in 1..Len(s) : s[a] = m
    BY <1>5, <1>6 DEF OrderInv, AccountedFor, s, last
  <2>2. \A m \in Nat \ {0} :
          m \in reported' <=> m <= last \/ \E a \in 1..Len(t) : t[a] = m
    <3> TAKE m \in Nat \ {0}
    <3>1. (\E a \in 1..Len(t) : t[a] = m)
            <=> m = n \/ \E a \in 1..Len(s) : s[a] = m
      BY <1>6
    <3> QED BY <1>4, <2>1, <3>1
  <2>3. \A a \in Nat : Counts(a)' => a \in 1..Len(t)
    BY <1>7
  <2>4. \A a \in 1..Len(t) : a \in Nat /\ Counts(a)'
    BY <1>7
  <2> QED BY <1>4, <2>2, <2>3, <2>4 DEF AccountedFor, t, last
<1>14. NoneInventedInv'
  BY <1>4 DEF OrderInv, NoneInventedInv
<1> QED BY <1>10, <1>11, <1>12, <1>13, <1>14 DEF OrderInv

(* The number closes the gap: the loop starts with everything to look at.  *)
LEMMA OrderFinishedInSequence ==
  ASSUME SequencerTypeOK, OrderInv, NEW n \in Nat, FinishedInSequence(n)
  PROVE  OrderInv'
<1> DEFINE s == out_of_sequence_numbers
<1>1. /\ call = "none" /\ call' = "fill" /\ cursor' = 0 /\ removed' = 0
      /\ UNCHANGED <<out_of_sequence_numbers, latest_sequence_number>>
      /\ n = last_finished_sequence_number + 1
      /\ last_finished_sequence_number' = n
      /\ n \in 1..latest_sequence_number
      /\ reported' = reported \cup {n}
  BY DEF FinishedInSequence, Reportable, Idle, Enter
<1>2. last_finished_sequence_number \in Nat /\ Len(s) \in Nat
  BY LenProperties DEF SequencerTypeOK
<1>3. \A a \in Nat : (Counts(a) <=> a \in 1..Len(s)) /\ (Counts(a)' <=> Counts(a))
  BY <1>1, <1>2 DEF Counts, Kept, Seen
<1>4. \A a \in Nat : Counts(a) => s[a] \in Nat
  BY <1>3, LenProperties DEF SequencerTypeOK
<1>5. LoopBounds'
  BY <1>1, <1>2 DEF LoopBounds
<1>6. StrictlySorted'
  BY <1>1, <1>3 DEF OrderInv, StrictlySorted
<1>7. AboveTheGap'
  <2>1. \A a \in Nat : Counts(a) => s[a] > n /\ ~(a <= Kept')
    BY <1>1, <1>3 DEF OrderInv, AboveTheGap, Kept
  <2> QED BY <1>1, <1>3, <2>1 DEF AboveTheGap
<1>8. AccountedFor'
  BY <1>1, <1>2, <1>3 DEF OrderInv, AccountedFor
<1>9. NoneInventedInv'
  BY <1>1 DEF OrderInv, NoneInventedInv
<1> QED BY <1>5, <1>6, <1>7, <1>8, <1>9 DEF OrderInv

(* One iteration.  If the number at the cursor closes the gap, nothing has *)
(* survived so far: a survivor would be smaller, and above the gap.        *)
LEMMA OrderFillGap ==
  ASSUME SequencerTypeOK, OrderInv, FillGap
  PROVE  OrderInv'
<1> DEFINE s == out_of_sequence_numbers
           t == out_of_sequence_numbers'
           last == last_finished_sequence_number
           n == s[cursor + 1]
<1>1. /\ call = "fill" /\ call' = "fill" /\ cursor < Len(s)
      /\ cursor' = cursor + 1
      /\ UNCHANGED <<reported, latest_sequence_number>>
  BY DEF FillGap
<1>2. /\ cursor \in Nat /\ removed \in Nat /\ last \in Nat /\ Len(s) \in Nat
      /\ removed <= cursor /\ removed < last
      /\ \A a \in 1..Len(s) : s[a] \in Nat
  BY <1>1, LenProperties DEF SequencerTypeOK, OrderInv, LoopBounds
<1>3. \A a \in Nat :
        Counts(a) <=> a \in 1..Len(s) /\ (a <= cursor - removed \/ a > cursor)
  BY <1>1 DEF Counts, Kept, Seen
<1>4. Counts(cursor + 1) /\ n \in Nat /\ n > last
  <2>1. Counts(cursor + 1) /\ cursor + 1 \in Nat
    BY <1>1, <1>2, <1>3
  <2> QED BY <1>1, <1>2, <2>1 DEF OrderInv, AboveTheGap
<1>5. \A a, b \in Nat : Counts(a) /\ Counts(b) /\ a < b => s[a] < s[b]
  BY DEF OrderInv, StrictlySorted
<1>6. \A a \in Nat : Counts(a) => s[a] > last
                              /\ (a <= cursor - removed => s[a] > last + 1)
  BY <1>1 DEF OrderInv, AboveTheGap, Kept
<1>7. \A m \in Nat \ {0} :
        m \in reported <=> m <= last \/ \E a \in Nat : Counts(a) /\ s[a] = m
  BY DEF OrderInv, AccountedFor
<1>8. NoneInventedInv'
  BY <1>1 DEF OrderInv, NoneInventedInv
<1>9. CASE n = last + 1
  <2>1. /\ t = s /\ last_finished_sequence_number' = n
        /\ removed' = removed + 1
    BY <1>9 DEF FillGap
  <2>2. cursor = removed
    <3> SUFFICES ASSUME removed < cursor PROVE FALSE
      BY <1>2
    <3>1. 1 \in Nat /\ Counts(1) /\ 1 < cursor + 1 /\ 1 <= cursor - removed
      BY <1>1, <1>2, <1>3
    <3>2. s[1] > last + 1 /\ s[1] < n /\ s[1] \in Nat
      BY <1>1, <1>2, <1>4, <1>5, <1>6, <3>1
    <3> QED BY <1>2, <1>4, <1>9, <3>2
  <2>3. \A a \in Nat : (Counts(a)' <=> a \in cursor + 2..Len(s))
                     /\ (Counts(a) <=> a \in cursor + 1..Len(s))
    BY <1>1, <1>2, <1>3, <2>1, <2>2 DEF Counts, Kept, Seen
  <2> HIDE DEF s, t, last, n
  <2>4. LoopBounds'
    BY <1>1, <1>2, <1>9, <2>1 DEF LoopBounds, s, t, last, n
  <2>5. StrictlySorted'
    BY <1>2, <1>5, <2>1, <2>3 DEF StrictlySorted, s, t
  <2>6. AboveTheGap'
    <3>1. \A a \in cursor + 2..Len(s) : s[a] > n /\ s[a] \in Nat
      BY <1>2, <1>4, <1>5, <2>3 DEF n
    <3>2. Kept' = 0
      BY <1>1, <1>2, <2>1, <2>2 DEF Kept
    <3> QED BY <1>1, <1>2, <2>1, <2>3, <3>1, <3>2 DEF AboveTheGap, s, t
  <2>7. AccountedFor'
    <3>1. \A m \in Nat \ {0} :
            m \in reported <=>
              m <= n \/ \E a \in Nat : a \in cursor + 2..Len(s) /\ s[a] = m
      <4> TAKE m \in Nat \ {0}
      <4>1. (\E a \in Nat : Counts(a) /\ s[a] = m)
              <=> m = n \/ \E a \in Nat : a \in cursor + 2..Len(s) /\ s[a] = m
        <5>1. \A a \in Nat : Counts(a) => a = cursor + 1 \/ a \in cursor + 2..Len(s)
          BY <1>2, <2>3
        <5>2. \A a \in Nat : a \in cursor + 2..Len(s) => Counts(a)
          BY <1>2, <2>3
        <5> QED BY <5>1, <5>2, <1>2, <1>4 DEF n
      <4> QED BY <4>1, <1>2, <1>4, <1>7, <1>9
    <3> QED BY <1>1, <2>1, <2>3, <3>1 DEF AccountedFor, s, t
  <2> QED BY <1>8, <2>4, <2>5, <2>6, <2>7 DEF OrderInv
<1>10. CASE n # last + 1
  <2>0. PICK k \in Nat : k = cursor + 1 - removed
    BY <1>2
  <2>1. /\ t = [s EXCEPT ![k] = n] /\ removed' = removed
        /\ last_finished_sequence_number' = last
    BY <1>10, <2>0 DEF FillGap
  <2>2. n > last + 1
    BY <1>2, <1>4, <1>10
  <2>3. k \in 1..Len(s) /\ k <= cursor + 1 /\ cursor + 1 <= Len(s)
    BY <1>1, <1>2, <2>0
  <2>4. /\ Len(t) = Len(s)
        /\ \A a \in 1..Len(s) : t[a] = IF a = k THEN n ELSE s[a]
    <3>1. s \in Seq(Nat)
      BY DEF SequencerTypeOK
    <3> QED BY <1>4, <2>1, <2>3, <3>1, ExceptSeq
  <2> HIDE DEF s, t, last
  <2>5. \A a \in Nat : Counts(a)' <=> a \in 1..Len(s) /\ (a <= k \/ a > cursor + 1)
    BY <1>1, <1>2, <2>0, <2>1, <2>4 DEF Counts, Kept, Seen, t
  <2>6. \A a \in Nat : Counts(a)' /\ a # k => Counts(a) /\ t[a] = s[a]
    BY <1>2, <1>3, <2>0, <2>3, <2>4, <2>5
  <2>7. \A a \in Nat : Counts(a) /\ a # cursor + 1 => Counts(a)' /\ a # k
    BY <1>2, <1>3, <2>0, <2>3, <2>5
  <2>8. k \in Nat /\ Counts(k)' /\ t[k] = n
    BY <2>3, <2>4, <2>5
  <2> HIDE DEF n
  <2>9. LoopBounds'
    BY <1>1, <1>2, <2>1, <2>4 DEF LoopBounds, s, t, last
  <2>10. StrictlySorted'
    <3> SUFFICES ASSUME NEW a \in Nat, NEW b \in Nat, Counts(a)', Counts(b)', a < b
                 PROVE  t[a] < t[b]
      BY DEF StrictlySorted, t
    <3>1. CASE a # k /\ b # k
      BY <1>5, <2>6, <3>1
    <3>2. CASE a = k
      <4>1. Counts(b) /\ t[b] = s[b] /\ b > cursor + 1
        BY <1>2, <2>5, <2>6, <3>2
      <4> QED BY <1>2, <1>4, <1>5, <2>8, <3>2, <4>1 DEF n
    <3>3. CASE b = k
      <4>1. Counts(a) /\ t[a] = s[a] /\ a < cursor + 1
        BY <1>2, <2>3, <2>6, <3>3
      <4> QED BY <1>2, <1>4, <1>5, <2>8, <3>3, <4>1 DEF n
    <3> QED BY <3>1, <3>2, <3>3
  <2>11. AboveTheGap'
    <3> SUFFICES ASSUME NEW a \in Nat, Counts(a)'
                 PROVE  t[a] > last /\ (a <= k => t[a] > last + 1)
      BY <1>1, <1>2, <2>0, <2>1 DEF AboveTheGap, Kept, t
    <3>1. CASE a = k
      BY <1>2, <1>4, <2>2, <2>8, <3>1
    <3>2. CASE a # k
      <4>1. Counts(a) /\ t[a] = s[a] /\ (a <= k => a <= cursor - removed)
        BY <1>2, <2>0, <2>6, <3>2
      <4> QED BY <1>6, <4>1
    <3> QED BY <3>1, <3>2
  <2>12. AccountedFor'
    <3>1. \A m \in Nat \ {0} :
            (\E a \in Nat : Counts(a) /\ s[a] = m)
              <=> \E a \in Nat : Counts(a)' /\ t[a] = m
      <4> TAKE m \in Nat \ {0}
      <4>1. ASSUME NEW a \in Nat, Counts(a), s[a] = m
            PROVE  \E b \in Nat : Counts(b)' /\ t[b] = m
        <5>1. CASE a = cursor + 1
          BY <2>8, <4>1, <5>1 DEF n
        <5>2. CASE a # cursor + 1
          BY <2>6, <2>7, <4>1, <5>2
        <5> QED BY <5>1, <5>2
      <4>2. ASSUME NEW a \in Nat, Counts(a)', t[a] = m
            PROVE  \E b \in Nat : Counts(b) /\ s[b] = m
        <5>1. CASE a = k
          BY <1>2, <1>4, <2>8, <4>2, <5>1 DEF n
        <5>2. CASE a # k
          BY <2>6, <4>2, <5>2
        <5> QED BY <5>1, <5>2
      <4> QED BY <4>1, <4>2
    <3> QED BY <1>1, <1>7, <2>1, <3>1 DEF AccountedFor, t, last
  <2> QED BY <1>8, <2>9, <2>10, <2>11, <2>12 DEF OrderInv
<1> QED BY <1>9, <1>10

(* The resize cuts off exactly what no longer counts.                      *)
LEMMA OrderShrinkAfterFill ==
  ASSUME SequencerTypeOK, OrderInv, ShrinkAfterFill
  PROVE  OrderInv'
<1> DEFINE s == out_of_sequence_numbers
           t == out_of_sequence_numbers'
<1>1. /\ call = "fill" /\ cursor = Len(s) /\ call' = "notify"
      /\ cursor' = 0 /\ removed' = 0
      /\ t = SubSeq(s, 1, Len(s) - removed)
      /\ UNCHANGED <<reported, latest_sequence_number,
                     last_finished_sequence_number>>
  BY DEF ShrinkAfterFill, Enter
<1>2. /\ Len(s) \in Nat /\ removed \in Nat /\ removed <= Len(s)
      /\ \A a \in 1..Len(s) : s[a] \in Nat
  BY <1>1, LenProperties DEF SequencerTypeOK, OrderInv, LoopBounds
<1>3. /\ Len(t) = Len(s) - removed
      /\ \A a \in 1..Len(s) - removed : t[a] = s[a]
  <2>1. /\ Len(SubSeq(s, 1, Len(s) - removed)) = Len(s) - removed
        /\ \A a \in 1..Len(s) - removed :
             SubSeq(s, 1, Len(s) - removed)[a] = s[a]
    BY <1>2, SubSeqProperties
  <2> QED BY <1>1, <2>1
<1> HIDE DEF s, t
<1>4. \A a \in Nat : Counts(a) <=> a \in 1..Len(t)
  BY <1>1, <1>2, <1>3 DEF Counts, Kept, Seen, s
<1>5. \A a \in Nat : Counts(a)' <=> a \in 1..Len(t)
  BY <1>1, <1>2, <1>3 DEF Counts, Kept, Seen, t
<1>6. \A a \in Nat : Counts(a) => t[a] = s[a] /\ a <= Kept
  BY <1>1, <1>2, <1>3, <1>4 DEF Kept
<1>7. LoopBounds'
  BY <1>1 DEF LoopBounds
<1>8. StrictlySorted'
  BY <1>4, <1>5, <1>6 DEF OrderInv, StrictlySorted, s, t
<1>9. AboveTheGap'
  BY <1>1, <1>4, <1>5, <1>6 DEF OrderInv, AboveTheGap, s, t
<1>10. AccountedFor'
  BY <1>1, <1>4, <1>5, <1>6 DEF OrderInv, AccountedFor, s, t
<1>11. NoneInventedInv'
  BY <1>1 DEF OrderInv, NoneInventedInv
<1> QED BY <1>7, <1>8, <1>9, <1>10, <1>11 DEF OrderInv

(* The remaining actions leave the numbers alone, or only hand out a new   *)
(* one.                                                                    *)
LEMMA OrderOtherSteps ==
  ASSUME SequencerTypeOK, OrderInv,
         UNCHANGED <<last_finished_sequence_number, out_of_sequence_numbers,
                     reported>>,
         latest_sequence_number' \in {latest_sequence_number,
                                      latest_sequence_number + 1},
         \/ UNCHANGED <<call, cursor, removed>>
         \/ call # "fill" /\ call' # "fill" /\ removed' <= cursor'
  PROVE  OrderInv'
<1>1. \A a \in Nat : Counts(a)' <=> Counts(a)
  BY DEF Counts, Kept, Seen
<1>2. LoopBounds'
  BY DEF OrderInv, LoopBounds
<1>3. StrictlySorted' /\ AccountedFor'
  BY <1>1 DEF OrderInv, StrictlySorted, AccountedFor
<1>4. AboveTheGap'
  BY <1>1 DEF OrderInv, AboveTheGap, Kept
<1>5. NoneInventedInv'
  BY DEF OrderInv, NoneInventedInv, SequencerTypeOK
<1> QED BY <1>2, <1>3, <1>4, <1>5 DEF OrderInv

LEMMA OrderStep == SequencerTypeOK /\ OrderInv /\ [SequencerNext]_numberVars => OrderInv'
<1> SUFFICES ASSUME SequencerTypeOK, OrderInv, [SequencerNext]_numberVars
             PROVE  OrderInv'
  OBVIOUS
<1>1. CASE GenerateNextCommandBufferSequenceNumber
  BY <1>1, OrderOtherSteps DEF GenerateNextCommandBufferSequenceNumber, locals
<1>2. ASSUME NEW n \in 1..latest_sequence_number, FinishedAboveGap(n)
      PROVE  OrderInv'
  BY <1>2, OrderFinishedAboveGap
<1>3. ASSUME NEW n \in 1..latest_sequence_number, FinishedInSequence(n)
      PROVE  OrderInv'
  BY <1>3, OrderFinishedInSequence
<1>4. CASE FillGap
  BY <1>4, OrderFillGap
<1>5. CASE ShrinkAfterFill
  BY <1>5, OrderShrinkAfterFill
<1>6. CASE NotifyListener
  <2>1. removed <= cursor /\ removed \in Nat /\ cursor \in Nat
    BY DEF OrderInv, LoopBounds, SequencerTypeOK
  <2>2. removed' <= cursor'
    BY <1>6, <2>1 DEF NotifyListener
  <2> QED BY <1>6, <2>2, OrderOtherSteps DEF NotifyListener
<1>7. CASE Return
  BY <1>7, OrderOtherSteps DEF Return, Enter
<1>8. ASSUME NEW l \in Listener, AddListener(l)
      PROVE  OrderInv'
  BY <1>8, OrderOtherSteps DEF AddListener, locals
<1>9. ASSUME NEW l \in Listener, RemoveListener(l)
      PROVE  OrderInv'
  BY <1>9, OrderOtherSteps DEF RemoveListener, locals
<1>10. CASE UNCHANGED numberVars
  BY <1>10, OrderOtherSteps DEF numberVars
<1> QED
  BY <1>1, <1>2, <1>3, <1>4, <1>5, <1>6, <1>7, <1>8, <1>9, <1>10
  DEF SequencerNext, Finished, CallStep
------------------------------------------------------------------------------
LEMMA ListenerInit == SequencerInit => ListenerInv
BY EmptySeq DEF SequencerInit, ListenerInv

LEMMA ListenerStep ==
  SequencerTypeOK /\ OrderInv /\ ListenerInv /\ [SequencerNext]_numberVars => ListenerInv'
<1> SUFFICES ASSUME SequencerTypeOK, OrderInv, ListenerInv, [SequencerNext]_numberVars
             PROVE  ListenerInv'
  OBVIOUS
<1> DEFINE last == last_finished_sequence_number
<1>0. /\ Len(listeners) \in Nat
      /\ \A a \in 1..Len(listeners) : listeners[a] \in Listener
      /\ heard \in [Listener -> Nat] /\ last \in Nat
      /\ cursor \in Nat /\ removed \in Nat
  BY LenProperties DEF SequencerTypeOK
<1>1. CASE GenerateNextCommandBufferSequenceNumber
  BY <1>1 DEF GenerateNextCommandBufferSequenceNumber, locals, ListenerInv
<1>2. ASSUME NEW n \in 1..latest_sequence_number, FinishedAboveGap(n)
      PROVE  ListenerInv'
  BY <1>2 DEF FinishedAboveGap, locals, ListenerInv
<1>3. ASSUME NEW n \in 1..latest_sequence_number, FinishedInSequence(n)
      PROVE  ListenerInv'
  <2>1. /\ call' = "fill" /\ removed' = 0 /\ UNCHANGED <<listeners, heard>>
        /\ last_finished_sequence_number' = last + 1
    BY <1>3 DEF FinishedInSequence, Enter
  <2>2. \A l \in Listener : heard[l] \in Nat /\ heard[l] <= last
    BY <1>0 DEF ListenerInv
  <2> QED BY <1>0, <2>1, <2>2 DEF ListenerInv
<1>4. CASE FillGap
  <2>1. /\ call = "fill" /\ call' = "fill" /\ UNCHANGED <<listeners, heard>>
        /\ \/ last_finished_sequence_number' = last + 1 /\ removed' = removed + 1
           \/ UNCHANGED <<last_finished_sequence_number, removed>>
    BY <1>4 DEF FillGap
  <2>2. \A l \in Listener : heard[l] \in Nat /\ heard[l] < last - removed
    BY <1>0, <2>1 DEF ListenerInv
  <2>3. last_finished_sequence_number' - removed' = last - removed
        /\ last_finished_sequence_number' >= last
    BY <1>0, <2>1
  <2>4. \A l \in Listener : heard[l] <= last
    BY DEF ListenerInv
  <2>5. last_finished_sequence_number' \in Nat
    BY <1>0, <2>1
  <2>6. \A l \in Listener : heard[l] <= last_finished_sequence_number'
    BY <1>0, <2>2, <2>3, <2>4, <2>5
  <2> QED BY <2>1, <2>2, <2>3, <2>6 DEF ListenerInv
<1>5. CASE ShrinkAfterFill
  <2>1. /\ call = "fill" /\ call' = "notify" /\ cursor' = 0
        /\ UNCHANGED <<listeners, heard, last_finished_sequence_number>>
    BY <1>5 DEF ShrinkAfterFill, Enter
  <2>2. \A l \in Listener : heard[l] < last
    BY <1>0, <2>1 DEF ListenerInv
  <2> QED BY <1>0, <2>1, <2>2 DEF ListenerInv
<1>6. CASE NotifyListener
  <2> DEFINE told == listeners[cursor + 1]
  <2>1. /\ call = "notify" /\ call' = "notify" /\ cursor < Len(listeners)
        /\ heard' = [heard EXCEPT ![told] = last]
        /\ cursor' = cursor + 1
        /\ UNCHANGED <<listeners, last_finished_sequence_number, removed>>
    BY <1>6 DEF NotifyListener
  <2>2. told \in Listener /\ cursor + 1 \in 1..Len(listeners)
    BY <1>0, <2>1
  <2>3. \A l \in Listener : heard'[l] = IF l = told THEN last ELSE heard[l]
    BY <1>0, <2>1
  <2>4. \A a \in 1..Len(listeners) :
          a # cursor + 1 => listeners[a] # told
    BY <2>2 DEF ListenerInv
  <2>5. \A a \in 1..Len(listeners) :
          IF a <= cursor + 1
          THEN heard'[listeners[a]] = last
          ELSE heard'[listeners[a]] < last
    <3> TAKE a \in 1..Len(listeners)
    <3>1. CASE a = cursor + 1
      BY <2>2, <2>3, <3>1
    <3>2. CASE a # cursor + 1
      <4>1. heard'[listeners[a]] = heard[listeners[a]]
        BY <1>0, <2>3, <2>4, <3>2
      <4>2. IF a <= cursor THEN heard[listeners[a]] = last
            ELSE heard[listeners[a]] < last
        BY <2>1 DEF ListenerInv
      <4> QED BY <1>0, <3>2, <4>1, <4>2
    <3> QED BY <3>1, <3>2
  <2>6. \A l \in Listener : heard'[l] <= last
    BY <1>0, <2>3 DEF ListenerInv
  <2> QED BY <2>1, <2>5, <2>6 DEF ListenerInv
<1>7. CASE Return
  <2>1. /\ call = "notify" /\ call' = "none" /\ cursor = Len(listeners)
        /\ UNCHANGED <<listeners, heard, last_finished_sequence_number>>
    BY <1>7 DEF Return, Enter
  <2>2. \A a \in 1..Len(listeners) : heard[listeners[a]] = last
    BY <1>0, <2>1 DEF ListenerInv
  <2> QED BY <2>1, <2>2 DEF ListenerInv
<1>8. ASSUME NEW l \in Listener, AddListener(l)
      PROVE  ListenerInv'
  <2>1. /\ call = "none" /\ call' = "none"
        /\ \A a \in 1..Len(listeners) : listeners[a] # l
        /\ listeners' = Append(listeners, l)
        /\ heard' = [heard EXCEPT ![l] = 0]
        /\ UNCHANGED last_finished_sequence_number
    BY <1>8, LenProperties DEF AddListener, Idle, locals, ToSet, SequencerTypeOK
  <2>2. /\ Len(listeners') = Len(listeners) + 1
        /\ \A a \in 1..Len(listeners) + 1 :
             listeners'[a] = IF a <= Len(listeners) THEN listeners[a] ELSE l
    BY <2>1, AppendProperties DEF SequencerTypeOK
  <2>3. \A m \in Listener : heard'[m] = IF m = l THEN 0 ELSE heard[m]
    BY <1>0, <2>1
  <2>4. \A m \in Listener : heard'[m] <= last
    BY <1>0, <2>3 DEF ListenerInv
  <2>5. \A a, b \in 1..Len(listeners') : listeners'[a] = listeners'[b] => a = b
    BY <1>0, <2>1, <2>2 DEF ListenerInv
  <2>6. \A a \in 1..Len(listeners') : heard'[listeners'[a]] \in {0, last}
    BY <1>0, <2>1, <2>2, <2>3 DEF ListenerInv
  <2> QED BY <2>1, <2>4, <2>5, <2>6 DEF ListenerInv
<1>9. ASSUME NEW l \in Listener, RemoveListener(l)
      PROVE  ListenerInv'
  <2>1. PICK p \in 1..Len(listeners) : listeners' = RemoveAt(listeners, p)
    BY <1>9 DEF RemoveListener
  <2>2. /\ call = "none" /\ call' = "none"
        /\ UNCHANGED <<heard, last_finished_sequence_number>>
    BY <1>9 DEF RemoveListener, Idle, locals
  <2>3. listeners \in Seq(Listener)
    BY DEF SequencerTypeOK
  <2>4. /\ Len(listeners') = Len(listeners) - 1
        /\ \A a \in 1..Len(listeners) - 1 :
             listeners'[a] = IF a < p THEN listeners[a] ELSE listeners[a + 1]
    BY <2>1, <2>3, RemoveAtProperties
  <2>5. \A a, b \in 1..Len(listeners') : listeners'[a] = listeners'[b] => a = b
    <3> SUFFICES ASSUME NEW a \in 1..Len(listeners'), NEW b \in 1..Len(listeners'),
                        listeners'[a] = listeners'[b]
                 PROVE  a = b
      OBVIOUS
    <3> DEFINE from(x) == IF x < p THEN x ELSE x + 1
    <3>0. \A x \in 1..Len(listeners) - 1 :
            from(x) \in 1..Len(listeners) /\ listeners'[x] = listeners[from(x)]
      <4> TAKE x \in 1..Len(listeners) - 1
      <4>1. Len(listeners) \in Nat
        BY <2>3, LenProperties
      <4>2. CASE x < p
        <5>1. from(x) = x
          BY <4>2
        <5>2. listeners'[x] = listeners[x]
          BY <2>4, <4>2
        <5> HIDE DEF from
        <5> QED BY <4>1, <5>1, <5>2
      <4>3. CASE ~(x < p)
        <5>1. from(x) = x + 1
          BY <4>3
        <5>2. listeners'[x] = listeners[x + 1]
          BY <2>4, <4>3
        <5> HIDE DEF from
        <5> QED BY <4>1, <5>1, <5>2
      <4> QED BY <4>2, <4>3
    <3> HIDE DEF from
    <3>1. /\ from(a) \in 1..Len(listeners) /\ from(b) \in 1..Len(listeners)
          /\ listeners[from(a)] = listeners[from(b)]
      BY <2>4, <3>0
    <3>2. from(a) = from(b)
      BY <3>1 DEF ListenerInv
    <3>3. a \in Int /\ b \in Int /\ p \in Int
      BY <2>3, <2>4, LenProperties
    <3>4. CASE a < p
      <4>1. from(a) = a
        BY <3>4 DEF from
      <4> HIDE DEF from
      <4>2. from(b) = b \/ (~(b < p) /\ from(b) = b + 1)
        BY DEF from
      <4> QED BY <3>2, <3>3, <3>4, <4>1, <4>2
    <3>5. CASE ~(a < p)
      <4>1. from(a) = a + 1
        BY <3>5 DEF from
      <4> HIDE DEF from
      <4>2. (b < p /\ from(b) = b) \/ from(b) = b + 1
        BY DEF from
      <4> QED BY <3>2, <3>3, <3>5, <4>1, <4>2
    <3> QED BY <3>4, <3>5
  <2>6. \A a \in 1..Len(listeners') : heard[listeners'[a]] \in {0, last}
    BY <1>0, <2>2, <2>4 DEF ListenerInv
  <2> QED BY <2>2, <2>5, <2>6 DEF ListenerInv
<1>10. CASE UNCHANGED numberVars
  BY <1>10 DEF numberVars, ListenerInv
<1> QED
  BY <1>1, <1>2, <1>3, <1>4, <1>5, <1>6, <1>7, <1>8, <1>9, <1>10
  DEF SequencerNext, Finished, CallStep

(* The three invariants together are inductive.                            *)
THEOREM Invariant == SequencerSpec => [](SequencerTypeOK /\ OrderInv /\ ListenerInv)
<1>1. SequencerInit => SequencerTypeOK /\ OrderInv /\ ListenerInv
  BY TypeInit, OrderInit, ListenerInit
<1>2. SequencerTypeOK /\ OrderInv /\ ListenerInv /\ [SequencerNext]_numberVars
        => (SequencerTypeOK /\ OrderInv /\ ListenerInv)'
  BY TypeStep, OrderStep, ListenerStep
<1> QED BY <1>1, <1>2, PTL DEF SequencerSpec
------------------------------------------------------------------------------
(* Nobody is ever told that an unfinished command buffer has finished: the *)
(* promise ResourceRecycler relies on to destroy Vulkan objects, for any   *)
(* number of buffers, any completion order and any set of listeners.       *)
THEOREM NobodyToldTooEarly == SequencerSpec => []HeardOnlyFinished
<1>1. SequencerTypeOK /\ OrderInv /\ ListenerInv => HeardOnlyFinished
  <2> SUFFICES ASSUME SequencerTypeOK, OrderInv, ListenerInv, NEW l \in Listener,
                      NEW n \in 1..heard[l]
               PROVE  n \in reported
    BY DEF HeardOnlyFinished
  <2>1. heard[l] \in Nat /\ heard[l] <= last_finished_sequence_number
    BY DEF SequencerTypeOK, ListenerInv
  <2>2. n \in Nat \ {0} /\ n <= last_finished_sequence_number
    BY <2>1 DEF SequencerTypeOK
  <2> QED BY <2>2 DEF OrderInv, AccountedFor
<1> QED BY <1>1, Invariant, PTL

(* Between calls the reported numbers are those in sequence and those in   *)
(* the sorted vector, and the next number in sequence is really missing.   *)
THEOREM BookkeepingExact == SequencerSpec => []NothingLostOrHeldBack
<1>1. SequencerTypeOK /\ OrderInv => NothingLostOrHeldBack
  <2> SUFFICES ASSUME SequencerTypeOK, OrderInv, Idle
               PROVE  /\ reported = 1..last_finished_sequence_number
                                      \cup ToSet(out_of_sequence_numbers)
                      /\ last_finished_sequence_number + 1 \notin reported
                      /\ Increasing(out_of_sequence_numbers)
    BY DEF NothingLostOrHeldBack
  <2> DEFINE s == out_of_sequence_numbers
             last == last_finished_sequence_number
  <2>1. /\ Len(s) \in Nat /\ DOMAIN s = 1..Len(s) /\ last \in Nat
        /\ \A a \in 1..Len(s) : s[a] \in Nat
    BY LenProperties DEF SequencerTypeOK
  <2>2. call = "none"
    BY DEF Idle
  <2>3. \A a \in Nat : Counts(a) <=> a \in 1..Len(s)
    BY <2>2, AllCount
  <2>4. \A a \in 1..Len(s) : s[a] > last + 1
    BY <2>1, <2>2, <2>3 DEF OrderInv, AboveTheGap
  <2>5. \A n \in Nat \ {0} :
          n \in reported <=> n <= last \/ \E a \in 1..Len(s) : s[a] = n
    BY <2>1, <2>3 DEF OrderInv, AccountedFor
  <2>6. ToSet(s) = {s[a] : a \in 1..Len(s)}
    BY <2>1 DEF ToSet
  <2>7. reported \subseteq Nat \ {0} /\ ToSet(s) \subseteq Nat \ {0}
    BY <2>1, <2>4, <2>6 DEF SequencerTypeOK
  <2>8. \A n \in Nat \ {0} : n \in ToSet(s) <=> \E a \in 1..Len(s) : s[a] = n
    BY <2>6
  <2>9. reported = 1..last \cup ToSet(s)
    <3> HIDE DEF s, last
    <3>1. \A n \in Nat \ {0} : n \in 1..last <=> n <= last
      BY <2>1
    <3>2. \A n \in Nat \ {0} : n \in reported <=> n \in 1..last \cup ToSet(s)
      BY <2>5, <2>8, <3>1, Zenon
    <3>3. 1..last \subseteq Nat \ {0}
      BY <2>1
    <3> QED BY <2>7, <3>2, <3>3, Zenon
  <2>10. last + 1 \notin reported
    BY <2>1, <2>4, <2>5
  <2>11. Increasing(s)
    BY <2>1, <2>3 DEF OrderInv, StrictlySorted, Increasing
  <2> QED BY <2>9, <2>10, <2>11
<1> QED BY <1>1, Invariant, PTL

(* All registered listeners that were told anything were told the same.    *)
THEOREM NoListenerSkipped == SequencerSpec => []ListenersAgree
<1>1. ListenerInv => ListenersAgree
  BY DEF ListenerInv, ListenersAgree, Idle
<1> QED BY <1>1, Invariant, PTL

(* No notification is stale: the FTL_DCHECK in ResourceRecycler holds.     *)
THEOREM NoStaleNotification == SequencerSpec => NotificationsAdvance
<1>1. ASSUME SequencerTypeOK, ListenerInv, NotifyListener, NEW l \in Listener,
             l = listeners[cursor + 1]
      PROVE  heard[l] < heard'[l]
  <2>1. /\ call = "notify" /\ cursor < Len(listeners) /\ cursor \in Nat
        /\ heard' = [heard EXCEPT ![l] = last_finished_sequence_number]
    BY <1>1 DEF NotifyListener, SequencerTypeOK
  <2>2. Len(listeners) \in Nat /\ cursor + 1 \in 1..Len(listeners)
    BY <2>1, LenProperties DEF SequencerTypeOK
  <2>3. heard[l] < last_finished_sequence_number
    BY <1>1, <2>1, <2>2 DEF ListenerInv
  <2>4. heard \in [Listener -> Nat]
    BY <1>1 DEF SequencerTypeOK
  <2>5. heard'[l] = last_finished_sequence_number
    BY <2>1, <2>4
  <2> QED BY <2>3, <2>5
<1>2. SequencerTypeOK /\ ListenerInv /\ [SequencerNext]_numberVars
        => [\A l \in Listener :
              (NotifyListener /\ cursor < Len(listeners)
                 /\ l = listeners[cursor + 1]) => heard[l] < heard'[l]]_numberVars
  BY <1>1
<1> QED BY <1>2, Invariant, PTL DEF SequencerSpec, NotificationsAdvance

(* Outside the loop the next number in sequence is not reported.           *)
LEMMA NextIsMissing ==
  SequencerTypeOK /\ OrderInv
    => (call # "fill" => last_finished_sequence_number + 1 \notin reported)
<1> SUFFICES ASSUME SequencerTypeOK, OrderInv, call # "fill"
             PROVE  last_finished_sequence_number + 1 \notin reported
  OBVIOUS
<1> DEFINE last == last_finished_sequence_number
<1>1. last \in Nat /\ \A a \in Nat : Counts(a) =>
                           out_of_sequence_numbers[a] \in Nat
  BY LenProperties DEF SequencerTypeOK, Counts
<1>2. \A a \in Nat : Counts(a) => out_of_sequence_numbers[a] # last + 1
  BY <1>1 DEF OrderInv, AboveTheGap
<1>3. ~(last + 1 <= last) /\ last + 1 \in Nat \ {0}
  BY <1>1
<1> QED BY <1>2, <1>3 DEF OrderInv, AccountedFor

(* The implementation theorem: whatever the vector and the two loops do,   *)
(* what the rest of Escher can see is a CompletionOrder.                   *)
THEOREM Implementation == SequencerSpec => ImplementsCompletionOrder
<1> DEFINE last == last_finished_sequence_number
<1>0. SequencerTypeOK' /\ OrderInv'
        => (call # "fill" => last_finished_sequence_number + 1 \notin reported)'
  BY NextIsMissing, PTL
<1>1. SequencerInit => Completion!Init
  BY DEF SequencerInit, Completion!Init, abstractFinished, abstractAnnounced
<1>2. ASSUME SequencerTypeOK, SequencerTypeOK', OrderInv, OrderInv', [SequencerNext]_numberVars
      PROVE  [Completion!Next]_(Completion!orderVars)
  <2> USE DEF abstractFinished, abstractAnnounced, startedCall
  <2>0. /\ last \in Nat /\ removed \in Nat /\ latest_sequence_number \in Nat
        /\ call = "fill" => removed < last
        /\ \A n \in Nat \ {0} : n <= last => n \in reported
        /\ reported \subseteq 1..latest_sequence_number
    BY <1>2 DEF SequencerTypeOK, OrderInv, LoopBounds, AccountedFor, NoneInventedInv
  <2>11. call # "fill" => last + 1 \notin reported
    BY <1>2, NextIsMissing
  <2>12. call' # "fill" =>
          last_finished_sequence_number' + 1 \notin reported'
    BY <1>2, <1>0
  <2>1. CASE GenerateNextCommandBufferSequenceNumber
    BY <2>1 DEF GenerateNextCommandBufferSequenceNumber, Idle, locals,
                Completion!Next, Completion!Issue, Completion!orderVars
  <2>2. ASSUME NEW n \in 1..latest_sequence_number, FinishedAboveGap(n)
        PROVE  Completion!Finish(n)
    <3>1. /\ call = "none" /\ call' = "none" /\ n \notin reported
          /\ n # last + 1 /\ reported' = reported \cup {n}
          /\ UNCHANGED <<last_finished_sequence_number, latest_sequence_number,
                         removed>>
      BY <2>2 DEF FinishedAboveGap, Reportable, Idle, locals
    <3>2. last <= latest_sequence_number
      BY <2>0
    <3>3. last + 1 \notin reported' /\ 1..last \subseteq reported'
      BY <2>0, <2>11, <3>1
    <3> QED BY <2>0, <3>1, <3>2, <3>3 DEF Completion!Finish, Completion!AllDoneUpTo
  <2>3. ASSUME NEW n \in 1..latest_sequence_number, FinishedInSequence(n)
        PROVE  UNCHANGED Completion!orderVars
    <3>1. /\ call = "none" /\ call' = "fill" /\ removed' = 0
          /\ n \notin reported /\ n = last + 1 /\ reported' = reported \cup {n}
          /\ last_finished_sequence_number' = n
          /\ UNCHANGED latest_sequence_number
      BY <2>3 DEF FinishedInSequence, Reportable, Idle, Enter
    <3> QED BY <2>0, <3>1 DEF Completion!orderVars
  <2>4. CASE FillGap
    <3>1. /\ call = "fill" /\ call' = "fill"
          /\ UNCHANGED <<latest_sequence_number, reported>>
          /\ \/ last_finished_sequence_number' = last + 1 /\ removed' = removed + 1
             \/ UNCHANGED <<last_finished_sequence_number, removed>>
      BY <2>4 DEF FillGap
    <3>2. startedCall' = startedCall
      BY <2>0, <3>1
    <3> QED BY <3>1, <3>2 DEF Completion!orderVars
  <2>5. CASE ShrinkAfterFill
    <3>1. /\ call = "fill" /\ call' = "notify"
          /\ UNCHANGED <<latest_sequence_number, reported,
                         last_finished_sequence_number>>
      BY <2>5 DEF ShrinkAfterFill, Enter
    <3> DEFINE n == last - removed
    <3>2. n \in Nat \ {0} /\ n <= last /\ n \in reported
      BY <2>0, <3>1
    <3>3. last <= latest_sequence_number /\ last \in reported
      BY <2>0, <3>1, <3>2
    <3>4. last + 1 \notin reported
      BY <2>12, <3>1
    <3>5. Completion!Finish(n)
      BY <2>0, <3>1, <3>2, <3>3, <3>4 DEF Completion!Finish, Completion!AllDoneUpTo
    <3> QED BY <2>0, <3>2, <3>3, <3>5 DEF Completion!Next
  <2>6. CASE NotifyListener
    BY <2>6 DEF NotifyListener, Completion!orderVars
  <2>7. CASE Return
    BY <2>7 DEF Return, Enter, Completion!orderVars
  <2>8. ASSUME NEW l \in Listener, AddListener(l) \/ RemoveListener(l)
        PROVE  UNCHANGED Completion!orderVars
    BY <2>8 DEF AddListener, RemoveListener, locals, Completion!orderVars
  <2>9. CASE UNCHANGED numberVars
    BY <2>9 DEF numberVars, Completion!orderVars
  <2>10. ASSUME NEW n \in 1..latest_sequence_number, FinishedAboveGap(n)
         PROVE  Completion!Next
    BY <2>2, <2>10 DEF Completion!Next
  <2> QED
    BY <1>2, <2>1, <2>10, <2>3, <2>4, <2>5, <2>6, <2>7, <2>8, <2>9
    DEF SequencerNext, Finished, CallStep
<1> QED BY <1>1, <1>2, Invariant, PTL DEF SequencerSpec, ImplementsCompletionOrder, Completion!Spec

(* cs maps 1..n to S.                                                      *)
AllIn(cs, n, S) == n \in Nat /\ DOMAIN cs = 1..n /\ \A i \in 1..n : cs[i] \in S

(* DisplayList.                                                            *)
ClipperStates == {"NoClipChildren", "BeginClipChildren", "EndClipChildren"}

PipelineSpecs ==
  [is_clippee: BOOLEAN, clipper_state: ClipperStates, has_material: BOOLEAN,
   is_opaque: BOOLEAN, disable_depth_test: BOOLEAN]

DisplayItems ==
  [object: Object, buffer: Nat, offset: Nat, set: Nat \X Nat, pipeline: PipelineSpecs,
   stencil_reference: Int]

Builders ==
  [items: Seq(DisplayItems), clip_depth: Int, disable_depth_test: BOOLEAN,
   uniform_buffer: Nat, write_index: Nat, allocation: Nat, set_index: Nat]

(* The data of an item are where the builder has written.                  *)
HasPlace(b, x) ==
  /\ x.offset + kPerObjectSize <= kBufferSize
  /\ x.buffer = 1 => x.offset >= kPerModelSize
  /\ x.buffer <= b.uniform_buffer
  /\ x.buffer = b.uniform_buffer => x.offset + kPerObjectSize <= b.write_index
  /\ x.set[1] <= b.allocation
  /\ x.set[1] = b.allocation => x.set[2] <= b.set_index

Apart(x, y) ==
  /\ x.set # y.set
  /\ \/ x.buffer # y.buffer
     \/ x.offset + kPerObjectSize <= y.offset
     \/ y.offset + kPerObjectSize <= x.offset

CountersOK(b) ==
  /\ b.uniform_buffer >= 1
  /\ b.uniform_buffer = 1 => b.write_index >= kPerModelSize

WellPlaced(b) ==
  /\ b \in Builders
  /\ CountersOK(b)
  /\ \A i \in 1..Len(b.items) : HasPlace(b, b.items[i])
  /\ \A i, j \in 1..Len(b.items) :
       b.items[i].object # b.items[j].object => Apart(b.items[i], b.items[j])

Keeps(b, c) ==
  /\ Len(b.items) <= Len(c.items)
  /\ \A i \in 1..Len(b.items) : c.items[i] = b.items[i]

LEMMA AlignedIsNext ==
  ASSUME NEW position, position \in Nat
  PROVE  AlignedToNext(position, kAlignment) \in Nat /\ AlignedToNext(position, kAlignment) >= position
  BY SceneAssumption DEF AlignedToNext

(* Before the next object is pushed: room for its data, and a set.         *)
LEMMA PrepareGives ==
  ASSUME NEW b, b \in Builders, CountersOK(b)
  PROVE  LET c == PrepareUniformBuffer(b)
         IN  /\ c \in Builders
             /\ CountersOK(c)
             /\ c.write_index + kPerObjectSize <= kBufferSize
             /\ \/ c.uniform_buffer = b.uniform_buffer + 1
                \/ c.uniform_buffer = b.uniform_buffer /\ c.write_index >= b.write_index
             /\ c.items = b.items /\ c.clip_depth = b.clip_depth
             /\ c.allocation = b.allocation /\ c.set_index = b.set_index
             /\ c.disable_depth_test = b.disable_depth_test
<1> PICK index : index = AlignedToNext(b.write_index, kAlignment)
  OBVIOUS
<1>1. index \in Nat /\ index >= b.write_index
  BY AlignedIsNext DEF Builders
<1>2. kBufferSize \in Nat /\ kPerModelSize \in Nat /\ kPerObjectSize \in Nat /\ kPerObjectSize <= kBufferSize
  BY SceneAssumption
<1>3. b.uniform_buffer \in Nat /\ b.write_index \in Nat
  BY DEF Builders
<1>4. CASE index + kPerObjectSize > kBufferSize
  <2> PICK c : c = [b EXCEPT !.uniform_buffer = @ + 1, !.write_index = 0]
    OBVIOUS
  <2>1. PrepareUniformBuffer(b) = c
    BY <1>4 DEF PrepareUniformBuffer
  <2>2. /\ c.uniform_buffer = b.uniform_buffer + 1 /\ c.write_index = 0
        /\ c.items = b.items /\ c.clip_depth = b.clip_depth
        /\ c.allocation = b.allocation /\ c.set_index = b.set_index
        /\ c.disable_depth_test = b.disable_depth_test
    BY DEF Builders
  <2>4. c \in Builders
    <3>1. b.uniform_buffer + 1 \in Nat /\ 0 \in Nat
      BY <1>3
    <3> QED BY <3>1 DEF Builders
  <2>3. CountersOK(c) /\ c.write_index + kPerObjectSize <= kBufferSize
    BY <1>2, <1>3, <2>2 DEF CountersOK
  <2> QED BY <2>1, <2>2, <2>3, <2>4
<1>5. CASE ~(index + kPerObjectSize > kBufferSize)
  <2> PICK c : c = [b EXCEPT !.write_index = index]
    OBVIOUS
  <2>1. PrepareUniformBuffer(b) = c
    BY <1>5 DEF PrepareUniformBuffer
  <2>2. /\ c.uniform_buffer = b.uniform_buffer /\ c.write_index = index
        /\ c.items = b.items /\ c.clip_depth = b.clip_depth
        /\ c.allocation = b.allocation /\ c.set_index = b.set_index
        /\ c.disable_depth_test = b.disable_depth_test
        /\ c \in Builders
    BY <1>1 DEF Builders
  <2>3. CountersOK(c) /\ c.write_index + kPerObjectSize <= kBufferSize
    BY <1>1, <1>2, <1>3, <1>5, <2>2 DEF CountersOK
  <2> QED BY <1>1, <2>1, <2>2, <2>3
<1> QED BY <1>4, <1>5

LEMMA ObtainSetGives ==
  ASSUME NEW b, b \in Builders
  PROVE  LET c == ObtainPerObjectDescriptorSet(b)
         IN  /\ c \in Builders
             /\ c.uniform_buffer = b.uniform_buffer /\ c.write_index = b.write_index
             /\ c.items = b.items /\ c.clip_depth = b.clip_depth
             /\ \/ c.allocation = b.allocation + 1
                \/ c.allocation = b.allocation /\ c.set_index = b.set_index + 1
             /\ c.disable_depth_test = b.disable_depth_test
<1>1. b.allocation + 1 \in Nat /\ b.set_index + 1 \in Nat /\ 1 \in Nat
  BY DEF Builders
<1>2. CASE b.set_index >= kSetsPerAllocation
  <2> PICK c : c = [b EXCEPT !.allocation = @ + 1, !.set_index = 1]
    OBVIOUS
  <2>1. ObtainPerObjectDescriptorSet(b) = c
    BY <1>2 DEF ObtainPerObjectDescriptorSet
  <2>2. c \in Builders
    BY <1>1 DEF Builders
  <2> QED BY <2>1, <2>2 DEF Builders
<1>3. CASE ~(b.set_index >= kSetsPerAllocation)
  <2> PICK c : c = [b EXCEPT !.set_index = @ + 1]
    OBVIOUS
  <2>1. ObtainPerObjectDescriptorSet(b) = c
    BY <1>3 DEF ObtainPerObjectDescriptorSet
  <2>2. c \in Builders
    BY <1>1 DEF Builders
  <2> QED BY <2>1, <2>2 DEF Builders
<1> QED BY <1>2, <1>3

LEMMA SpecType ==
  ASSUME NEW clippee, NEW state, NEW material, NEW disable,
         clippee \in BOOLEAN, state \in ClipperStates, disable \in BOOLEAN
  PROVE  GetPipeline(pipelines, PipelineSpec(clippee, state, material, disable)) \in PipelineSpecs
  BY DEF GetPipeline, PipelineSpec, PipelineSpecs

LEMMA LaterPlace ==
  ASSUME NEW bu, NEW bw, NEW cu, NEW cw, NEW xu, NEW xo, NEW room,
         bu \in Nat, bw \in Nat, cu \in Nat, cw \in Nat, xu \in Nat, xo \in Nat, room \in Nat,
         cu = bu + 1 \/ (cu = bu /\ cw >= bw), xu <= bu, xu = bu => xo + room <= bw
  PROVE  /\ xu <= cu
         /\ xu = cu => xo + room <= cw + room
         /\ xu # cu \/ xo + room <= cw
  OBVIOUS

LEMMA LaterSet ==
  ASSUME NEW ba, NEW bs, NEW ca, NEW cs, NEW s1, NEW s2,
         ba \in Nat, bs \in Nat, ca \in Nat, cs \in Nat, s1 \in Nat, s2 \in Nat,
         ca = ba + 1 \/ (ca = ba /\ cs = bs + 1), s1 <= ba, s1 = ba => s2 <= bs
  PROVE  /\ s1 <= ca
         /\ s1 = ca => s2 <= cs
         /\ s1 # ca \/ s2 # cs
  OBVIOUS

(* A pushed item is the greatest so far, in its buffers and its sets.      *)
LEMMA PushIsGood ==
  ASSUME NEW b, NEW o, NEW state, NEW disable, WellPlaced(b), o \in Object,
         state \in ClipperStates, disable \in BOOLEAN
  PROVE  WellPlaced(PushItem(b, o, state, disable)) /\ Keeps(b, PushItem(b, o, state, disable))
<1>0. /\ kBufferSize \in Nat /\ kPerModelSize \in Nat /\ kPerObjectSize \in Nat
      /\ kPerObjectSize <= kBufferSize
  BY SceneAssumption
<1>1. b \in Builders /\ CountersOK(b)
  BY DEF WellPlaced
<1> PICK p : p = PrepareUniformBuffer(b)
  OBVIOUS
<1> PICK c : c = ObtainPerObjectDescriptorSet(p)
  OBVIOUS
<1>2. /\ p \in Builders
      /\ CountersOK(p)
      /\ p.write_index + kPerObjectSize <= kBufferSize
      /\ \/ p.uniform_buffer = b.uniform_buffer + 1
         \/ p.uniform_buffer = b.uniform_buffer /\ p.write_index >= b.write_index
      /\ p.items = b.items /\ p.clip_depth = b.clip_depth
      /\ p.allocation = b.allocation /\ p.set_index = b.set_index
  BY <1>1, PrepareGives
<1>3. /\ c \in Builders
      /\ c.uniform_buffer = p.uniform_buffer /\ c.write_index = p.write_index
      /\ c.items = p.items /\ c.clip_depth = p.clip_depth
      /\ \/ c.allocation = p.allocation + 1
         \/ c.allocation = p.allocation /\ c.set_index = p.set_index + 1
  BY <1>2, ObtainSetGives
<1> PICK spec : spec = GetPipeline(pipelines, PipelineSpec(b.clip_depth > 0, state,
                                                           model.material[o], disable))
  OBVIOUS
<1>4. spec \in PipelineSpecs
  <2>1. (b.clip_depth > 0) \in BOOLEAN
    OBVIOUS
  <2> QED BY <2>1, SpecType
<1> PICK item : item = [object |-> o, buffer |-> c.uniform_buffer, offset |-> c.write_index,
                        set |-> <<c.allocation, c.set_index>>, pipeline |-> spec,
                        stencil_reference |-> b.clip_depth]
  OBVIOUS
<1> PICK d : d = [c EXCEPT !.items = Append(@, item),
                           !.write_index = @ + kPerObjectSize,
                           !.disable_depth_test = disable]
  OBVIOUS
<1>5. PushItem(b, o, state, disable) = d
  BY DEF PushItem
<1>6. /\ b.uniform_buffer \in Nat /\ b.write_index \in Nat /\ b.allocation \in Nat
      /\ b.set_index \in Nat /\ b.clip_depth \in Int /\ b.items \in Seq(DisplayItems)
      /\ c.uniform_buffer \in Nat /\ c.write_index \in Nat /\ c.allocation \in Nat
      /\ c.set_index \in Nat
  BY <1>1, <1>3 DEF Builders
<1>7. item \in DisplayItems
  BY <1>4, <1>6 DEF DisplayItems
<1>8. /\ d.items = Append(b.items, item)
      /\ d.write_index = c.write_index + kPerObjectSize
      /\ d.uniform_buffer = c.uniform_buffer /\ d.allocation = c.allocation
      /\ d.set_index = c.set_index
  BY <1>2, <1>3 DEF Builders
<1>9. d \in Builders
  <2>1. Append(c.items, item) \in Seq(DisplayItems)
    BY <1>2, <1>3, <1>6, <1>7, AppendProperties
  <2>2. c.write_index + kPerObjectSize \in Nat
    BY <1>0, <1>6
  <2> PICK its, w : its = Append(c.items, item) /\ w = c.write_index + kPerObjectSize
    OBVIOUS
  <2>3. d = [c EXCEPT !.items = its, !.write_index = w, !.disable_depth_test = disable]
    OBVIOUS
  <2>4. its \in Seq(DisplayItems) /\ w \in Nat
    BY <2>1, <2>2
  <2> QED BY <1>3, <2>3, <2>4 DEF Builders
<1>10. /\ Len(d.items) = Len(b.items) + 1 /\ Len(b.items) \in Nat
       /\ \A i \in 1..Len(b.items) : d.items[i] = b.items[i] /\ b.items[i] \in DisplayItems
       /\ d.items[Len(b.items) + 1] = item
  BY <1>6, <1>7, <1>8, AppendProperties, ElementOfSeq, LenProperties
<1>11. CountersOK(d)
  BY <1>0, <1>2, <1>3, <1>6, <1>8 DEF CountersOK
<1>12. HasPlace(d, item)
  <2>1. /\ item.buffer = c.uniform_buffer /\ item.offset = c.write_index
        /\ item.set[1] = c.allocation /\ item.set[2] = c.set_index
    OBVIOUS
  <2>2. /\ c.write_index + kPerObjectSize <= kBufferSize
        /\ c.uniform_buffer = 1 => c.write_index >= kPerModelSize
    BY <1>2, <1>3 DEF CountersOK
  <2>3. c.uniform_buffer <= c.uniform_buffer /\ c.allocation <= c.allocation /\ c.set_index <= c.set_index
        /\ c.write_index + kPerObjectSize <= c.write_index + kPerObjectSize
    BY <1>0, <1>6
  <2> QED BY <1>8, <2>1, <2>2, <2>3 DEF HasPlace
<1>13. ASSUME NEW x \in DisplayItems, HasPlace(b, x)
       PROVE  HasPlace(d, x) /\ Apart(x, item) /\ Apart(item, x)
  <2>1. x.buffer \in Nat /\ x.offset \in Nat /\ x.set \in Nat \X Nat
    BY DEF DisplayItems
  <2> PICK s1, s2 : s1 = x.set[1] /\ s2 = x.set[2]
    OBVIOUS
  <2>2. s1 \in Nat /\ s2 \in Nat /\ x.set = <<s1, s2>>
    BY <2>1
  <2>3. /\ x.offset + kPerObjectSize <= kBufferSize
        /\ x.buffer = 1 => x.offset >= kPerModelSize
        /\ x.buffer <= b.uniform_buffer
        /\ x.buffer = b.uniform_buffer => x.offset + kPerObjectSize <= b.write_index
        /\ s1 <= b.allocation
        /\ s1 = b.allocation => s2 <= b.set_index
    BY <1>13 DEF HasPlace
  <2>9. /\ x.buffer <= c.uniform_buffer
        /\ x.buffer = c.uniform_buffer => x.offset + kPerObjectSize <= c.write_index + kPerObjectSize
        /\ x.buffer # c.uniform_buffer \/ x.offset + kPerObjectSize <= c.write_index
    <3>1. c.uniform_buffer = b.uniform_buffer + 1
          \/ (c.uniform_buffer = b.uniform_buffer /\ c.write_index >= b.write_index)
      BY <1>2, <1>3
    <3>2. /\ x.buffer <= b.uniform_buffer
          /\ x.buffer = b.uniform_buffer => x.offset + kPerObjectSize <= b.write_index
      BY <2>3
    <3> PICK bu, bw, cu, cw, xu, xo, room :
            /\ bu = b.uniform_buffer /\ bw = b.write_index /\ cu = c.uniform_buffer
            /\ cw = c.write_index /\ xu = x.buffer /\ xo = x.offset /\ room = kPerObjectSize
      OBVIOUS
    <3>3. /\ bu \in Nat /\ bw \in Nat /\ cu \in Nat /\ cw \in Nat /\ xu \in Nat /\ xo \in Nat
          /\ room \in Nat
      BY <1>0, <1>6, <2>1
    <3>4. (cu = bu + 1 \/ (cu = bu /\ cw >= bw)) /\ xu <= bu /\ (xu = bu => xo + room <= bw)
      BY <3>1, <3>2
    <3>5. xu <= cu /\ (xu = cu => xo + room <= cw + room) /\ (xu # cu \/ xo + room <= cw)
      BY <3>3, <3>4, LaterPlace
    <3> QED BY <3>5
  <2>10. /\ s1 <= c.allocation
         /\ s1 = c.allocation => s2 <= c.set_index
         /\ s1 # c.allocation \/ s2 # c.set_index
    <3>1. c.allocation = b.allocation + 1
          \/ (c.allocation = b.allocation /\ c.set_index = b.set_index + 1)
      BY <1>2, <1>3
    <3> QED BY <1>6, <2>2, <2>3, <3>1, LaterSet
  <2>4. HasPlace(d, x)
    BY <1>8, <2>3, <2>9, <2>10 DEF HasPlace
  <2>6. x.set # item.set
    BY <2>2, <2>10
  <2>8. item.buffer = c.uniform_buffer /\ item.offset = c.write_index
    OBVIOUS
  <2> QED BY <2>4, <2>6, <2>8, <2>9 DEF Apart
<1>14. \A i \in 1..Len(b.items) : HasPlace(b, b.items[i])
  BY DEF WellPlaced
<1>15. \A i \in 1..Len(d.items) : HasPlace(d, d.items[i])
  BY <1>10, <1>12, <1>13, <1>14
<1>16. ASSUME NEW i \in 1..Len(d.items), NEW j \in 1..Len(d.items),
              d.items[i].object # d.items[j].object
       PROVE  Apart(d.items[i], d.items[j])
  <2>1. CASE i \in 1..Len(b.items) /\ j \in 1..Len(b.items)
    BY <1>10, <1>16, <2>1 DEF WellPlaced
  <2>2. CASE i \in 1..Len(b.items) /\ j = Len(b.items) + 1
    BY <1>10, <1>13, <1>14, <2>2
  <2>3. CASE i = Len(b.items) + 1 /\ j \in 1..Len(b.items)
    BY <1>10, <1>13, <1>14, <2>3
  <2>4. CASE i = Len(b.items) + 1 /\ j = Len(b.items) + 1
    BY <1>16, <2>4
  <2>5. \A n \in 1..Len(d.items) : n \in 1..Len(b.items) \/ n = Len(b.items) + 1
    <3> PICK len \in Nat : len = Len(b.items) /\ Len(d.items) = len + 1
      BY <1>10
    <3> QED OBVIOUS
  <2> QED BY <2>1, <2>2, <2>3, <2>4, <2>5
<1>17. WellPlaced(d)
  BY <1>9, <1>11, <1>15, <1>16 DEF WellPlaced
<1>18. Keeps(b, d)
  <2> PICK len \in Nat : len = Len(b.items) /\ Len(d.items) = len + 1
    BY <1>10
  <2>1. Len(b.items) <= Len(d.items)
    OBVIOUS
  <2> QED BY <1>10, <2>1 DEF Keeps
<1> QED BY <1>5, <1>17, <1>18

LEMMA KeepsOn ==
  ASSUME NEW b, NEW c, NEW d, b \in Builders, c \in Builders, d \in Builders, Keeps(b, c), Keeps(c, d)
  PROVE  Keeps(b, d)
<1>1. Len(b.items) \in Nat /\ Len(c.items) \in Nat /\ Len(d.items) \in Nat
  BY LenProperties DEF Builders
<1>2. Len(b.items) <= Len(c.items) /\ Len(c.items) <= Len(d.items)
  BY DEF Keeps
<1>3. Len(b.items) <= Len(d.items)
  BY <1>1, <1>2
<1>4. \A i \in 1..Len(b.items) : i \in 1..Len(c.items)
  BY <1>1, <1>2
<1> QED BY <1>3, <1>4 DEF Keeps

LEMMA KeepsSame == ASSUME NEW b, b \in Builders PROVE Keeps(b, b)
<1>1. Len(b.items) \in Nat
  BY LenProperties DEF Builders
<1> QED BY <1>1 DEF Keeps

Placed == {b \in Builders : WellPlaced(b)}

(* The lemmas about the leaf helpers hold whenever there is a model.       *)
LEMMA AddClipperObjectType ==
  ASSUME NEW b \in Placed, NEW o \in Object
  PROVE  AddClipperObject(b, o) \in Placed /\ Keeps(b, AddClipperObject(b, o))
<1>1. WellPlaced(b) /\ b \in Builders /\ b.disable_depth_test \in BOOLEAN
  BY DEF Placed, Builders
<1>2. CASE model.shape[o] = kNone
  BY <1>1, <1>2, KeepsSame DEF AddClipperObject
<1>3. CASE model.shape[o] # kNone
  <2>1. "BeginClipChildren" \in ClipperStates
    BY DEF ClipperStates
  <2>2. AddClipperObject(b, o) = PushItem(b, o, "BeginClipChildren", b.disable_depth_test)
    BY <1>3 DEF AddClipperObject
  <2> PICK c : c = AddClipperObject(b, o)
    OBVIOUS
  <2>3. WellPlaced(c) /\ Keeps(b, c)
    BY <1>1, <2>1, <2>2, PushIsGood
  <2> QED BY <2>3 DEF Placed, WellPlaced
<1> QED BY <1>2, <1>3

LEMMA AddNonClipperObjectType ==
  ASSUME NEW b \in Placed, NEW o \in Object, model \in Model
  PROVE  AddNonClipperObject(b, o) \in Placed /\ Keeps(b, AddNonClipperObject(b, o))
<1>1. WellPlaced(b) /\ b \in Builders /\ model.disable_depth_test \in BOOLEAN
  BY DEF Placed, Builders, Model
<1>2. CASE model.material[o] = "none"
  BY <1>1, <1>2, KeepsSame DEF AddNonClipperObject
<1>3. CASE model.material[o] # "none"
  <2>1. "NoClipChildren" \in ClipperStates
    BY DEF ClipperStates
  <2>2. AddNonClipperObject(b, o) = PushItem(b, o, "NoClipChildren", model.disable_depth_test)
    BY <1>3 DEF AddNonClipperObject
  <2> PICK c : c = AddNonClipperObject(b, o)
    OBVIOUS
  <2>3. WellPlaced(c) /\ Keeps(b, c)
    BY <1>1, <2>1, <2>2, PushIsGood
  <2> QED BY <2>3 DEF Placed, WellPlaced
<1> QED BY <1>2, <1>3

\* The pipeline of the second drawing of a clipper.
EndPipeline(b) ==
  GetPipeline(pipelines, PipelineSpec(b.clip_depth > 1, "EndClipChildren", "none",
                                      model.disable_depth_test))
EndOf(b, item) == [item EXCEPT !.pipeline = EndPipeline(b), !.stencil_reference = b.clip_depth]

LEMMA EndItemGives ==
  ASSUME NEW b \in Builders, NEW item \in DisplayItems, model \in Model
  PROVE  /\ EndItem(b, item) \in Builders
         /\ EndItem(b, item).items = Append(b.items, EndOf(b, item))
         /\ EndOf(b, item) \in DisplayItems
         /\ EndItem(b, item).uniform_buffer = b.uniform_buffer
         /\ EndItem(b, item).write_index = b.write_index
         /\ EndItem(b, item).allocation = b.allocation
         /\ EndItem(b, item).set_index = b.set_index
         /\ EndItem(b, item).clip_depth = b.clip_depth
<1> PICK flag, x : flag = model.disable_depth_test /\ x = EndOf(b, item)
  OBVIOUS
<1>1. flag \in BOOLEAN
  BY DEF Model
<1>2. EndPipeline(b) \in PipelineSpecs
  <2>1. (b.clip_depth > 1) \in BOOLEAN /\ "EndClipChildren" \in ClipperStates
    BY DEF ClipperStates
  <2> QED BY <1>1, <2>1, SpecType DEF EndPipeline
<1>3. x \in DisplayItems
  <2>1. b.clip_depth \in Int
    BY DEF Builders
  <2> QED BY <1>2, <2>1 DEF EndOf, DisplayItems
<1> PICK its : its = Append(b.items, x)
  OBVIOUS
<1>4. its \in Seq(DisplayItems)
  <2>1. b.items \in Seq(DisplayItems)
    BY DEF Builders
  <2> QED BY <1>3, <2>1, AppendProperties
<1>5. EndItem(b, item) = [b EXCEPT !.items = its, !.disable_depth_test = flag]
  <2>1. EndItem(b, item) = [b EXCEPT !.items = Append(@, x), !.disable_depth_test = flag]
    BY DEF EndItem, EndOf, EndPipeline
  <2> QED BY <2>1 DEF Builders
<1> QED BY <1>1, <1>3, <1>4, <1>5 DEF Builders

LEMMA EndItemType ==
  ASSUME NEW b \in Builders, NEW item \in DisplayItems, model \in Model
  PROVE  EndItem(b, item) \in Builders
  BY EndItemGives

AddAllClippers(base, cs) == FoldLeft(AddClipperObject, base, cs)
AddAllObjects(base, cs) == FoldLeft(AddNonClipperObject, base, cs)
EndAll(base, cs) == FoldLeft(EndItem, base, cs)

LEMMA AddClipperSteps ==
  ASSUME NEW base, NEW n, NEW cs, base \in Placed, AllIn(cs, n, Object)
  PROVE  \E h : /\ h[0] = base
                /\ \A k \in 1..n : h[k] = AddClipperObject(h[k - 1], cs[k])
                /\ AddAllClippers(base, cs) = h[n]
<1>0. n \in Nat /\ DOMAIN cs = 1..n /\ \A i \in 1..n : cs[i] \in Object
  BY DEF AllIn
<1> DEFINE step == [p \in Placed \X Object |-> AddClipperObject(p[1], p[2])]
           Solves(g) == g = [s \in SUBSET DOMAIN cs |->
                               IF s = {} THEN base ELSE AddClipperObject(g[s \ {Max(s)}], cs[Max(s)])]
<1>1. \A v \in Placed, x \in Object : step[<<v, x>>] = AddClipperObject(v, x) /\ AddClipperObject(v, x) \in Placed
  BY AddClipperObjectType
<1> HIDE DEF step
<1>2. PICK f : FoldEquation(step, base, cs, n, f) /\ \A s \in SUBSET (1..n) : f[s] \in Placed
  <2>1. \A v \in Placed, x \in Object : step[<<v, x>>] \in Placed
    BY <1>1
  <2> QED BY <1>0, <2>1, FoldEquationHasSolution
<1> DEFINE g == [s \in SUBSET (1..n) |-> f[s]]
<1>3. \A s \in SUBSET (1..n) : g[s] = f[s]
  OBVIOUS
<1>4. g = [s \in SUBSET (1..n) |-> g[s]]
  OBVIOUS
<1> HIDE DEF g
<1>5. ASSUME NEW s \in SUBSET (1..n)
      PROVE  g[s] = IF s = {} THEN base ELSE AddClipperObject(g[s \ {Max(s)}], cs[Max(s)])
  <2>1. CASE s = {}
    BY <1>2, <1>3, <2>1 DEF FoldEquation
  <2>2. CASE s # {}
    <3>1. Max(s) \in 1..n
      BY <1>0, <2>2, MaxProperties
    <3>2. s \ {Max(s)} \in SUBSET (1..n)
      OBVIOUS
    <3>3. cs[Max(s)] \in Object
      BY <1>0, <3>1
    <3> QED BY <1>1, <1>2, <1>3, <2>2, <3>2, <3>3 DEF FoldEquation
  <2> QED BY <2>1, <2>2
<1>6. Solves(g)
  BY <1>0, <1>4, <1>5
<1>7. AddAllClippers(base, cs) = (CHOOSE e : Solves(e))[DOMAIN cs]
  BY DEF AddAllClippers, FoldLeft, MapThenFoldSet
<1> HIDE DEF Solves
<1>8. PICK e : Solves(e) /\ AddAllClippers(base, cs) = e[1..n]
  BY <1>0, <1>6, <1>7
<1> DEFINE h == [k \in 0..n |-> e[1..k]]
<1>9. \A k \in 0..n : h[k] = e[1..k]
  OBVIOUS
<1> HIDE DEF h
<1>10. \A s \in SUBSET (1..n) : e[s] =
         IF s = {} THEN base ELSE AddClipperObject(e[s \ {Max(s)}], cs[Max(s)])
  BY <1>0, <1>8 DEF Solves
<1>11. h[0] = base
  <2>1. 1..0 = {} /\ 1..0 \in SUBSET (1..n) /\ 0 \in 0..n
    BY <1>0
  <2> QED BY <1>9, <1>10, <2>1
<1>12. ASSUME NEW k \in 1..n PROVE h[k] = AddClipperObject(h[k - 1], cs[k])
  <2>1. 1..k \in SUBSET (1..n) /\ k \in 0..n /\ k - 1 \in 0..n /\ k \in Nat \ {0}
    BY <1>0
  <2>2. Max(1..k) = k /\ (1..k) \ {k} = 1..(k - 1) /\ 1..k # {}
    BY <2>1, PrefixMax
  <2>3. h[k] = e[1..k] /\ h[k - 1] = e[1..(k - 1)]
    BY <1>9, <2>1
  <2> QED BY <1>10, <2>1, <2>2, <2>3
<1>13. h[n] = e[1..n]
  BY <1>0, <1>9
<1> QED BY <1>8, <1>11, <1>12, <1>13

LEMMA AddObjectSteps ==
  ASSUME NEW base, NEW n, NEW cs, base \in Placed, AllIn(cs, n, Object), model \in Model
  PROVE  \E h : /\ h[0] = base
                /\ \A k \in 1..n : h[k] = AddNonClipperObject(h[k - 1], cs[k])
                /\ AddAllObjects(base, cs) = h[n]
<1>0. n \in Nat /\ DOMAIN cs = 1..n /\ \A i \in 1..n : cs[i] \in Object
  BY DEF AllIn
<1> DEFINE step == [p \in Placed \X Object |-> AddNonClipperObject(p[1], p[2])]
           Solves(g) == g = [s \in SUBSET DOMAIN cs |->
                               IF s = {} THEN base ELSE AddNonClipperObject(g[s \ {Max(s)}], cs[Max(s)])]
<1>1. \A v \in Placed, x \in Object : step[<<v, x>>] = AddNonClipperObject(v, x) /\ AddNonClipperObject(v, x) \in Placed
  BY AddNonClipperObjectType
<1> HIDE DEF step
<1>2. PICK f : FoldEquation(step, base, cs, n, f) /\ \A s \in SUBSET (1..n) : f[s] \in Placed
  <2>1. \A v \in Placed, x \in Object : step[<<v, x>>] \in Placed
    BY <1>1
  <2> QED BY <1>0, <2>1, FoldEquationHasSolution
<1> DEFINE g == [s \in SUBSET (1..n) |-> f[s]]
<1>3. \A s \in SUBSET (1..n) : g[s] = f[s]
  OBVIOUS
<1>4. g = [s \in SUBSET (1..n) |-> g[s]]
  OBVIOUS
<1> HIDE DEF g
<1>5. ASSUME NEW s \in SUBSET (1..n)
      PROVE  g[s] = IF s = {} THEN base ELSE AddNonClipperObject(g[s \ {Max(s)}], cs[Max(s)])
  <2>1. CASE s = {}
    BY <1>2, <1>3, <2>1 DEF FoldEquation
  <2>2. CASE s # {}
    <3>1. Max(s) \in 1..n
      BY <1>0, <2>2, MaxProperties
    <3>2. s \ {Max(s)} \in SUBSET (1..n)
      OBVIOUS
    <3>3. cs[Max(s)] \in Object
      BY <1>0, <3>1
    <3> QED BY <1>1, <1>2, <1>3, <2>2, <3>2, <3>3 DEF FoldEquation
  <2> QED BY <2>1, <2>2
<1>6. Solves(g)
  BY <1>0, <1>4, <1>5
<1>7. AddAllObjects(base, cs) = (CHOOSE e : Solves(e))[DOMAIN cs]
  BY DEF AddAllObjects, FoldLeft, MapThenFoldSet
<1> HIDE DEF Solves
<1>8. PICK e : Solves(e) /\ AddAllObjects(base, cs) = e[1..n]
  BY <1>0, <1>6, <1>7
<1> DEFINE h == [k \in 0..n |-> e[1..k]]
<1>9. \A k \in 0..n : h[k] = e[1..k]
  OBVIOUS
<1> HIDE DEF h
<1>10. \A s \in SUBSET (1..n) : e[s] =
         IF s = {} THEN base ELSE AddNonClipperObject(e[s \ {Max(s)}], cs[Max(s)])
  BY <1>0, <1>8 DEF Solves
<1>11. h[0] = base
  <2>1. 1..0 = {} /\ 1..0 \in SUBSET (1..n) /\ 0 \in 0..n
    BY <1>0
  <2> QED BY <1>9, <1>10, <2>1
<1>12. ASSUME NEW k \in 1..n PROVE h[k] = AddNonClipperObject(h[k - 1], cs[k])
  <2>1. 1..k \in SUBSET (1..n) /\ k \in 0..n /\ k - 1 \in 0..n /\ k \in Nat \ {0}
    BY <1>0
  <2>2. Max(1..k) = k /\ (1..k) \ {k} = 1..(k - 1) /\ 1..k # {}
    BY <2>1, PrefixMax
  <2>3. h[k] = e[1..k] /\ h[k - 1] = e[1..(k - 1)]
    BY <1>9, <2>1
  <2> QED BY <1>10, <2>1, <2>2, <2>3
<1>13. h[n] = e[1..n]
  BY <1>0, <1>9
<1> QED BY <1>8, <1>11, <1>12, <1>13

LEMMA EndItemSteps ==
  ASSUME NEW base, NEW n, NEW cs, base \in Builders, AllIn(cs, n, DisplayItems), model \in Model
  PROVE  \E h : /\ h[0] = base
                /\ \A k \in 1..n : h[k] = EndItem(h[k - 1], cs[k])
                /\ EndAll(base, cs) = h[n]
<1>0. n \in Nat /\ DOMAIN cs = 1..n /\ \A i \in 1..n : cs[i] \in DisplayItems
  BY DEF AllIn
<1> DEFINE step == [p \in Builders \X DisplayItems |-> EndItem(p[1], p[2])]
           Solves(g) == g = [s \in SUBSET DOMAIN cs |->
                               IF s = {} THEN base ELSE EndItem(g[s \ {Max(s)}], cs[Max(s)])]
<1>1. \A v \in Builders, x \in DisplayItems : step[<<v, x>>] = EndItem(v, x) /\ EndItem(v, x) \in Builders
  BY EndItemType
<1> HIDE DEF step
<1>2. PICK f : FoldEquation(step, base, cs, n, f) /\ \A s \in SUBSET (1..n) : f[s] \in Builders
  <2>1. \A v \in Builders, x \in DisplayItems : step[<<v, x>>] \in Builders
    BY <1>1
  <2> QED BY <1>0, <2>1, FoldEquationHasSolution
<1> DEFINE g == [s \in SUBSET (1..n) |-> f[s]]
<1>3. \A s \in SUBSET (1..n) : g[s] = f[s]
  OBVIOUS
<1>4. g = [s \in SUBSET (1..n) |-> g[s]]
  OBVIOUS
<1> HIDE DEF g
<1>5. ASSUME NEW s \in SUBSET (1..n)
      PROVE  g[s] = IF s = {} THEN base ELSE EndItem(g[s \ {Max(s)}], cs[Max(s)])
  <2>1. CASE s = {}
    BY <1>2, <1>3, <2>1 DEF FoldEquation
  <2>2. CASE s # {}
    <3>1. Max(s) \in 1..n
      BY <1>0, <2>2, MaxProperties
    <3>2. s \ {Max(s)} \in SUBSET (1..n)
      OBVIOUS
    <3>3. cs[Max(s)] \in DisplayItems
      BY <1>0, <3>1
    <3> QED BY <1>1, <1>2, <1>3, <2>2, <3>2, <3>3 DEF FoldEquation
  <2> QED BY <2>1, <2>2
<1>6. Solves(g)
  BY <1>0, <1>4, <1>5
<1>7. EndAll(base, cs) = (CHOOSE e : Solves(e))[DOMAIN cs]
  BY DEF EndAll, FoldLeft, MapThenFoldSet
<1> HIDE DEF Solves
<1>8. PICK e : Solves(e) /\ EndAll(base, cs) = e[1..n]
  BY <1>0, <1>6, <1>7
<1> DEFINE h == [k \in 0..n |-> e[1..k]]
<1>9. \A k \in 0..n : h[k] = e[1..k]
  OBVIOUS
<1> HIDE DEF h
<1>10. \A s \in SUBSET (1..n) : e[s] =
         IF s = {} THEN base ELSE EndItem(e[s \ {Max(s)}], cs[Max(s)])
  BY <1>0, <1>8 DEF Solves
<1>11. h[0] = base
  <2>1. 1..0 = {} /\ 1..0 \in SUBSET (1..n) /\ 0 \in 0..n
    BY <1>0
  <2> QED BY <1>9, <1>10, <2>1
<1>12. ASSUME NEW k \in 1..n PROVE h[k] = EndItem(h[k - 1], cs[k])
  <2>1. 1..k \in SUBSET (1..n) /\ k \in 0..n /\ k - 1 \in 0..n /\ k \in Nat \ {0}
    BY <1>0
  <2>2. Max(1..k) = k /\ (1..k) \ {k} = 1..(k - 1) /\ 1..k # {}
    BY <2>1, PrefixMax
  <2>3. h[k] = e[1..k] /\ h[k - 1] = e[1..(k - 1)]
    BY <1>9, <2>1
  <2> QED BY <1>10, <2>1, <2>2, <2>3
<1>13. h[n] = e[1..n]
  BY <1>0, <1>9
<1> QED BY <1>8, <1>11, <1>12, <1>13

LEMMA ClippersPlaced ==
  ASSUME NEW base, NEW n, NEW cs, base \in Placed, AllIn(cs, n, Object)
  PROVE  AddAllClippers(base, cs) \in Placed /\ Keeps(base, AddAllClippers(base, cs))
<1> PICK h : /\ h[0] = base
             /\ \A k \in 1..n : h[k] = AddClipperObject(h[k - 1], cs[k])
             /\ AddAllClippers(base, cs) = h[n]
  BY AddClipperSteps
<1>1. n \in Nat /\ \A i \in 1..n : cs[i] \in Object
  BY DEF AllIn
<1> DEFINE Reached(k) == h[k] \in Placed /\ Keeps(base, h[k])
           good == {k \in Nat : Reached(k)}
<1>2. Reached(0)
  BY KeepsSame DEF Placed
<1>3. ASSUME NEW k \in 0 .. n - 1, Reached(k)
      PROVE  Reached(k + 1)
  <2>1. k + 1 \in 1..n /\ (k + 1) - 1 = k /\ cs[k + 1] \in Object
    BY <1>1
  <2> PICK v, w, o : v = h[k] /\ w = h[k + 1] /\ o = cs[k + 1]
    OBVIOUS
  <2>2. w = AddClipperObject(v, o) /\ v \in Placed /\ o \in Object /\ Keeps(base, v)
    BY <1>3, <2>1
  <2>3. w \in Placed /\ Keeps(v, w)
    BY <2>2, AddClipperObjectType
  <2>4. Keeps(base, w)
    BY <2>2, <2>3, KeepsOn DEF Placed
  <2> QED BY <2>3, <2>4
<1> HIDE DEF Reached
<1>4. n \in good
  <2>1. 0 \in good /\ good \in SUBSET Nat
    BY <1>2
  <2>2. \A k \in 0 .. n - 1 : k \in good => k + 1 \in good
    BY <1>3
  <2> HIDE DEF good
  <2> QED BY <1>1, <2>1, <2>2, AfterSteps
<1>5. Reached(n)
  BY <1>4
<1> QED BY <1>5 DEF Reached

LEMMA ObjectsPlaced ==
  ASSUME NEW base, NEW n, NEW cs, base \in Placed, AllIn(cs, n, Object), model \in Model
  PROVE  AddAllObjects(base, cs) \in Placed /\ Keeps(base, AddAllObjects(base, cs))
<1> PICK h : /\ h[0] = base
             /\ \A k \in 1..n : h[k] = AddNonClipperObject(h[k - 1], cs[k])
             /\ AddAllObjects(base, cs) = h[n]
  BY AddObjectSteps
<1>1. n \in Nat /\ \A i \in 1..n : cs[i] \in Object
  BY DEF AllIn
<1> DEFINE Reached(k) == h[k] \in Placed /\ Keeps(base, h[k])
           good == {k \in Nat : Reached(k)}
<1>2. Reached(0)
  BY KeepsSame DEF Placed
<1>3. ASSUME NEW k \in 0 .. n - 1, Reached(k)
      PROVE  Reached(k + 1)
  <2>1. k + 1 \in 1..n /\ (k + 1) - 1 = k /\ cs[k + 1] \in Object
    BY <1>1
  <2> PICK v, w, o : v = h[k] /\ w = h[k + 1] /\ o = cs[k + 1]
    OBVIOUS
  <2>2. w = AddNonClipperObject(v, o) /\ v \in Placed /\ o \in Object /\ Keeps(base, v)
    BY <1>3, <2>1
  <2>3. w \in Placed /\ Keeps(v, w)
    BY <2>2, AddNonClipperObjectType
  <2>4. Keeps(base, w)
    BY <2>2, <2>3, KeepsOn DEF Placed
  <2> QED BY <2>3, <2>4
<1> HIDE DEF Reached
<1>4. n \in good
  <2>1. 0 \in good /\ good \in SUBSET Nat
    BY <1>2
  <2>2. \A k \in 0 .. n - 1 : k \in good => k + 1 \in good
    BY <1>3
  <2> HIDE DEF good
  <2> QED BY <1>1, <2>1, <2>2, AfterSteps
<1>5. Reached(n)
  BY <1>4
<1> QED BY <1>5 DEF Reached

(* The second drawing of a clipper: of an item that is there.              *)
LEMMA EndItemPlaced ==
  ASSUME NEW b, NEW m, b \in Placed, m \in 1..Len(b.items), model \in Model
  PROVE  EndItem(b, b.items[m]) \in Placed /\ Keeps(b, EndItem(b, b.items[m]))
<1> PICK item : item = b.items[m]
  OBVIOUS
<1> PICK d, x : d = EndItem(b, item) /\ x = EndOf(b, item)
  OBVIOUS
<1>1. b \in Builders /\ WellPlaced(b) /\ b.items \in Seq(DisplayItems)
  BY DEF Placed, Builders
<1>2. item \in DisplayItems
  BY <1>1, ElementOfSeq
<1>3. /\ d \in Builders /\ d.items = Append(b.items, x) /\ x \in DisplayItems
      /\ d.uniform_buffer = b.uniform_buffer /\ d.write_index = b.write_index
      /\ d.allocation = b.allocation /\ d.set_index = b.set_index
  BY <1>1, <1>2, EndItemGives
<1>4. x.object = item.object /\ x.buffer = item.buffer /\ x.offset = item.offset /\ x.set = item.set
  BY <1>2 DEF EndOf, DisplayItems
<1> PICK len : len = Len(b.items)
  OBVIOUS
<1>5. len \in Nat /\ Len(d.items) = len + 1
  BY <1>1, <1>3, AppendProperties, LenProperties
<1>6. /\ \A i \in 1..len : d.items[i] = b.items[i]
      /\ d.items[len + 1] = x
  BY <1>1, <1>3, AppendProperties
<1>7. \A y : HasPlace(b, y) => HasPlace(d, y)
  BY <1>3 DEF HasPlace
<1>8. \A i \in 1..len : HasPlace(b, b.items[i])
  BY <1>1 DEF WellPlaced
<1>9. HasPlace(b, x)
  <2>1. HasPlace(b, item)
    BY <1>8
  <2> QED BY <1>4, <2>1 DEF HasPlace
<1>10. \A i \in 1 .. len + 1 : i \in 1..len \/ i = len + 1
  BY <1>5
<1>11. \A i \in 1 .. len + 1 : HasPlace(d, d.items[i])
  BY <1>6, <1>7, <1>8, <1>9, <1>10
<1>12. \A i, j \in 1..len : b.items[i].object # b.items[j].object => Apart(b.items[i], b.items[j])
  BY <1>1 DEF WellPlaced
<1>13. \A i \in 1..len : b.items[i].object # x.object => Apart(b.items[i], x) /\ Apart(x, b.items[i])
  <2> SUFFICES ASSUME NEW i \in 1..len, b.items[i].object # x.object
               PROVE  Apart(b.items[i], x) /\ Apart(x, b.items[i])
    OBVIOUS
  <2>1. b.items[i].object # item.object /\ m \in 1..len
    BY <1>4
  <2>2. Apart(b.items[i], item) /\ Apart(item, b.items[i])
    BY <1>12, <2>1
  <2> QED BY <1>4, <2>2 DEF Apart
<1>14. ASSUME NEW i \in 1 .. len + 1, NEW j \in 1 .. len + 1, d.items[i].object # d.items[j].object
       PROVE  Apart(d.items[i], d.items[j])
  <2>1. CASE i \in 1..len /\ j \in 1..len
    BY <1>6, <1>12, <1>14, <2>1
  <2>2. CASE i \in 1..len /\ j = len + 1
    BY <1>6, <1>13, <1>14, <2>2
  <2>3. CASE i = len + 1 /\ j \in 1..len
    BY <1>6, <1>13, <1>14, <2>3
  <2>4. CASE i = len + 1 /\ j = len + 1
    BY <1>14, <2>4
  <2> QED BY <1>10, <2>1, <2>2, <2>3, <2>4
<1>15. CountersOK(d)
  BY <1>1, <1>3 DEF CountersOK, WellPlaced
<1>16. WellPlaced(d)
  BY <1>3, <1>5, <1>11, <1>14, <1>15 DEF WellPlaced
<1>17. Keeps(b, d)
  <2>1. len <= len + 1
    BY <1>5
  <2> QED BY <1>5, <1>6, <2>1 DEF Keeps
<1> QED BY <1>3, <1>16, <1>17 DEF Placed

\* cs: n items of b, from the one after start.
Taken(cs, n, b, start) ==
  \A k \in 1..n : start + k \in 1..Len(b.items) /\ cs[k] = b.items[start + k]

LEMMA EndAllPlaced ==
  ASSUME NEW b, NEW n, NEW cs, NEW start, b \in Placed, model \in Model,
         AllIn(cs, n, DisplayItems), Taken(cs, n, b, start)
  PROVE  EndAll(b, cs) \in Placed /\ Keeps(b, EndAll(b, cs))
<1>0. b \in Builders
  BY DEF Placed
<1>2. b.items \in Seq(DisplayItems)
  BY <1>0 DEF Builders
<1> PICK h : /\ h[0] = b
             /\ \A k \in 1..n : h[k] = EndItem(h[k - 1], cs[k])
             /\ EndAll(b, cs) = h[n]
  BY <1>0, EndItemSteps
<1>1. n \in Nat
  BY DEF AllIn
<1> PICK len : len = Len(b.items)
  OBVIOUS
<1>3. \A k \in 1..n : start + k \in 1..len /\ cs[k] = b.items[start + k]
  BY DEF Taken
<1>4. len \in Nat
  BY <1>2, LenProperties
<1> DEFINE Reached(k) == h[k] \in Placed /\ Keeps(b, h[k])
           good == {k \in Nat : Reached(k)}
<1>5. Reached(0)
  BY KeepsSame DEF Placed
<1>6. ASSUME NEW k \in 0 .. n - 1, Reached(k)
      PROVE  Reached(k + 1)
  <2>1. k + 1 \in 1..n /\ (k + 1) - 1 = k
    BY <1>1
  <2> PICK v, w, m : v = h[k] /\ w = h[k + 1] /\ m = start + (k + 1)
    OBVIOUS
  <2>2. w = EndItem(v, b.items[m]) /\ v \in Placed /\ Keeps(b, v) /\ m \in 1..len
    BY <1>3, <1>6, <2>1
  <2>3. m \in 1..Len(v.items) /\ v.items[m] = b.items[m]
    <3>1. Len(v.items) \in Nat /\ len <= Len(v.items)
      BY <2>2, LenProperties DEF Keeps, Placed, Builders
    <3>2. m \in 1..Len(v.items)
      BY <1>4, <2>2, <3>1
    <3> QED BY <2>2, <3>2 DEF Keeps
  <2>4. w \in Placed /\ Keeps(v, w)
    BY <2>2, <2>3, EndItemPlaced
  <2>5. Keeps(b, w)
    BY <2>2, <2>4, KeepsOn DEF Placed
  <2> QED BY <2>4, <2>5
<1> HIDE DEF Reached
<1>7. n \in good
  <2>1. 0 \in good /\ good \in SUBSET Nat
    BY <1>5
  <2>2. \A k \in 0 .. n - 1 : k \in good => k + 1 \in good
    BY <1>6
  <2> HIDE DEF good
  <2> QED BY <1>1, <2>1, <2>2, AfterSteps
<1>8. Reached(n)
  BY <1>7
<1> QED BY <1>8 DEF Reached

\* Items start + 1 .. end are there.
Spans(b, start, end) == start \in Nat /\ end \in Nat /\ start <= end /\ end <= Len(b.items)

LEMMA ItemsTaken ==
  ASSUME NEW b, NEW start, NEW end, NEW n, NEW cs, b \in Builders, Spans(b, start, end),
         n = end - start, cs = SubSeq(b.items, start + 1, end)
  PROVE  AllIn(cs, n, DisplayItems) /\ Taken(cs, n, b, start)
<1> PICK items, len : items = b.items /\ len = Len(items)
  OBVIOUS
<1>1. items \in Seq(DisplayItems) /\ len \in Nat
  BY LenProperties DEF Builders
<1>2. start \in Nat /\ end \in Nat /\ start <= end /\ end <= len
  BY DEF Spans
<1>3. n \in Nat /\ start + n = end /\ \A k \in 1..n : start + k \in 1..len
  BY <1>1, <1>2
<1>4. DOMAIN cs = 1..n /\ \A k \in 1..n : cs[k] = items[start + k]
  <2> PICK first : first = start + 1
    OBVIOUS
  <2>1. first \in Int /\ end \in Int /\ \A i \in first .. end : items[i] \in DisplayItems
    <3>1. \A i \in first .. end : i \in 1..len
      BY <1>1, <1>2
    <3> QED BY <1>1, <1>2, <3>1, ElementOfSeq
  <2>2. /\ cs \in Seq(DisplayItems) /\ Len(cs) = IF first <= end THEN end - first + 1 ELSE 0
        /\ \A i \in 1 .. end - first + 1 : cs[i] = items[first + i - 1]
    BY <2>1, SubSeqProperties
  <2>3. end - first + 1 = n /\ (first <= end \/ n = 0) /\ \A i \in 1..n : first + i - 1 = start + i
    BY <1>2, <1>3
  <2>4. Len(cs) = n /\ \A i \in 1..n : cs[i] = items[start + i]
    BY <2>2, <2>3
  <2> QED BY <2>2, <2>4
<1>5. \A k \in 1..n : items[start + k] \in DisplayItems
  BY <1>1, <1>3, ElementOfSeq
<1> QED BY <1>3, <1>4, <1>5 DEF AllIn, Taken

LEMMA EndItemsPlaced ==
  ASSUME NEW b, NEW start, NEW end, b \in Placed, model \in Model,
         start \in Nat, end \in Nat, start <= end, end <= Len(b.items)
  PROVE  EndItems(b, start, end) \in Placed /\ Keeps(b, EndItems(b, start, end))
<1>1. b \in Builders /\ Spans(b, start, end)
  BY DEF Placed, Spans
<1> PICK n, cs : n = end - start /\ cs = SubSeq(b.items, start + 1, end)
  OBVIOUS
<1>2. AllIn(cs, n, DisplayItems) /\ Taken(cs, n, b, start)
  BY <1>1, ItemsTaken
<1>3. EndItems(b, start, end) = EndAll(b, cs)
  BY DEF EndItems, EndAll
<1> QED BY <1>2, <1>3, EndAllPlaced

(***************************************************************************)
(* The inductive invariant.                                                *)
(***************************************************************************)
Calls == [rest: Seq(Object), start: Nat, end: Nat]

(* The items that a call of AddClipperAndClippeeObjects() will draw again  *)
(* are there.                                                              *)
CallFits(entry, b) == entry.start <= entry.end /\ entry.end <= Len(b.items)

DisplayInv ==
  /\ scene \in Scenes /\ list \in 0..Len(scene)
  /\ stack \in Seq(Calls)
  /\ stack # <<>> => list # 0
  /\ \A i \in 1..Len(stack) : CallFits(stack[i], builder)
  /\ builder \in Placed

LEMMA SceneType == scene \in Scenes => scene \in Seq(Model) /\ Len(scene) \in Nat
  BY SceneAssumption, LenProperties

LEMMA ThereIsAModel == DisplayInv /\ stack # <<>> => model \in Model
<1> SUFFICES ASSUME DisplayInv, stack # <<>> PROVE model \in Model
  OBVIOUS
<1>1. scene \in Seq(Model) /\ Len(scene) \in Nat /\ list \in 0..Len(scene) /\ list # 0
  BY SceneType DEF DisplayInv
<1>2. list \in 1..Len(scene)
  BY <1>1
<1> QED BY <1>1, <1>2, ElementOfSeq DEF model

LEMMA NewBuilderPlaced == NewBuilder \in Placed
<1>1. /\ kPerModelSize \in Nat /\ kSetsPerAllocation \in Nat
  BY SceneAssumption
<1>2. NewBuilder.items = <<>> /\ Len(<<>>) = 0 /\ 1..0 = {}
  BY DEF NewBuilder
<1>3. NewBuilder \in Builders
  <2>1. <<>> \in Seq(DisplayItems)
    OBVIOUS
  <2> QED BY <1>1, <2>1 DEF NewBuilder, Builders
<1>4. CountersOK(NewBuilder)
  BY <1>1 DEF NewBuilder, CountersOK
<1> QED BY <1>2, <1>3, <1>4 DEF Placed, WellPlaced

(* Whether a group is open makes no difference to where items are.         *)
LEMMA DepthMovesNothing ==
  ASSUME NEW b, NEW nested, b \in Placed, nested \in Int
  PROVE  /\ [b EXCEPT !.clip_depth = nested] \in Placed
         /\ [b EXCEPT !.clip_depth = nested].items = b.items
<1> PICK c : c = [b EXCEPT !.clip_depth = nested]
  OBVIOUS
<1>1. b \in Builders /\ WellPlaced(b)
  BY DEF Placed
<1>2. /\ c \in Builders /\ c.items = b.items
      /\ c.uniform_buffer = b.uniform_buffer /\ c.write_index = b.write_index
      /\ c.allocation = b.allocation /\ c.set_index = b.set_index
  BY <1>1 DEF Builders
<1>3. \A x : HasPlace(b, x) => HasPlace(c, x)
  BY <1>2 DEF HasPlace
<1>4. CountersOK(c)
  BY <1>1, <1>2 DEF CountersOK, WellPlaced
<1>5. \A i \in 1..Len(c.items) : HasPlace(c, c.items[i])
  BY <1>1, <1>2, <1>3 DEF WellPlaced
<1>6. \A i, j \in 1..Len(c.items) : c.items[i].object # c.items[j].object => Apart(c.items[i], c.items[j])
  BY <1>1, <1>2 DEF WellPlaced
<1>7. WellPlaced(c)
  BY <1>2, <1>4, <1>5, <1>6 DEF WellPlaced
<1> QED BY <1>2, <1>7 DEF Placed

LEMMA OrdersOfObjects ==
  ASSUME NEW objects, NEW shape, objects \in Seq(Object)
  PROVE  \A order \in RenderOrders(objects, shape) : order \in Seq(Object)
<1> PICK S : S = ToSet(objects)
  OBVIOUS
<1>1. S = {objects[i] : i \in 1..Len(objects)} /\ Len(objects) \in Nat
  BY LenProperties DEF ToSet
<1>2. S \subseteq Object
  BY <1>1, ElementOfSeq
<1>3. IsFiniteSet(S)
  <2> DEFINE f == [i \in 1..Len(objects) |-> objects[i]]
  <2>1. f \in Surjection(1..Len(objects), S)
    BY <1>1 DEF Surjection
  <2> HIDE DEF f
  <2>2. IsFiniteSet(1..Len(objects))
    BY <1>1, FS_Interval
  <2> QED BY <2>1, <2>2, FS_Surjection
<1>4. \A order \in SetToSeqs(S) : order \in Seq(S)
  BY <1>3, SetToSeqsProperties
<1>5. \A order \in Seq(S) : order \in Seq(Object)
  <2> SUFFICES ASSUME NEW order \in Seq(S) PROVE order \in Seq(Object)
    OBVIOUS
  <2>1. \A i \in 1..Len(order) : order[i] \in Object
    BY <1>2, ElementOfSeq
  <2> QED BY <2>1, IsASeq, LenProperties
<1>6. \A order \in RenderOrders(objects, shape) : order = objects \/ order \in SetToSeqs(S)
  BY DEF RenderOrders
<1> QED BY <1>4, <1>5, <1>6

LEMMA AllOf ==
  ASSUME NEW S, NEW cs, cs \in Seq(S)
  PROVE  AllIn(cs, Len(cs), S)
<1>1. Len(cs) \in Nat /\ DOMAIN cs = 1..Len(cs)
  BY LenProperties
<1>2. \A i \in 1..Len(cs) : cs[i] \in S
  BY ElementOfSeq
<1> QED BY <1>1, <1>2 DEF AllIn

LEMMA FirstAndMore ==
  ASSUME NEW o, NEW more, o \in Object, more \in Seq(Object)
  PROVE  AllIn(<<o>> \o more, Len(<<o>> \o more), Object)
<1>1. <<o>> \in Seq(Object)
  OBVIOUS
<1>2. <<o>> \o more \in Seq(Object)
  BY <1>1, ConcatProperties
<1> QED BY <1>2, AllOf

LEMMA FitsStill ==
  ASSUME NEW entry, NEW b, NEW c, entry \in Calls, b \in Placed, c \in Placed, CallFits(entry, b), Keeps(b, c)
  PROVE  CallFits(entry, c)
<1>1. b.items \in Seq(DisplayItems) /\ c.items \in Seq(DisplayItems)
  BY DEF Placed, Builders
<1>2. Len(b.items) \in Nat /\ Len(c.items) \in Nat
  BY <1>1, LenProperties
<1>3. entry.end \in Nat /\ entry.start \in Nat
  BY DEF Calls
<1>4. entry.start <= entry.end /\ entry.end <= Len(b.items) /\ Len(b.items) <= Len(c.items)
  BY DEF CallFits, Keeps
<1>5. entry.end <= Len(c.items)
  BY <1>2, <1>3, <1>4
<1> QED BY <1>4, <1>5 DEF CallFits

(* The object whose turn it is, and the stack when it is done.             *)
LEMMA NextObject ==
  ASSUME DisplayInv, stack # <<>>, Top.rest # <<>>
  PROVE  LET after == [stack EXCEPT ![Len(stack)].rest = Tail(@)]
         IN  /\ Head(Top.rest) \in Object
             /\ after \in Seq(Calls) /\ Len(after) = Len(stack)
             /\ \A i \in 1..Len(stack) : CallFits(after[i], builder)
             /\ after # <<>>
<1> PICK n : n = Len(stack)
  OBVIOUS
<1>1. stack \in Seq(Calls) /\ \A i \in 1..n : CallFits(stack[i], builder)
  BY DEF DisplayInv
<1>2. n \in Nat /\ n # 0 /\ n \in 1..n
  BY <1>1, EmptySeq, LenProperties
<1> PICK top : top = stack[n]
  OBVIOUS
<1>3. top \in Calls /\ top = Top
  BY <1>1, <1>2, ElementOfSeq DEF Last, Top
<1>4. top.rest \in Seq(Object) /\ top.rest # <<>>
  BY <1>3 DEF Calls
<1>5. Head(top.rest) \in Object /\ Tail(top.rest) \in Seq(Object)
  BY <1>4, HeadTailProperties
<1> PICK new : new = [top EXCEPT !.rest = Tail(@)]
  OBVIOUS
<1>6. new \in Calls /\ new.start = top.start /\ new.end = top.end
  BY <1>3, <1>5 DEF Calls
<1> PICK after : after = [stack EXCEPT ![n] = new]
  OBVIOUS
<1>7. /\ after \in Seq(Calls) /\ Len(after) = n /\ after[n] = new
      /\ \A i \in 1..n : i # n => after[i] = stack[i]
  <2>1. after \in Seq(Calls) /\ Len(after) = Len(stack)
    BY <1>1, <1>2, <1>6, ExceptSeq
  <2>2. stack \in [1..n -> Calls]
    BY <1>1, LenProperties
  <2>3. after[n] = new /\ \A i \in 1..n : i # n => after[i] = stack[i]
    BY <1>2, <2>2
  <2> QED BY <2>1, <2>3
<1>8. [stack EXCEPT ![Len(stack)].rest = Tail(@)] = after
  OBVIOUS
<1>9. CallFits(new, builder)
  BY <1>1, <1>2, <1>6 DEF CallFits
<1>10. \A i \in 1..n : CallFits(after[i], builder)
  BY <1>1, <1>7, <1>9
<1>11. after # <<>>
  BY <1>2, <1>7
<1> QED BY <1>3, <1>5, <1>7, <1>8, <1>10, <1>11

LEMMA DisplayInitially == DisplayInit => DisplayInv
<1> SUFFICES ASSUME DisplayInit PROVE DisplayInv
  OBVIOUS
<1>1. builder \in Placed /\ stack = <<>> /\ list = 0 /\ scene \in Scenes
  BY NewBuilderPlaced DEF DisplayInit
<1>2. Len(scene) \in Nat /\ stack \in Seq(Calls) /\ Len(stack) = 0
  BY <1>1, SceneType
<1> QED BY <1>1, <1>2 DEF DisplayInv

LEMMA BeginDisplayListInv == DisplayInv /\ BeginDisplayList => DisplayInv'
<1> SUFFICES ASSUME DisplayInv, BeginDisplayList PROVE DisplayInv'
  OBVIOUS
<1>1. scene' = scene /\ builder' = NewBuilder /\ list' = list + 1 /\ list < Len(scene)
  BY DEF BeginDisplayList
<1>2. scene \in Seq(Model) /\ Len(scene) \in Nat /\ list \in 0..Len(scene) /\ scene \in Scenes
  BY SceneType DEF DisplayInv
<1>3. list' \in 1..Len(scene)
  BY <1>1, <1>2
<1>4. scene[list'] \in Model
  BY <1>2, <1>3, ElementOfSeq
<1> PICK m : m = scene[list']
  OBVIOUS
<1>5. PICK order \in RenderOrders(m.objects, m.shape) :
        stack' = <<[rest |-> order, start |-> 0, end |-> 0]>>
  BY <1>1 DEF BeginDisplayList
<1>6. m.objects \in Seq(Object)
  BY <1>4 DEF Model
<1>7. order \in Seq(Object)
  BY <1>6, OrdersOfObjects
<1>a. PICK entry : entry = [rest |-> order, start |-> 0, end |-> 0]
  OBVIOUS
<1>8. entry \in Calls
  BY <1>7, <1>a DEF Calls
<1>9. CallFits(entry, NewBuilder)
  BY <1>a DEF CallFits, NewBuilder
<1>10. stack' = <<entry>> /\ <<entry>> \in Seq(Calls) /\ Len(<<entry>>) = 1 /\ <<entry>>[1] = entry
  BY <1>5, <1>8, <1>a
<1>11. \A i \in 1..Len(stack') : CallFits(stack'[i], builder')
  BY <1>1, <1>9, <1>10
<1>12. list' # 0 /\ list' \in 0..Len(scene')
  <2>1. \A k \in 1..Len(scene) : k # 0 /\ k \in 0..Len(scene)
    BY <1>2
  <2> QED BY <1>1, <1>3, <2>1
<1> QED BY <1>1, <1>2, <1>10, <1>11, <1>12, NewBuilderPlaced DEF DisplayInv

LEMMA AddClipperAndClippeeObjectsInv == DisplayInv /\ AddClipperAndClippeeObjects => DisplayInv'
<1> SUFFICES ASSUME DisplayInv, AddClipperAndClippeeObjects PROVE DisplayInv'
  OBVIOUS
<1> PICK o : o = Head(Top.rest)
  OBVIOUS
<1> PICK cs : cs = <<o>> \o model.clippers[o]
  OBVIOUS
<1> PICK b : b = AddAllClippers(builder, cs)
  OBVIOUS
<1>a. PICK after : after = [stack EXCEPT ![Len(stack)].rest = Tail(@)]
  OBVIOUS
<1>b. PICK entry : entry = [rest |-> model.clippees[o], start |-> Len(builder.items), end |-> Len(b.items)]
  BY Zenon
<1>1. /\ stack # <<>> /\ Top.rest # <<>>
      /\ builder' = [b EXCEPT !.clip_depth = @ + 1]
      /\ stack' = Append(after, entry)
      /\ scene' = scene /\ list' = list
  BY <1>a, <1>b, Zenon DEF AddClipperAndClippeeObjects, AddAllClippers
<1>2. /\ o \in Object /\ after \in Seq(Calls) /\ Len(after) = Len(stack)
      /\ \A i \in 1..Len(stack) : CallFits(after[i], builder)
  BY <1>1, <1>a, NextObject
<1>3. model \in Model
  BY <1>1, ThereIsAModel
<1>4. model.clippers[o] \in Seq(Object) /\ model.clippees[o] \in Seq(Object)
  BY <1>2, <1>3 DEF Model
<1>5. builder \in Placed
  BY DEF DisplayInv
<1>6. b \in Placed /\ Keeps(builder, b)
  BY <1>2, <1>4, <1>5, FirstAndMore, ClippersPlaced
<1>7. Len(builder.items) \in Nat /\ Len(b.items) \in Nat /\ Len(builder.items) <= Len(b.items)
  <2>1. builder.items \in Seq(DisplayItems) /\ b.items \in Seq(DisplayItems)
    BY <1>5, <1>6 DEF Placed, Builders
  <2>2. Len(builder.items) <= Len(b.items)
    BY <1>6 DEF Keeps
  <2> QED BY <2>1, <2>2, LenProperties
<1>8. entry \in Calls
  BY <1>4, <1>7, <1>b DEF Calls
<1>9. CallFits(entry, b)
  BY <1>7, <1>b DEF CallFits
<1>10. builder' \in Placed /\ builder'.items = b.items
  <2>1. b.clip_depth + 1 \in Int
    <3>1. b.clip_depth \in Int
      BY <1>6 DEF Placed, Builders
    <3> QED BY <3>1
  <2>2. builder' = [b EXCEPT !.clip_depth = b.clip_depth + 1]
    BY <1>1
  <2> QED BY <1>6, <2>1, <2>2, DepthMovesNothing
<1>11. \A i \in 1..Len(after) : CallFits(after[i], b)
  <2> SUFFICES ASSUME NEW i \in 1..Len(after) PROVE CallFits(after[i], b)
    OBVIOUS
  <2>1. after[i] \in Calls /\ CallFits(after[i], builder)
    BY <1>2, ElementOfSeq
  <2> QED BY <1>5, <1>6, <2>1, FitsStill
<1>12. /\ stack' \in Seq(Calls) /\ Len(stack') = Len(after) + 1 /\ Len(after) \in Nat
       /\ \A i \in 1..Len(after) : stack'[i] = after[i]
       /\ stack'[Len(after) + 1] = entry
  <2> PICK new : new = Append(after, entry)
    OBVIOUS
  <2>1. after \in Seq(Calls)
    BY <1>2
  <2>2. /\ new \in Seq(Calls) /\ Len(new) = Len(after) + 1
        /\ \A i \in 1..Len(after) : new[i] = after[i]
        /\ new[Len(after) + 1] = entry
    BY <1>8, <2>1, AppendProperties
  <2>3. Len(after) \in Nat
    BY <2>1, LenProperties
  <2> QED BY <1>1, <2>1, <2>2, <2>3
<1>13. \A i \in 1..Len(stack') : CallFits(stack'[i], b)
  <2>1. \A i \in 1 .. Len(after) + 1 : i \in 1..Len(after) \/ i = Len(after) + 1
    BY <1>12
  <2> QED BY <1>9, <1>11, <1>12, <2>1
<1>14. \A i \in 1..Len(stack') : CallFits(stack'[i], builder')
  BY <1>10, <1>13 DEF CallFits
<1> QED BY <1>1, <1>10, <1>12, <1>14 DEF DisplayInv

LEMMA AddObjectInv == DisplayInv /\ AddObject => DisplayInv'
<1> SUFFICES ASSUME DisplayInv, AddObject PROVE DisplayInv'
  OBVIOUS
<1> PICK o : o = Head(Top.rest)
  OBVIOUS
<1> PICK cs : cs = <<o>> \o model.clippers[o]
  OBVIOUS
<1> PICK b : b = AddAllObjects(builder, cs)
  OBVIOUS
<1> PICK after : after = [stack EXCEPT ![Len(stack)].rest = Tail(@)]
  OBVIOUS
<1>1. /\ stack # <<>> /\ Top.rest # <<>>
      /\ builder' = b /\ stack' = after
      /\ scene' = scene /\ list' = list
  BY DEF AddObject, AddAllObjects
<1>2. /\ o \in Object /\ after \in Seq(Calls) /\ Len(after) = Len(stack)
      /\ \A i \in 1..Len(stack) : CallFits(after[i], builder)
  BY <1>1, NextObject
<1>3. model \in Model
  BY <1>1, ThereIsAModel
<1>4. model.clippers[o] \in Seq(Object)
  BY <1>2, <1>3 DEF Model
<1>5. builder \in Placed
  BY DEF DisplayInv
<1>6. b \in Placed /\ Keeps(builder, b)
  BY <1>2, <1>3, <1>4, <1>5, FirstAndMore, ObjectsPlaced
<1>7. \A i \in 1..Len(after) : CallFits(after[i], b)
  <2> SUFFICES ASSUME NEW i \in 1..Len(after) PROVE CallFits(after[i], b)
    OBVIOUS
  <2>1. after[i] \in Calls /\ CallFits(after[i], builder)
    BY <1>2, ElementOfSeq
  <2> QED BY <1>5, <1>6, <2>1, FitsStill
<1> QED BY <1>1, <1>2, <1>6, <1>7 DEF DisplayInv

LEMMA LeaveGroupInv == DisplayInv /\ LeaveGroup => DisplayInv'
<1> SUFFICES ASSUME DisplayInv, LeaveGroup PROVE DisplayInv'
  OBVIOUS
<1> PICK n : n = Len(stack)
  OBVIOUS
<1> PICK top : top = stack[n]
  OBVIOUS
<1> PICK b : b = EndItems(builder, top.start, top.end)
  OBVIOUS
<1>1. /\ n > 1
      /\ builder' = [b EXCEPT !.clip_depth = @ - 1]
      /\ stack' = SubSeq(stack, 1, n - 1)
      /\ scene' = scene /\ list' = list
  BY DEF LeaveGroup, Top, Last, Front
<1>2. stack \in Seq(Calls) /\ \A i \in 1..n : CallFits(stack[i], builder)
  BY DEF DisplayInv
<1>3. n \in Nat /\ n \in 1..n /\ stack # <<>>
  BY <1>1, <1>2, LenProperties
<1>4. top \in Calls /\ CallFits(top, builder)
  BY <1>2, <1>3, ElementOfSeq
<1>5. model \in Model /\ builder \in Placed
  BY <1>3, ThereIsAModel DEF DisplayInv
<1>6. b \in Placed /\ Keeps(builder, b)
  BY <1>4, <1>5, EndItemsPlaced DEF Calls, CallFits
<1>7. builder' \in Placed /\ builder'.items = b.items
  <2>1. b.clip_depth - 1 \in Int
    BY <1>6 DEF Placed, Builders
  <2>2. builder' = [b EXCEPT !.clip_depth = b.clip_depth - 1]
    BY <1>1
  <2> QED BY <1>6, <2>1, <2>2, DepthMovesNothing
<1>8. /\ stack' \in Seq(Calls) /\ Len(stack') = n - 1
      /\ \A i \in 1 .. n - 1 : stack'[i] = stack[i] /\ stack[i] \in Calls /\ CallFits(stack[i], builder)
  <2>1. \A i \in 1 .. n - 1 : i \in 1..n
    BY <1>3
  <2>2. \A i \in 1 .. n - 1 : stack[i] \in Calls
    BY <1>2, <2>1, ElementOfSeq
  <2> PICK last : last = n - 1
    OBVIOUS
  <2>6. 1 \in Int /\ last \in Int /\ \A i \in 1..last : stack[i] \in Calls
    BY <1>3, <2>2
  <2>7. /\ SubSeq(stack, 1, last) \in Seq(Calls)
        /\ Len(SubSeq(stack, 1, last)) = IF 1 <= last THEN last - 1 + 1 ELSE 0
        /\ \A i \in 1 .. last - 1 + 1 : SubSeq(stack, 1, last)[i] = stack[1 + i - 1]
    BY <2>6, SubSeqProperties
  <2>3. /\ stack' \in Seq(Calls)
        /\ Len(stack') = IF 1 <= n - 1 THEN n - 1 - 1 + 1 ELSE 0
        /\ \A i \in 1 .. n - 1 - 1 + 1 : stack'[i] = stack[1 + i - 1]
    BY <1>1, <2>7
  <2>4. n - 1 - 1 + 1 = n - 1 /\ 1 <= n - 1 /\ \A i \in 1 .. n - 1 : 1 + i - 1 = i
    BY <1>1, <1>3
  <2>5. Len(stack') = n - 1 /\ \A i \in 1 .. n - 1 : stack'[i] = stack[i]
    BY <2>3, <2>4
  <2> QED BY <1>2, <2>1, <2>2, <2>3, <2>5
<1>9. \A i \in 1..Len(stack') : CallFits(stack'[i], b)
  BY <1>5, <1>6, <1>8, FitsStill
<1>10. \A i \in 1..Len(stack') : CallFits(stack'[i], builder')
  BY <1>7, <1>9 DEF CallFits
<1> QED BY <1>1, <1>3, <1>7, <1>8, <1>10 DEF DisplayInv

LEMMA DisplayStep == DisplayInv /\ [DisplayNext]_displayVars => DisplayInv'
<1> SUFFICES ASSUME DisplayInv, [DisplayNext]_displayVars PROVE DisplayInv'
  OBVIOUS
<1>1. CASE UNCHANGED buildVars
  BY <1>1 DEF buildVars, DisplayInv
<1>2. CASE BeginDisplayList
  BY <1>2, BeginDisplayListInv
<1>3. CASE AddClipperAndClippeeObjects
  BY <1>3, AddClipperAndClippeeObjectsInv
<1>4. CASE AddObject
  BY <1>4, AddObjectInv
<1>5. CASE LeaveGroup
  BY <1>5, LeaveGroupInv
<1>6. CASE Build
  <2>1. stack' = <<>> /\ scene' = scene /\ list' = list /\ builder' = builder
    BY <1>6 DEF Build
  <2>2. <<>> \in Seq(Calls) /\ Len(<<>>) = 0
    OBVIOUS
  <2> QED BY <2>1, <2>2 DEF DisplayInv
<1>7. CASE DrawItem
  BY <1>1, <1>7 DEF DrawItem
<1> QED BY <1>1, <1>2, <1>3, <1>4, <1>5, <1>6, <1>7 DEF DisplayNext, displayVars

(* However many objects a scene has, however its groups are nested, and     *)
(* whatever the sizes of buffers and allocations: what two objects are      *)
(* drawn with does not overlap.                                             *)
THEOREM NoDataAreShared == FrameSpec => []ItemsDoNotShareData
<1>1. DisplayInv => ItemsDoNotShareData
  <2> SUFFICES ASSUME DisplayInv PROVE ItemsDoNotShareData
    OBVIOUS
  <2>1. builder.items \in Seq(DisplayItems) /\ WellPlaced(builder)
    BY DEF DisplayInv, Placed, Builders
  <2>2. DOMAIN builder.items = 1..Len(builder.items)
    BY <2>1, LenProperties
  <2> QED BY <2>1, <2>2 DEF ItemsDoNotShareData, WellPlaced, HasPlace, Apart
<1> QED BY DisplayInitially, DisplayStep, <1>1, PTL DEF FrameSpec
------------------------------------------------------------------------------
(***************************************************************************)
(* Clipping.  The scenes are trees: the groups that an object is in are    *)
(* vectors of Objects, which C++ copies.                                   *)
(***************************************************************************)
\* nesting: how many groups an object is in, at most.
NestingFits(m, nesting) ==
  /\ nesting \in [Object -> 0 .. StencilSize - 1]
  /\ \A g \in Object : \A c \in ToSet(m.clippees[g]) : nesting[g] < nesting[c]

\* What Visible() computes, group by group.
InsideEquation(m, f) ==
  f = [o \in Object |->
        IF ClippedBy(m, o) # {}
        THEN LET g == CHOOSE g \in ClippedBy(m, o) : TRUE IN f[g] \cap ClipArea(m, g)
        ELSE IF ClipsFor(m, o) # {} THEN f[CHOOSE g \in ClipsFor(m, o) : TRUE]
        ELSE Pixel]

LEMMA VisibleIsChosen ==
  ASSUME NEW m
  PROVE  Visible(m) = [o \in Object |-> Area(m, o) \cap (CHOOSE f : InsideEquation(m, f))[o]]
  BY DEF Visible, InsideEquation

\* The groups around an object: in every set that has those next to it, and
\* with a group the one that it is in.
Encloses(m, o, X) ==
  /\ X \subseteq Object
  /\ ClippedBy(m, o) \subseteq X
  /\ \A g \in X : ClippedBy(m, g) \subseteq X

Around(m, o) == {g \in Object : \A X : Encloses(m, o, X) => g \in X}

LEMMA AroundClippee ==
  ASSUME NEW m, NEW o, NEW g, g \in Object, ClippedBy(m, o) = {g}
  PROVE  Around(m, o) = {g} \cup Around(m, g)
<1>1. ASSUME NEW X, Encloses(m, o, X) PROVE g \in X /\ Encloses(m, g, X)
  BY <1>1 DEF Encloses
<1>2. ASSUME NEW X, Encloses(m, g, X) PROVE Encloses(m, o, {g} \cup X)
  BY <1>2 DEF Encloses
<1>3. ASSUME NEW a \in Around(m, o), a # g PROVE a \in Around(m, g)
  <2> SUFFICES ASSUME NEW X, Encloses(m, g, X) PROVE a \in X
    BY <1>3 DEF Around
  <2>1. Encloses(m, o, {g} \cup X)
    BY <1>2
  <2>2. a \in {g} \cup X
    BY <2>1, <1>3 DEF Around
  <2> QED BY <2>2, <1>3
<1>4. ASSUME NEW a \in Around(m, g) PROVE a \in Around(m, o)
  BY <1>1, <1>4 DEF Around
<1>5. g \in Around(m, o)
  BY <1>1 DEF Around
<1> QED BY <1>3, <1>4, <1>5

LEMMA AroundNobody ==
  ASSUME NEW m, NEW o, ClippedBy(m, o) = {}
  PROVE  Around(m, o) = {}
<1>1. Encloses(m, o, {})
  BY DEF Encloses
<1> QED BY <1>1 DEF Around

Enclosed(m, o) == {p \in Pixel : \A g \in Around(m, o) : p \in ClipArea(m, g)}

LEMMA EnclosedClippee ==
  ASSUME NEW m, NEW o, NEW g, g \in Object, ClippedBy(m, o) = {g}
  PROVE  Enclosed(m, o) = Enclosed(m, g) \cap ClipArea(m, g)
<1>1. Around(m, o) = {g} \cup Around(m, g)
  BY AroundClippee
<1> QED BY <1>1 DEF Enclosed

LEMMA EnclosedNobody ==
  ASSUME NEW m, NEW o, ClippedBy(m, o) = {}
  PROVE  Enclosed(m, o) = Pixel
  BY AroundNobody DEF Enclosed

\* The object whose surroundings are those of o.
Clipping(m, o) == IF ClippedBy(m, o) = {} /\ ClipsFor(m, o) # {}
                  THEN CHOOSE g \in ClipsFor(m, o) : TRUE ELSE o

LEMMA TreeFacts ==
  ASSUME NEW m, IsTree(m), NEW o, o \in Object
  PROVE  /\ \A g \in ClippedBy(m, o) : /\ g \in Object /\ ClippedBy(m, o) = {g} /\ ClipsFor(m, o) = {}
         /\ \A g \in ClipsFor(m, o) : /\ g \in Object /\ ClipsFor(m, o) = {g} /\ ClippedBy(m, o) = {}
                                      /\ ClipsFor(m, g) = {}
<1>1. \A x \in Object : \A g, h \in Above(m, x) : g = h
  BY DEF IsTree
<1>2. \A x \in Object : ClippedBy(m, x) \cap ClipsFor(m, x) = {}
  BY DEF IsTree
<1>3. \A x : ClippedBy(m, x) \subseteq Object /\ ClipsFor(m, x) \subseteq Object
  BY DEF ClippedBy, ClipsFor
<1>4. ASSUME NEW g \in ClippedBy(m, o)
      PROVE  g \in Object /\ ClippedBy(m, o) = {g} /\ ClipsFor(m, o) = {}
  BY <1>1, <1>2, <1>3 DEF Above
<1>5. ASSUME NEW g \in ClipsFor(m, o)
      PROVE  /\ g \in Object /\ ClipsFor(m, o) = {g} /\ ClippedBy(m, o) = {}
             /\ ClipsFor(m, g) = {}
  <2>1. g \in Object /\ ClipsFor(m, o) = {g} /\ ClippedBy(m, o) = {}
    BY <1>1, <1>2, <1>3 DEF Above
  <2>2. o \in ToSet(m.clippers[g])
    BY DEF ClipsFor
  <2>3. m.clippers[g] # <<>>
    BY <2>2 DEF ToSet
  <2>4. g \in ToSet(m.objects) \/ ClippedBy(m, g) # {}
    BY <2>1, <2>3 DEF IsTree
  <2>5. ClipsFor(m, g) = {}
    <3>1. CASE g \in ToSet(m.objects)
      BY <3>1 DEF IsTree, Above
    <3>2. CASE ClippedBy(m, g) # {}
      BY <1>1, <1>2, <2>1, <3>2 DEF Above
    <3> QED BY <2>4, <3>1, <3>2
  <2> QED BY <2>1, <2>5
<1> QED BY <1>4, <1>5

LEMMA InsideExists ==
  ASSUME NEW m, IsTree(m)
  PROVE  \E f : InsideEquation(m, f)
<1> DEFINE f == [o \in Object |-> Enclosed(m, Clipping(m, o))]
           Body(o) == IF ClippedBy(m, o) # {}
                      THEN LET g == CHOOSE g \in ClippedBy(m, o) : TRUE IN f[g] \cap ClipArea(m, g)
                      ELSE IF ClipsFor(m, o) # {} THEN f[CHOOSE g \in ClipsFor(m, o) : TRUE]
                      ELSE Pixel
<1>1. \A o \in Object : f[o] = Enclosed(m, Clipping(m, o))
  OBVIOUS
<1> HIDE DEF f
<1>2. ASSUME NEW o \in Object
      PROVE  Enclosed(m, Clipping(m, o)) = Body(o)
  <2>1. CASE ClippedBy(m, o) # {}
    <3> PICK g : g = CHOOSE h \in ClippedBy(m, o) : TRUE
      OBVIOUS
    <3>1. g \in Object /\ ClippedBy(m, o) = {g} /\ ClipsFor(m, o) = {}
      BY <2>1, TreeFacts
    <3>2. Clipping(m, o) = o
      BY <3>1 DEF Clipping
    <3>3. Clipping(m, g) = g
      <4>1. m.clippees[g] # <<>>
        BY <3>1 DEF ClippedBy, ToSet
      <4>2. g \in ToSet(m.objects) \/ ClippedBy(m, g) # {}
        BY <3>1, <4>1 DEF IsTree
      <4>3. g \in ToSet(m.objects) => ClipsFor(m, g) = {}
        BY DEF IsTree, Above
      <4> QED BY <4>2, <4>3 DEF Clipping
    <3>4. Enclosed(m, o) = Enclosed(m, g) \cap ClipArea(m, g)
      BY <3>1, EnclosedClippee
    <3>5. f[g] = Enclosed(m, g)
      BY <1>1, <3>1, <3>3
    <3>6. Body(o) = f[g] \cap ClipArea(m, g)
      BY <2>1
    <3> QED BY <3>2, <3>4, <3>5, <3>6
  <2>2. CASE ClippedBy(m, o) = {} /\ ClipsFor(m, o) # {}
    <3> PICK g : g = CHOOSE h \in ClipsFor(m, o) : TRUE
      OBVIOUS
    <3>1. g \in Object /\ ClipsFor(m, g) = {}
      BY <2>2, TreeFacts
    <3>2. Clipping(m, o) = g /\ Clipping(m, g) = g
      BY <2>2, <3>1 DEF Clipping
    <3>3. Body(o) = f[g]
      BY <2>2
    <3> QED BY <1>1, <3>1, <3>2, <3>3
  <2>3. CASE ClippedBy(m, o) = {} /\ ClipsFor(m, o) = {}
    BY <2>3, EnclosedNobody DEF Clipping
  <2> QED BY <2>1, <2>2, <2>3
<1>3. f = [o \in Object |-> Body(o)]
  <2>1. [o \in Object |-> Enclosed(m, Clipping(m, o))] = [o \in Object |-> Body(o)]
    BY <1>2
  <2> QED BY <2>1 DEF f
<1>4. InsideEquation(m, f)
  BY <1>3 DEF InsideEquation
<1> QED BY <1>4

\* inside: where an object is drawn, if it covers everything.
Clips(m, inside) ==
  /\ inside \in [Object -> SUBSET Pixel]
  /\ \A o \in Object : Visible(m)[o] = Area(m, o) \cap inside[o]
  /\ \A o \in Object : \A g \in ClippedBy(m, o) : inside[o] = inside[g] \cap ClipArea(m, g)
  /\ \A o \in Object : \A g \in ClipsFor(m, o) : inside[o] = inside[g]
  /\ \A o \in ToSet(m.objects) : o \in Object => inside[o] = Pixel

LEMMA AreaType == ASSUME NEW m, m \in Model, NEW o, o \in Object PROVE Area(m, o) \subseteq Pixel
<1>1. m.shape[o] \in (SUBSET Pixel) \cup {kNone}
  BY DEF Model
<1> QED BY <1>1 DEF Area

LEMMA ClipsExists ==
  ASSUME NEW m, m \in Model, IsTree(m)
  PROVE  \E inside : Clips(m, inside)
<1> PICK f : InsideEquation(m, f) /\ Visible(m) = [o \in Object |-> Area(m, o) \cap f[o]]
  BY InsideExists, VisibleIsChosen
<1>1. ASSUME NEW o \in Object
      PROVE  f[o] = IF ClippedBy(m, o) # {}
                    THEN LET g == CHOOSE g \in ClippedBy(m, o) : TRUE IN f[g] \cap ClipArea(m, g)
                    ELSE IF ClipsFor(m, o) # {} THEN f[CHOOSE g \in ClipsFor(m, o) : TRUE]
                    ELSE Pixel
  BY DEF InsideEquation
<1>2. ASSUME NEW o \in Object, NEW g \in ClippedBy(m, o)
      PROVE  g \in Object /\ f[o] = f[g] \cap ClipArea(m, g)
  <2>1. g \in Object /\ ClippedBy(m, o) = {g}
    BY TreeFacts
  <2>2. (CHOOSE h \in ClippedBy(m, o) : TRUE) = g
    BY <2>1
  <2> QED BY <1>1, <2>1, <2>2
<1>3. ASSUME NEW o \in Object, NEW g \in ClipsFor(m, o)
      PROVE  g \in Object /\ f[o] = f[g] /\ ClipsFor(m, g) = {}
  <2>1. g \in Object /\ ClipsFor(m, o) = {g} /\ ClippedBy(m, o) = {} /\ ClipsFor(m, g) = {}
    BY TreeFacts
  <2>2. (CHOOSE h \in ClipsFor(m, o) : TRUE) = g
    BY <2>1
  <2> QED BY <1>1, <2>1, <2>2
<1>4. ASSUME NEW o \in Object, Above(m, o) = {}
      PROVE  f[o] = Pixel
  BY <1>1, <1>4 DEF Above
<1> DEFINE inside == [o \in Object |-> f[o] \cap Pixel]
<1>5. \A o \in Object : inside[o] = f[o] \cap Pixel
  OBVIOUS
<1>6. inside \in [Object -> SUBSET Pixel]
  OBVIOUS
<1> HIDE DEF inside
<1>7. \A o \in Object : Visible(m)[o] = Area(m, o) \cap inside[o]
  <2> SUFFICES ASSUME NEW o \in Object PROVE Visible(m)[o] = Area(m, o) \cap inside[o]
    OBVIOUS
  <2>1. Area(m, o) \subseteq Pixel
    BY AreaType
  <2>2. Visible(m)[o] = Area(m, o) \cap f[o]
    OBVIOUS
  <2> QED BY <1>5, <2>1, <2>2
<1>8. \A o \in Object : \A g \in ClippedBy(m, o) : inside[o] = inside[g] \cap ClipArea(m, g)
  BY <1>2, <1>5
<1>9. \A o \in Object : \A g \in ClipsFor(m, o) : inside[o] = inside[g]
  BY <1>3, <1>5
<1>10. \A o \in ToSet(m.objects) : o \in Object => inside[o] = Pixel
  BY <1>4, <1>5 DEF IsTree
<1> QED BY <1>6, <1>7, <1>8, <1>9, <1>10 DEF Clips

(***************************************************************************)
(* What the GPU makes of the items of a list, whatever pipeline is bound:  *)
(* stencil[k] and paint[k] are what there is after k items.                *)
(***************************************************************************)
Zero == [p \in Pixel |-> 0]
NoPaint == [o \in Object |-> {}]

Hit(m, x, s) == {p \in m.shape[x.object] :
                   x.pipeline.is_clippee => s[p] = x.stencil_reference % StencilSize}
NextStencil(m, x, s) ==
  [p \in Pixel |-> IF p \in Hit(m, x, s) THEN StencilAfter(x.pipeline, s[p]) ELSE s[p]]
\* The paint after an item that hits the pixels in hit.
Painted(x, q, hit) ==
  [o \in Object |-> IF o = x.object /\ x.pipeline.has_material THEN q[o] \cup hit ELSE q[o]]

Values == [Pixel -> Nat]
Paints == [Object -> SUBSET Pixel]

Executes(m, items, s, q) ==
  /\ s \in [Nat -> Values] /\ q \in [Nat -> Paints]
  /\ s[0] = Zero /\ q[0] = NoPaint
  /\ \A k \in 1..Len(items) :
       /\ s[k] = NextStencil(m, items[k], s[k - 1])
       /\ q[k] = Painted(items[k], q[k - 1], Hit(m, items[k], s[k - 1]))

LEMMA SmallRemainder ==
  ASSUME NEW k, NEW W, W \in Nat, W # 0, k \in 0 .. W - 1
  PROVE  k % W = k
<1>1. 0 \in Int /\ (0 * W + k) % W = k
  BY ModUnique
<1>2. 0 * W + k = k
  OBVIOUS
<1> QED BY <1>1, <1>2

\* Where something is drawn first, the depth counts up once.
Raised(s, d, U) == [p \in Pixel |-> IF s[p] = d /\ p \in U THEN d + 1 ELSE s[p]]
Lowered(s, e, U) == [p \in Pixel |-> IF s[p] = e /\ p \in U THEN e - 1 ELSE s[p]]

\* No stencil value is above d.
AtMost(s, d) == \A p \in Pixel : s[p] <= d

IsFirstDrawing(x, d) ==
  /\ x.pipeline.is_clippee = (d > 0) /\ x.pipeline.clipper_state = "BeginClipChildren"
  /\ x.stencil_reference = d

\* Where the item's object covers what has the value d.
Among(m, x, s, d) == {p \in m.shape[x.object] : s[p] = d}

\* One more group can be told apart at depth d.
Deeper(d) == d \in Nat /\ d + 1 < StencilSize

LEMMA FirstDrawing ==
  ASSUME NEW m, m \in Model, NEW x, NEW d, NEW s, NEW U, IsFirstDrawing(x, d),
         x.object \in Object, m.shape[x.object] # kNone,
         Deeper(d), s \in Values, AtMost(s, d)
  PROVE  /\ NextStencil(m, x, Raised(s, d, U)) = Raised(s, d, U \cup m.shape[x.object])
         /\ Hit(m, x, Raised(s, d, U)) \subseteq Among(m, x, s, d)
<1> PICK A, t : A = m.shape[x.object] /\ t = Raised(s, d, U)
  OBVIOUS
<1>0. d \in Nat /\ d + 1 < StencilSize
  BY DEF Deeper
<1>1. A \in SUBSET Pixel
  BY DEF Model
<1>2. d % StencilSize = d /\ (d + 1) % StencilSize = d + 1
  BY <1>0, SceneAssumption, SmallRemainder
<1>3. \A p \in Pixel : s[p] \in Nat /\ t[p] = IF s[p] = d /\ p \in U THEN d + 1 ELSE s[p]
  BY <1>0 DEF Raised, Values
<1>4. \A p \in Pixel : p \in Hit(m, x, t) <=> p \in A /\ (d > 0 => t[p] = d)
  BY <1>0, <1>1, <1>2 DEF Hit, IsFirstDrawing
<1>5. \A v \in Nat : StencilAfter(x.pipeline, v) = IF d > 0 THEN (v + 1) % StencilSize ELSE 1
  BY <1>0 DEF StencilAfter, IsFirstDrawing
<1>6. ASSUME NEW p \in Pixel
      PROVE  /\ NextStencil(m, x, t)[p] = IF s[p] = d /\ p \in U \cup A THEN d + 1 ELSE s[p]
             /\ p \in Hit(m, x, t) => s[p] = d
  <2>1. NextStencil(m, x, t)[p] = IF p \in Hit(m, x, t) THEN StencilAfter(x.pipeline, t[p]) ELSE t[p]
    BY DEF NextStencil
  <2>2. t[p] \in Nat /\ s[p] \in Nat /\ s[p] <= d
    BY <1>0, <1>3 DEF AtMost
  <2>3. CASE d > 0
    <3>1. p \in Hit(m, x, t) <=> p \in A /\ s[p] = d /\ p \notin U
      BY <1>0, <1>3, <1>4, <2>2, <2>3
    <3>2. p \in Hit(m, x, t) => StencilAfter(x.pipeline, t[p]) = d + 1
      BY <1>0, <1>2, <1>4, <1>5, <2>2, <2>3
    <3> QED BY <1>0, <1>3, <2>1, <3>1, <3>2
  <2>4. CASE d = 0
    <3>1. (p \in Hit(m, x, t) <=> p \in A) /\ s[p] = 0 /\ StencilAfter(x.pipeline, t[p]) = 1
      BY <1>0, <1>4, <1>5, <2>2, <2>4
    <3> QED BY <1>3, <2>1, <2>4, <3>1
  <2> QED BY <1>0, <2>3, <2>4
<1>7. NextStencil(m, x, t) = [p \in Pixel |-> NextStencil(m, x, t)[p]]
  BY DEF NextStencil
<1>8. [p \in Pixel |-> NextStencil(m, x, t)[p]] = Raised(s, d, U \cup A)
  BY <1>0, <1>6 DEF Raised
<1>9. Hit(m, x, t) \subseteq A
  BY DEF Hit
<1> QED BY <1>1, <1>6, <1>7, <1>8, <1>9 DEF Among

IsSecondDrawing(x, e) ==
  /\ x.pipeline.is_clippee = (e > 1) /\ x.pipeline.clipper_state = "EndClipChildren"
  /\ x.stencil_reference = e /\ ~x.pipeline.has_material

\* A group is open.
Nested(e) == e \in Nat /\ e > 0 /\ e < StencilSize

LEMMA SecondDrawing ==
  ASSUME NEW m, m \in Model, NEW x, NEW e, NEW s, NEW U, IsSecondDrawing(x, e),
         x.object \in Object, m.shape[x.object] # kNone,
         Nested(e), s \in Values, AtMost(s, e)
  PROVE  NextStencil(m, x, Lowered(s, e, U)) = Lowered(s, e, U \cup m.shape[x.object])
<1> PICK A, t : A = m.shape[x.object] /\ t = Lowered(s, e, U)
  OBVIOUS
<1>0. e \in Nat /\ e > 0 /\ e < StencilSize
  BY DEF Nested
<1>1. A \in SUBSET Pixel
  BY <1>0 DEF Model
<1>2. e % StencilSize = e /\ (e + StencilSize - 1) % StencilSize = e - 1
  <2>1. StencilSize \in Nat /\ StencilSize # 0
    BY <1>0, SceneAssumption
  <2>2. e % StencilSize = e
    BY <1>0, <2>1, SmallRemainder
  <2>3. (1 * StencilSize + (e - 1)) % StencilSize = e - 1
    <3>1. 1 \in Int /\ e - 1 \in 0 .. (StencilSize - 1)
      BY <1>0, <2>1
    <3> QED BY <1>0, <2>1, <3>1, ModUnique
  <2>4. 1 * StencilSize + (e - 1) = e + StencilSize - 1
    BY <1>0, <2>1
  <2> QED BY <1>0, <2>2, <2>3, <2>4
<1>3. \A p \in Pixel : s[p] \in Nat /\ t[p] = IF s[p] = e /\ p \in U THEN e - 1 ELSE s[p]
  BY <1>0 DEF Lowered, Values
<1>4. \A p \in Pixel : p \in Hit(m, x, t) <=> p \in A /\ (e > 1 => t[p] = e)
  BY <1>0, <1>1, <1>2 DEF Hit, IsSecondDrawing
<1>5. \A v \in Nat : StencilAfter(x.pipeline, v) =
                       IF e > 1 THEN (v + StencilSize - 1) % StencilSize ELSE 0
  BY <1>0 DEF StencilAfter, IsSecondDrawing
<1>6. ASSUME NEW p \in Pixel
      PROVE  NextStencil(m, x, t)[p] = IF s[p] = e /\ p \in U \cup A THEN e - 1 ELSE s[p]
  <2>1. NextStencil(m, x, t)[p] = IF p \in Hit(m, x, t) THEN StencilAfter(x.pipeline, t[p]) ELSE t[p]
    BY <1>0 DEF NextStencil
  <2>2. t[p] \in Nat /\ s[p] \in Nat /\ s[p] <= e
    BY <1>0, <1>3 DEF AtMost
  <2>3. CASE e > 1
    <3>1. p \in Hit(m, x, t) <=> p \in A /\ s[p] = e /\ p \notin U
      BY <1>0, <1>3, <1>4, <2>2, <2>3
    <3>2. p \in Hit(m, x, t) => StencilAfter(x.pipeline, t[p]) = e - 1
      BY <1>0, <1>2, <1>4, <1>5, <2>2, <2>3
    <3> QED BY <1>0, <1>3, <2>1, <3>1, <3>2
  <2>4. CASE e = 1
    <3>1. (p \in Hit(m, x, t) <=> p \in A) /\ s[p] \in {0, 1} /\ StencilAfter(x.pipeline, t[p]) = 0
      BY <1>0, <1>4, <1>5, <2>2, <2>4
    <3> QED BY <1>0, <1>3, <2>1, <2>4, <3>1
  <2> QED BY <1>0, <2>3, <2>4
<1>7. NextStencil(m, x, t) = [p \in Pixel |-> NextStencil(m, x, t)[p]]
  BY <1>0 DEF NextStencil
<1>8. [p \in Pixel |-> NextStencil(m, x, t)[p]] = Lowered(s, e, U \cup A)
  BY <1>0, <1>6 DEF Lowered
<1> QED BY <1>0, <1>7, <1>8

IsOnlyDrawing(x, d) ==
  /\ x.pipeline.is_clippee = (d > 0) /\ x.pipeline.clipper_state = "NoClipChildren"
  /\ x.stencil_reference = d

Drawable(d) == d \in Nat /\ d < StencilSize

LEMMA OnlyDrawing ==
  ASSUME NEW m, m \in Model, NEW x, NEW d, NEW s, IsOnlyDrawing(x, d),
         x.object \in Object, m.shape[x.object] # kNone,
         Drawable(d), s \in Values, AtMost(s, d)
  PROVE  /\ NextStencil(m, x, s) = s
         /\ Hit(m, x, s) = Among(m, x, s, d)
<1>0. d \in Nat /\ d < StencilSize
  BY DEF Drawable
<1>1. m.shape[x.object] \in SUBSET Pixel
  BY DEF Model
<1>2. d % StencilSize = d
  BY <1>0, SceneAssumption, SmallRemainder
<1>3. \A p \in Pixel : s[p] \in Nat /\ s[p] <= d
  BY <1>0 DEF Values, AtMost
<1>4. \A v : StencilAfter(x.pipeline, v) = v
  BY DEF StencilAfter, IsOnlyDrawing
<1>5. NextStencil(m, x, s) = [p \in Pixel |-> s[p]]
  BY <1>4 DEF NextStencil
<1>6. s = [p \in Pixel |-> s[p]]
  BY DEF Values
<1>7. \A p \in m.shape[x.object] : d > 0 \/ s[p] = d
  BY <1>0, <1>1, <1>3
<1>8. Hit(m, x, s) = Among(m, x, s, d)
  BY <1>0, <1>2, <1>7 DEF Hit, IsOnlyDrawing, Among
<1> QED BY <1>5, <1>6, <1>8

LEMMA PushGives ==
  ASSUME NEW b, NEW o, NEW state, NEW disable, WellPlaced(b), o \in Object,
         state \in ClipperStates, disable \in BOOLEAN
  PROVE  \E x \in DisplayItems :
           /\ PushItem(b, o, state, disable).items = Append(b.items, x)
           /\ PushItem(b, o, state, disable).clip_depth = b.clip_depth
           /\ x.object = o /\ x.stencil_reference = b.clip_depth
           /\ x.pipeline.is_clippee = (b.clip_depth > 0) /\ x.pipeline.clipper_state = state
           /\ x.pipeline.has_material = (model.material[o] # "none")
<1>1. b \in Builders /\ CountersOK(b)
  BY DEF WellPlaced
<1> PICK p : p = PrepareUniformBuffer(b)
  OBVIOUS
<1> PICK c : c = ObtainPerObjectDescriptorSet(p)
  OBVIOUS
<1>2. p \in Builders /\ p.items = b.items /\ p.clip_depth = b.clip_depth
  BY <1>1, PrepareGives
<1>3. c \in Builders /\ c.items = b.items /\ c.clip_depth = b.clip_depth
  BY <1>2, ObtainSetGives
<1> PICK clippee, material : clippee = (b.clip_depth > 0) /\ material = model.material[o]
  OBVIOUS
<1> PICK spec : spec = GetPipeline(pipelines, PipelineSpec(clippee, state, material, disable))
  OBVIOUS
<1>4. spec \in PipelineSpecs
  <2>1. clippee \in BOOLEAN
    OBVIOUS
  <2> QED BY <2>1, SpecType
<1>5. /\ spec.is_clippee = clippee /\ spec.clipper_state = state
      /\ spec.has_material = (material # "none")
  BY DEF GetPipeline, PipelineSpec
<1> PICK x : x = [object |-> o, buffer |-> c.uniform_buffer, offset |-> c.write_index,
                  set |-> <<c.allocation, c.set_index>>, pipeline |-> spec,
                  stencil_reference |-> b.clip_depth]
  OBVIOUS
<1>6. /\ b.clip_depth \in Int /\ c.uniform_buffer \in Nat /\ c.write_index \in Nat
      /\ c.allocation \in Nat /\ c.set_index \in Nat
  BY <1>1, <1>3 DEF Builders
<1>7. x \in DisplayItems
  BY <1>4, <1>6 DEF DisplayItems
<1> PICK d : d = [c EXCEPT !.items = Append(@, x),
                           !.write_index = @ + kPerObjectSize,
                           !.disable_depth_test = disable]
  OBVIOUS
<1>8. PushItem(b, o, state, disable) = d
  BY DEF PushItem
<1>9. d.items = Append(b.items, x) /\ d.clip_depth = b.clip_depth
  BY <1>3 DEF Builders
<1>10. x.object = o /\ x.stencil_reference = b.clip_depth /\ x.pipeline = spec
  OBVIOUS
<1> QED BY <1>5, <1>7, <1>8, <1>9, <1>10

(***************************************************************************)
(* A builder c that goes on from b, and what its items do.                 *)
(***************************************************************************)
Items(b) == Len(b.items)

Continues(b, s, c, t, u) ==
  /\ c \in Placed /\ c.clip_depth = b.clip_depth /\ Keeps(b, c)
  /\ Executes(model, c.items, t, u)
  /\ \A k \in 0..Items(b) : t[k] = s[k]

\* One more item: what it makes of the buffers when n items have been drawn.
DrawsMore(m, items, s, q, x, n) ==
  \E t, u : /\ Executes(m, Append(items, x), t, u)
           /\ \A k \in 0..n : t[k] = s[k]
           /\ t[n + 1] = NextStencil(m, x, s[n])
           /\ u[n + 1] = Painted(x, q[n], Hit(m, x, s[n]))

LEMMA ExecutesMore ==
  ASSUME NEW m, NEW items, NEW s, NEW q, NEW x, items \in Seq(DisplayItems), x \in DisplayItems,
         Executes(m, items, s, q), NextStencil(m, x, s[Len(items)]) \in Values,
         Hit(m, x, s[Len(items)]) \subseteq Pixel
  PROVE  DrawsMore(m, items, s, q, x, Len(items))
<1> PICK n, more : n = Len(items) /\ more = Append(items, x)
  OBVIOUS
<1> PICK v, w : v = NextStencil(m, x, s[n]) /\ w = Painted(x, q[n], Hit(m, x, s[n]))
  OBVIOUS
<1>1. n \in Nat /\ Len(more) = n + 1 /\ (\A i \in 1..n : more[i] = items[i]) /\ more[n + 1] = x
  BY LenProperties, AppendProperties
<1>2. s \in [Nat -> Values] /\ q \in [Nat -> Paints] /\ s[0] = Zero /\ q[0] = NoPaint
  BY DEF Executes
<1>3. w \in Paints
  <2>1. q[n] \in Paints
    BY <1>1, <1>2
  <2> QED BY <2>1 DEF Painted, Paints
<1> DEFINE t == [s EXCEPT ![n + 1] = v]
           u == [q EXCEPT ![n + 1] = w]
<1>4. /\ t \in [Nat -> Values] /\ u \in [Nat -> Paints]
      /\ t[n + 1] = v /\ u[n + 1] = w
      /\ \A k \in 0..n : t[k] = s[k] /\ u[k] = q[k]
  BY <1>1, <1>2, <1>3
<1> HIDE DEF t, u
<1>5. ASSUME NEW k \in 1 .. n + 1
      PROVE  /\ t[k] = NextStencil(m, more[k], t[k - 1])
             /\ u[k] = Painted(more[k], u[k - 1], Hit(m, more[k], t[k - 1]))
  <2>1. CASE k \in 1..n
    <3>1. k \in 0..n /\ k - 1 \in 0..n /\ more[k] = items[k]
      BY <1>1, <2>1
    <3>2. /\ s[k] = NextStencil(m, items[k], s[k - 1])
          /\ q[k] = Painted(items[k], q[k - 1], Hit(m, items[k], s[k - 1]))
      BY <2>1 DEF Executes
    <3>3. t[k] = s[k] /\ u[k] = q[k] /\ t[k - 1] = s[k - 1] /\ u[k - 1] = q[k - 1]
      BY <1>4, <3>1
    <3> QED BY <3>1, <3>2, <3>3
  <2>2. CASE k = n + 1
    <3>1. k - 1 = n /\ n \in 0..n
      BY <1>1, <2>2
    <3>2. t[k - 1] = s[n] /\ u[k - 1] = q[n] /\ more[k] = x /\ t[k] = v /\ u[k] = w
      BY <1>1, <1>4, <2>2, <3>1
    <3> QED BY <3>2
  <2>3. k \in 1..n \/ k = n + 1
    BY <1>1
  <2> QED BY <2>1, <2>2, <2>3
<1>6. t[0] = Zero /\ u[0] = NoPaint
  <2>1. 0 \in 0..n
    BY <1>1
  <2> QED BY <1>2, <1>4, <2>1
<1>7. Executes(m, more, t, u)
  BY <1>1, <1>4, <1>5, <1>6 DEF Executes
<1> QED BY <1>1, <1>4, <1>7 DEF DrawsMore

ContinuesBy(b, s, c, t, u, d, x) ==
  \E v, w : /\ Continues(b, s, d, v, w)
           /\ v[Items(d)] = NextStencil(model, x, t[Items(c)])
           /\ w[Items(d)] = Painted(x, u[Items(c)], Hit(model, x, t[Items(c)]))

LEMMA ContinuesMore ==
  ASSUME NEW b, NEW s, NEW c, NEW t, NEW u, NEW d, NEW x,
         b \in Placed, Continues(b, s, c, t, u),
         d \in Placed, d.clip_depth = c.clip_depth, x \in DisplayItems,
         d.items = Append(c.items, x),
         NextStencil(model, x, t[Items(c)]) \in Values,
         Hit(model, x, t[Items(c)]) \subseteq Pixel
  PROVE  ContinuesBy(b, s, c, t, u, d, x)
<1> PICK n : n = Items(c)
  OBVIOUS
<1>1. b \in Builders /\ c \in Builders /\ d \in Builders
  BY DEF Continues, Placed
<1>2. b.items \in Seq(DisplayItems) /\ c.items \in Seq(DisplayItems)
  BY <1>1 DEF Builders
<1>3. n \in Nat /\ Items(b) \in Nat /\ Items(b) <= n /\ Items(d) = n + 1
  BY <1>2, LenProperties, AppendProperties DEF Items, Continues, Keeps
<1>4. Executes(model, c.items, t, u) /\ n = Len(c.items)
  BY DEF Continues, Items
<1> PICK its, m : its = c.items /\ m = model
  OBVIOUS
<1>5. PICK v, w : /\ Executes(model, Append(c.items, x), v, w)
                  /\ \A k \in 0..n : v[k] = t[k]
                  /\ v[n + 1] = NextStencil(model, x, t[n])
                  /\ w[n + 1] = Painted(x, u[n], Hit(model, x, t[n]))
  <2>1. /\ its \in Seq(DisplayItems) /\ x \in DisplayItems /\ Executes(m, its, t, u)
        /\ NextStencil(m, x, t[Len(its)]) \in Values
    BY <1>2, <1>4 DEF Items
  <2>2. Hit(m, x, t[Len(its)]) \subseteq Pixel
    BY <1>4
  <2>3. DrawsMore(m, its, t, u, x, Len(its))
    BY <2>1, <2>2, ExecutesMore
  <2>4. Len(its) = n
    BY <1>4
  <2> QED BY <2>3, <2>4 DEF DrawsMore
<1>6. \A k \in 0..Items(b) : v[k] = s[k]
  BY <1>3, <1>5 DEF Continues
<1>7. Keeps(c, d)
  <2>1. /\ Len(d.items) = Len(c.items) + 1
        /\ \A i \in 1..Len(c.items) : d.items[i] = c.items[i]
    BY <1>2, AppendProperties
  <2>2. Len(c.items) \in Nat
    BY <1>3, <1>4
  <2> QED BY <2>1, <2>2 DEF Keeps
<1>8. Keeps(b, d)
  BY <1>1, <1>7, KeepsOn DEF Continues
<1>9. Continues(b, s, d, v, w)
  BY <1>5, <1>6, <1>8 DEF Continues
<1> QED BY <1>3, <1>5, <1>9 DEF ContinuesBy

(***************************************************************************)
(* What the items that a builder c has and b has not do: they raise the    *)
(* stencil in U and paint the objects in X.                                *)
(***************************************************************************)
ItemsArea(m, b, start, end) == UNION {m.shape[b.items[i].object] : i \in start + 1 .. end}
HaveShapes(m, b, start, end) == \A i \in start + 1 .. end : m.shape[b.items[i].object] # kNone

\* Where an object is hit while the stencil is s.
HitAt(o, s, d) == {p \in Area(model, o) : s[p] = d}

Marks(b, s, q, c, U, X) ==
  \E t, u :
    /\ Continues(b, s, c, t, u)
    /\ t[Items(c)] = Raised(s[Items(b)], b.clip_depth, U)
    /\ \A o \in Object :
         /\ q[Items(b)][o] \subseteq u[Items(c)][o]
         /\ u[Items(c)][o] \subseteq q[Items(b)][o] \cup
              (IF o \in X THEN HitAt(o, s[Items(b)], b.clip_depth) ELSE {})
    /\ HaveShapes(model, c, Items(b), Items(c)) /\ ItemsArea(model, c, Items(b), Items(c)) = U

\* There is room for another group in the stencil values.
Nestable(b, s) ==
  /\ Deeper(b.clip_depth)
  /\ s[Items(b)] \in Values /\ AtMost(s[Items(b)], b.clip_depth)

LEMMA RaisedType ==
  ASSUME NEW s, NEW d, NEW U, s \in Values, d \in Nat
  PROVE  Raised(s, d, U) \in Values
<1>1. \A p \in Pixel : (IF s[p] = d /\ p \in U THEN d + 1 ELSE s[p]) \in Nat
  BY DEF Values
<1> QED BY <1>1 DEF Raised, Values

LEMMA LoweredType ==
  ASSUME NEW s, NEW e, NEW U, s \in Values, e \in Nat, e > 0
  PROVE  Lowered(s, e, U) \in Values
<1>1. \A p \in Pixel : (IF s[p] = e /\ p \in U THEN e - 1 ELSE s[p]) \in Nat
  BY DEF Values
<1> QED BY <1>1 DEF Lowered, Values

\* The items of a builder that got one more.
LEMMA OneMoreItem ==
  ASSUME NEW c, NEW d, NEW x, NEW start, c \in Placed, d \in Placed, x \in DisplayItems,
         d.items = Append(c.items, x), start \in 0..Items(c)
  PROVE  /\ Items(c) \in Nat /\ Items(d) = Items(c) + 1
         /\ ItemsArea(model, d, start, Items(d)) = ItemsArea(model, c, start, Items(c)) \cup model.shape[x.object]
         /\ HaveShapes(model, c, start, Items(c)) /\ model.shape[x.object] # kNone =>
              HaveShapes(model, d, start, Items(d))
<1> PICK n : n = Items(c)
  OBVIOUS
<1>1. c.items \in Seq(DisplayItems)
  BY DEF Placed, Builders
<1>2. /\ n \in Nat /\ Items(d) = n + 1 /\ d.items[n + 1] = x
      /\ \A i \in 1..n : d.items[i] = c.items[i]
  BY <1>1, LenProperties, AppendProperties DEF Items
<1>3. \A i \in start + 1 .. n : i \in 1..n /\ i \in start + 1 .. n + 1
  BY <1>2
<1>4. \A i \in start + 1 .. n + 1 : i \in start + 1 .. n \/ i = n + 1
  BY <1>2
<1>5. n + 1 \in start + 1 .. n + 1
  BY <1>2
<1>6. ItemsArea(model, d, start, n + 1) = ItemsArea(model, c, start, n) \cup model.shape[x.object]
  <2>1. \A p : p \in ItemsArea(model, d, start, n + 1) <=>
                 \E i \in start + 1 .. n + 1 : p \in model.shape[d.items[i].object]
    BY DEF ItemsArea
  <2>2. \A p : p \in ItemsArea(model, c, start, n) <=>
                 \E i \in start + 1 .. n : p \in model.shape[c.items[i].object]
    BY DEF ItemsArea
  <2> QED BY <1>2, <1>3, <1>4, <1>5, <2>1, <2>2
<1>7. HaveShapes(model, c, start, n) /\ model.shape[x.object] # kNone => HaveShapes(model, d, start, n + 1)
  BY <1>2, <1>3, <1>4 DEF HaveShapes
<1> QED BY <1>2, <1>6, <1>7

LEMMA MarksMore ==
  ASSUME NEW b, NEW s, NEW q, NEW c, NEW U, NEW X, NEW o, NEW A, model \in Model,
         Marks(b, s, q, c, U, X), A = {}
  PROVE  Marks(b, s, q, c, U \cup A, X \cup {o})
<1>1. U \cup A = U
  OBVIOUS
<1> QED BY <1>1 DEF Marks

LEMMA ClipperMarks ==
  ASSUME NEW b, NEW s, NEW q, NEW c, NEW U, NEW X, NEW o, b \in Placed, model \in Model,
         Nestable(b, s), Marks(b, s, q, c, U, X), o \in Object
  PROVE  Marks(b, s, q, AddClipperObject(c, o), U \cup Area(model, o), X \cup {o})
<1> PICK t, u :
      /\ Continues(b, s, c, t, u)
      /\ t[Items(c)] = Raised(s[Items(b)], b.clip_depth, U)
      /\ \A a \in Object :
           /\ q[Items(b)][a] \subseteq u[Items(c)][a]
           /\ u[Items(c)][a] \subseteq q[Items(b)][a] \cup
                (IF a \in X THEN HitAt(a, s[Items(b)], b.clip_depth) ELSE {})
      /\ HaveShapes(model, c, Items(b), Items(c)) /\ ItemsArea(model, c, Items(b), Items(c)) = U
  BY DEF Marks
<1> PICK d, s0, q0 : d = b.clip_depth /\ s0 = s[Items(b)] /\ q0 = q[Items(b)]
  OBVIOUS
<1> PICK w : w = AddClipperObject(c, o)
  OBVIOUS
<1>1. c \in Placed /\ c.clip_depth = d /\ w \in Placed
  BY AddClipperObjectType DEF Continues
<1>2. Deeper(d) /\ s0 \in Values /\ AtMost(s0, d)
  BY DEF Nestable
<1>3. CASE model.shape[o] = kNone
  <2>1. w = c
    BY <1>3 DEF AddClipperObject
  <2>2. Area(model, o) = {}
    BY <1>3 DEF Area
  <2> QED BY <2>1, <2>2, MarksMore
<1>4. CASE model.shape[o] # kNone
  <2> PICK flag : flag = c.disable_depth_test
    OBVIOUS
  <2>1. WellPlaced(c) /\ flag \in BOOLEAN /\ "BeginClipChildren" \in ClipperStates
    BY <1>1 DEF Placed, Builders, ClipperStates
  <2>2. w = PushItem(c, o, "BeginClipChildren", flag)
    BY <1>4 DEF AddClipperObject
  <2>3. PICK x \in DisplayItems :
           /\ w.items = Append(c.items, x) /\ w.clip_depth = c.clip_depth
           /\ x.object = o /\ x.stencil_reference = c.clip_depth
           /\ x.pipeline.is_clippee = (c.clip_depth > 0)
           /\ x.pipeline.clipper_state = "BeginClipChildren"
    BY <2>1, <2>2, PushGives
  <2>4. IsFirstDrawing(x, d)
    BY <1>1, <2>3 DEF IsFirstDrawing
  <2>5. /\ NextStencil(model, x, Raised(s0, d, U)) = Raised(s0, d, U \cup model.shape[x.object])
        /\ Hit(model, x, Raised(s0, d, U)) \subseteq Among(model, x, s0, d)
    <3> PICK m : m = model
      OBVIOUS
    <3>1. x.object \in Object /\ m.shape[x.object] # kNone /\ m \in Model
      BY <1>4, <2>3
    <3>2. /\ NextStencil(m, x, Raised(s0, d, U)) = Raised(s0, d, U \cup m.shape[x.object])
          /\ Hit(m, x, Raised(s0, d, U)) \subseteq Among(m, x, s0, d)
      BY <1>2, <2>4, <3>1, FirstDrawing
    <3> QED BY <3>2
  <2>6. model.shape[x.object] = Area(model, o) /\ Area(model, o) \subseteq Pixel
    BY <1>4, <2>3, AreaType DEF Area
  <2> PICK hit, V : hit = Hit(model, x, Raised(s0, d, U)) /\ V = U \cup Area(model, o)
    OBVIOUS
  <2>7. /\ NextStencil(model, x, t[Items(c)]) = Raised(s0, d, V)
        /\ Hit(model, x, t[Items(c)]) = hit
        /\ hit \subseteq HitAt(o, s0, d) /\ hit \subseteq Pixel
    BY <2>5, <2>6 DEF HitAt, Among
  <2>8. Raised(s0, d, V) \in Values
    BY <1>2, RaisedType DEF Deeper
  <2>9. PICK v, z : /\ Continues(b, s, w, v, z)
                    /\ v[Items(w)] = Raised(s0, d, V)
                    /\ z[Items(w)] = Painted(x, u[Items(c)], hit)
    <3>1. /\ NextStencil(model, x, t[Items(c)]) \in Values
          /\ Hit(model, x, t[Items(c)]) \subseteq Pixel
      BY <2>7, <2>8
    <3>2. ContinuesBy(b, s, c, t, u, w, x)
      BY <1>1, <2>3, <3>1, ContinuesMore
    <3> QED BY <2>7, <3>2 DEF ContinuesBy
  <2>10. ASSUME NEW a \in Object
         PROVE  /\ q0[a] \subseteq z[Items(w)][a]
                /\ z[Items(w)][a] \subseteq q0[a] \cup (IF a \in X \cup {o} THEN HitAt(a, s0, d) ELSE {})
    <3>1. z[Items(w)][a] = IF a = o /\ x.pipeline.has_material THEN u[Items(c)][a] \cup hit
                           ELSE u[Items(c)][a]
      BY <2>3, <2>9 DEF Painted
    <3> QED BY <2>7, <3>1
  <2>11. HaveShapes(model, w, Items(b), Items(w)) /\ ItemsArea(model, w, Items(b), Items(w)) = V
    <3>1. Items(b) \in 0..Items(c)
      <4>1. Items(b) <= Items(c) /\ b.items \in Seq(DisplayItems) /\ c.items \in Seq(DisplayItems)
        BY <1>1 DEF Continues, Keeps, Items, Placed, Builders
      <4> QED BY <4>1, LenProperties DEF Items
    <3> QED BY <1>1, <1>4, <2>3, <2>6, <3>1, OneMoreItem
  <2> QED BY <2>9, <2>10, <2>11 DEF Marks
<1> QED BY <1>3, <1>4

LEMMA ContinuesSame ==
  ASSUME NEW b, NEW s, NEW q, b \in Placed, Executes(model, b.items, s, q)
  PROVE  Continues(b, s, b, s, q) /\ Items(b) \in Nat /\ s[Items(b)] \in Values /\ q[Items(b)] \in Paints
<1>1. b \in Builders /\ Keeps(b, b)
  BY KeepsSame DEF Placed
<1>2. Items(b) \in Nat
  BY <1>1, LenProperties DEF Builders, Items
<1>3. s \in [Nat -> Values] /\ q \in [Nat -> Paints]
  BY DEF Executes
<1> QED BY <1>1, <1>2, <1>3 DEF Continues

LEMMA MarksNothing ==
  ASSUME NEW b, NEW s, NEW q, b \in Placed, Executes(model, b.items, s, q)
  PROVE  Marks(b, s, q, b, {}, {})
<1>1. /\ Continues(b, s, b, s, q) /\ Items(b) \in Nat
      /\ s[Items(b)] \in Values /\ q[Items(b)] \in Paints
  BY ContinuesSame
<1> PICK n : n = Items(b)
  OBVIOUS
<1>2. Raised(s[n], b.clip_depth, {}) = s[n]
  BY <1>1 DEF Raised, Values
<1>3. n + 1 .. n = {}
  BY <1>1
<1>4. HaveShapes(model, b, n, n) /\ ItemsArea(model, b, n, n) = {}
  BY <1>3 DEF HaveShapes, ItemsArea
<1> QED BY <1>1, <1>2, <1>4 DEF Marks

\* What the first k objects of cs cover.
AreaOf(cs, k) == UNION {Area(model, cs[i]) : i \in 1..k}
ObjectsOf(cs, k) == {cs[i] : i \in 1..k}

LEMMA OneMoreArea ==
  ASSUME NEW cs, NEW k, k \in Nat
  PROVE  /\ AreaOf(cs, k + 1) = AreaOf(cs, k) \cup Area(model, cs[k + 1])
         /\ ObjectsOf(cs, k + 1) = ObjectsOf(cs, k) \cup {cs[k + 1]}
         /\ AreaOf(cs, 0) = {} /\ ObjectsOf(cs, 0) = {}
<1>1. \A i : i \in 1 .. k + 1 <=> i \in 1..k \/ i = k + 1
  OBVIOUS
<1>2. 1..0 = {}
  OBVIOUS
<1>3. AreaOf(cs, k + 1) = AreaOf(cs, k) \cup Area(model, cs[k + 1])
  <2>1. \A p : p \in AreaOf(cs, k + 1) <=> \E i \in 1 .. k + 1 : p \in Area(model, cs[i])
    BY DEF AreaOf
  <2>2. \A p : p \in AreaOf(cs, k) <=> \E i \in 1..k : p \in Area(model, cs[i])
    BY DEF AreaOf
  <2> QED BY <1>1, <2>1, <2>2
<1>4. ObjectsOf(cs, k + 1) = ObjectsOf(cs, k) \cup {cs[k + 1]}
  BY <1>1 DEF ObjectsOf
<1> QED BY <1>2, <1>3, <1>4 DEF AreaOf, ObjectsOf

LEMMA ClippersMark ==
  ASSUME NEW b, NEW s, NEW q, NEW n, NEW cs, b \in Placed, model \in Model, AllIn(cs, n, Object),
         Executes(model, b.items, s, q), Nestable(b, s)
  PROVE  Marks(b, s, q, AddAllClippers(b, cs), AreaOf(cs, n), ObjectsOf(cs, n))
<1> PICK h : /\ h[0] = b
             /\ \A k \in 1..n : h[k] = AddClipperObject(h[k - 1], cs[k])
             /\ AddAllClippers(b, cs) = h[n]
  BY AddClipperSteps
<1>1. n \in Nat /\ \A i \in 1..n : cs[i] \in Object
  BY DEF AllIn
<1> DEFINE Reached(k) == Marks(b, s, q, h[k], AreaOf(cs, k), ObjectsOf(cs, k))
           good == {k \in Nat : Reached(k)}
<1>2. Reached(0)
  <2>1. 0 \in Nat
    OBVIOUS
  <2>2. AreaOf(cs, 0) = {} /\ ObjectsOf(cs, 0) = {}
    BY <2>1, OneMoreArea
  <2> QED BY <2>2, MarksNothing
<1>3. ASSUME NEW k \in 0 .. n - 1, Reached(k)
      PROVE  Reached(k + 1)
  <2>1. k + 1 \in 1..n /\ (k + 1) - 1 = k /\ cs[k + 1] \in Object /\ k \in Nat
    BY <1>1
  <2> PICK v, w, o, U, X : v = h[k] /\ w = h[k + 1] /\ o = cs[k + 1] /\ U = AreaOf(cs, k) /\ X = ObjectsOf(cs, k)
    OBVIOUS
  <2>2. w = AddClipperObject(v, o) /\ o \in Object /\ Marks(b, s, q, v, U, X)
    BY <1>3, <2>1
  <2>3. Marks(b, s, q, w, U \cup Area(model, o), X \cup {o})
    BY <2>2, ClipperMarks
  <2>4. AreaOf(cs, k + 1) = U \cup Area(model, o) /\ ObjectsOf(cs, k + 1) = X \cup {o}
    BY <2>1, OneMoreArea
  <2> QED BY <2>3, <2>4
<1> HIDE DEF Reached
<1>4. n \in good
  <2>1. 0 \in good /\ good \in SUBSET Nat
    BY <1>2
  <2>2. \A k \in 0 .. n - 1 : k \in good => k + 1 \in good
    BY <1>3
  <2> HIDE DEF good
  <2> QED BY <1>1, <2>1, <2>2, AfterSteps
<1>5. Reached(n)
  BY <1>4
<1> QED BY <1>5 DEF Reached

(***************************************************************************)
(* What the items of objects without clippees do: they paint those in X.   *)
(***************************************************************************)
Fills(b, s, q, c, X) ==
  \E t, u :
    /\ Continues(b, s, c, t, u)
    /\ t[Items(c)] = s[Items(b)]
    /\ \A o \in Object :
         /\ q[Items(b)][o] \subseteq u[Items(c)][o]
         /\ u[Items(c)][o] \subseteq q[Items(b)][o] \cup
              (IF o \in X THEN HitAt(o, s[Items(b)], b.clip_depth) ELSE {})
         /\ o \in X /\ model.material[o] # "none" =>
              HitAt(o, s[Items(b)], b.clip_depth) \subseteq u[Items(c)][o]

\* What has no shape has no material.
Solid(m) == \A o \in Object : m.shape[o] = kNone => m.material[o] = "none"

\* What is not clipped is seen.
Shown(b, s) ==
  /\ Drawable(b.clip_depth)
  /\ s[Items(b)] \in Values /\ AtMost(s[Items(b)], b.clip_depth)

LEMMA ObjectFills ==
  ASSUME NEW b, NEW s, NEW q, NEW c, NEW X, NEW o, b \in Placed, model \in Model, Solid(model),
         Shown(b, s), Fills(b, s, q, c, X), o \in Object
  PROVE  Fills(b, s, q, AddNonClipperObject(c, o), X \cup {o})
<1> PICK t, u :
      /\ Continues(b, s, c, t, u)
      /\ t[Items(c)] = s[Items(b)]
      /\ \A a \in Object :
           /\ q[Items(b)][a] \subseteq u[Items(c)][a]
           /\ u[Items(c)][a] \subseteq q[Items(b)][a] \cup
                (IF a \in X THEN HitAt(a, s[Items(b)], b.clip_depth) ELSE {})
           /\ a \in X /\ model.material[a] # "none" =>
                HitAt(a, s[Items(b)], b.clip_depth) \subseteq u[Items(c)][a]
  BY DEF Fills
<1> PICK d, s0, q0 : d = b.clip_depth /\ s0 = s[Items(b)] /\ q0 = q[Items(b)]
  OBVIOUS
<1> PICK w : w = AddNonClipperObject(c, o)
  OBVIOUS
<1>1. c \in Placed /\ c.clip_depth = d /\ w \in Placed
  BY AddNonClipperObjectType DEF Continues
<1>2. Drawable(d) /\ s0 \in Values /\ AtMost(s0, d)
  BY DEF Shown
<1>3. CASE model.material[o] = "none"
  <2>1. w = c
    BY <1>3 DEF AddNonClipperObject
  <2> QED BY <1>3, <2>1 DEF Fills
<1>4. CASE model.material[o] # "none"
  <2> PICK flag : flag = model.disable_depth_test
    OBVIOUS
  <2>1. WellPlaced(c) /\ flag \in BOOLEAN /\ "NoClipChildren" \in ClipperStates
    BY <1>1 DEF Placed, Model, ClipperStates
  <2>2. w = PushItem(c, o, "NoClipChildren", flag)
    BY <1>4 DEF AddNonClipperObject
  <2>3. PICK x \in DisplayItems :
           /\ w.items = Append(c.items, x) /\ w.clip_depth = c.clip_depth
           /\ x.object = o /\ x.stencil_reference = c.clip_depth
           /\ x.pipeline.is_clippee = (c.clip_depth > 0)
           /\ x.pipeline.clipper_state = "NoClipChildren"
           /\ x.pipeline.has_material = (model.material[o] # "none")
    BY <2>1, <2>2, PushGives
  <2>4. IsOnlyDrawing(x, d)
    BY <1>1, <2>3 DEF IsOnlyDrawing
  <2>5. model.shape[o] # kNone /\ Area(model, o) = model.shape[o] /\ Area(model, o) \subseteq Pixel
    BY <1>4, AreaType DEF Area, Solid
  <2>6. NextStencil(model, x, s0) = s0 /\ Hit(model, x, s0) = Among(model, x, s0, d)
    <3> PICK m : m = model
      OBVIOUS
    <3>1. x.object \in Object /\ m.shape[x.object] # kNone /\ m \in Model
      BY <2>3, <2>5
    <3>2. NextStencil(m, x, s0) = s0 /\ Hit(m, x, s0) = Among(m, x, s0, d)
      BY <1>2, <2>4, <3>1, OnlyDrawing
    <3> QED BY <3>2
  <2> PICK hit : hit = Hit(model, x, s0)
    OBVIOUS
  <2>7. hit = HitAt(o, s0, d) /\ hit \subseteq Pixel
    BY <2>3, <2>5, <2>6 DEF HitAt, Among
  <2>8. PICK v, z : /\ Continues(b, s, w, v, z)
                    /\ v[Items(w)] = s0
                    /\ z[Items(w)] = Painted(x, u[Items(c)], hit)
    <3>1. /\ NextStencil(model, x, t[Items(c)]) \in Values
          /\ Hit(model, x, t[Items(c)]) \subseteq Pixel
      BY <1>2, <2>6, <2>7
    <3>2. ContinuesBy(b, s, c, t, u, w, x)
      BY <1>1, <2>3, <3>1, ContinuesMore
    <3> QED BY <2>6, <3>2 DEF ContinuesBy
  <2>9. ASSUME NEW a \in Object
         PROVE  /\ q0[a] \subseteq z[Items(w)][a]
                /\ z[Items(w)][a] \subseteq q0[a] \cup (IF a \in X \cup {o} THEN HitAt(a, s0, d) ELSE {})
                /\ a \in X \cup {o} /\ model.material[a] # "none" => HitAt(a, s0, d) \subseteq z[Items(w)][a]
    <3>1. z[Items(w)][a] = IF a = o THEN u[Items(c)][a] \cup hit ELSE u[Items(c)][a]
      BY <1>4, <2>3, <2>8 DEF Painted
    <3> QED BY <2>7, <3>1
  <2> QED BY <2>8, <2>9 DEF Fills
<1> QED BY <1>3, <1>4

LEMMA FillsNothing ==
  ASSUME NEW b, NEW s, NEW q, b \in Placed, Executes(model, b.items, s, q)
  PROVE  Fills(b, s, q, b, {})
  BY ContinuesSame DEF Fills

LEMMA ObjectsFill ==
  ASSUME NEW b, NEW s, NEW q, NEW n, NEW cs, b \in Placed, model \in Model, Solid(model),
         AllIn(cs, n, Object), Executes(model, b.items, s, q), Shown(b, s)
  PROVE  Fills(b, s, q, AddAllObjects(b, cs), ObjectsOf(cs, n))
<1> PICK h : /\ h[0] = b
             /\ \A k \in 1..n : h[k] = AddNonClipperObject(h[k - 1], cs[k])
             /\ AddAllObjects(b, cs) = h[n]
  BY AddObjectSteps
<1>1. n \in Nat /\ \A i \in 1..n : cs[i] \in Object
  BY DEF AllIn
<1> DEFINE Reached(k) == Fills(b, s, q, h[k], ObjectsOf(cs, k))
           good == {k \in Nat : Reached(k)}
<1>2. Reached(0)
  <2>1. 0 \in Nat
    OBVIOUS
  <2>2. ObjectsOf(cs, 0) = {}
    BY <2>1, OneMoreArea
  <2> QED BY <2>2, FillsNothing
<1>3. ASSUME NEW k \in 0 .. n - 1, Reached(k)
      PROVE  Reached(k + 1)
  <2>1. k + 1 \in 1..n /\ (k + 1) - 1 = k /\ cs[k + 1] \in Object /\ k \in Nat
    BY <1>1
  <2> PICK v, w, o, X : v = h[k] /\ w = h[k + 1] /\ o = cs[k + 1] /\ X = ObjectsOf(cs, k)
    OBVIOUS
  <2>2. w = AddNonClipperObject(v, o) /\ o \in Object /\ Fills(b, s, q, v, X)
    BY <1>3, <2>1
  <2>3. Fills(b, s, q, w, X \cup {o})
    BY <2>2, ObjectFills
  <2>4. ObjectsOf(cs, k + 1) = X \cup {o}
    BY <2>1, OneMoreArea
  <2> QED BY <2>3, <2>4
<1> HIDE DEF Reached
<1>4. n \in good
  <2>1. 0 \in good /\ good \in SUBSET Nat
    BY <1>2
  <2>2. \A k \in 0 .. n - 1 : k \in good => k + 1 \in good
    BY <1>3
  <2> HIDE DEF good
  <2> QED BY <1>1, <2>1, <2>2, AfterSteps
<1>5. Reached(n)
  BY <1>4
<1> QED BY <1>5 DEF Reached

(***************************************************************************)
(* What the second drawings do: they lower the stencil in U.               *)
(***************************************************************************)
Lowers(b, s, q, c, U) ==
  \E t, u :
    /\ Continues(b, s, c, t, u)
    /\ t[Items(c)] = Lowered(s[Items(b)], b.clip_depth, U)
    /\ u[Items(c)] = q[Items(b)]

Grouped(b, s) ==
  /\ Nested(b.clip_depth)
  /\ s[Items(b)] \in Values /\ AtMost(s[Items(b)], b.clip_depth)

LEMMA EndOfIsSecond ==
  ASSUME NEW b, NEW item, b \in Builders, item \in DisplayItems, model \in Model
  PROVE  EndOf(b, item).object = item.object /\ IsSecondDrawing(EndOf(b, item), b.clip_depth)
<1> PICK clippee, flag : clippee = (b.clip_depth > 1) /\ flag = model.disable_depth_test
  OBVIOUS
<1> PICK spec, x : spec = EndPipeline(b) /\ x = EndOf(b, item)
  OBVIOUS
<1>1. spec.is_clippee = clippee /\ spec.clipper_state = "EndClipChildren" /\ spec.has_material = FALSE
  BY DEF EndPipeline, GetPipeline, PipelineSpec
<1>2. x.object = item.object /\ x.pipeline = spec /\ x.stencil_reference = b.clip_depth
  BY DEF EndOf, DisplayItems
<1> QED BY <1>1, <1>2 DEF IsSecondDrawing

\* The item i of b is one of an object with a shape.
HasShape(b, i) == i \in 1..Items(b) /\ model.shape[b.items[i].object] # kNone

LEMMA EndItemLowers ==
  ASSUME NEW b, NEW s, NEW q, NEW c, NEW U, NEW i, b \in Placed, model \in Model,
         Grouped(b, s), Lowers(b, s, q, c, U), HasShape(b, i)
  PROVE  Lowers(b, s, q, EndItem(c, b.items[i]), U \cup model.shape[b.items[i].object])
<1> PICK t, u :
      /\ Continues(b, s, c, t, u)
      /\ t[Items(c)] = Lowered(s[Items(b)], b.clip_depth, U)
      /\ u[Items(c)] = q[Items(b)]
  BY DEF Lowers
<1> PICK d, s0, q0, item : d = b.clip_depth /\ s0 = s[Items(b)] /\ q0 = q[Items(b)] /\ item = b.items[i]
  OBVIOUS
<1> PICK w, x : w = EndItem(c, item) /\ x = EndOf(c, item)
  OBVIOUS
<1>1. c \in Placed /\ c \in Builders /\ c.clip_depth = d /\ Keeps(b, c)
  BY DEF Continues, Placed
<1>2. Nested(d) /\ s0 \in Values /\ AtMost(s0, d)
  BY DEF Grouped
<1>0. i \in 1..Items(b) /\ model.shape[item.object] # kNone
  BY DEF HasShape
<1>3. i \in 1..Len(c.items) /\ c.items[i] = item /\ item \in DisplayItems
  <2>1. b.items \in Seq(DisplayItems) /\ c.items \in Seq(DisplayItems)
    BY <1>1 DEF Placed, Builders
  <2>2. Len(b.items) \in Nat /\ Len(c.items) \in Nat /\ i \in 1..Len(b.items)
    BY <1>0, <2>1, LenProperties DEF Items
  <2>3. Len(b.items) <= Len(c.items) /\ c.items[i] = b.items[i]
    BY <1>1, <2>2 DEF Keeps
  <2>4. b.items[i] \in DisplayItems
    BY <2>1, <2>2, ElementOfSeq
  <2> QED BY <2>2, <2>3, <2>4
<1>4. w \in Placed
  BY <1>1, <1>3, EndItemPlaced
<1>5. w.items = Append(c.items, x) /\ x \in DisplayItems /\ w.clip_depth = c.clip_depth
  BY <1>1, <1>3, EndItemGives
<1>6. x.object = item.object /\ IsSecondDrawing(x, d)
  BY <1>1, <1>3, EndOfIsSecond
<1> PICK A, V : A = model.shape[item.object] /\ V = U \cup A
  OBVIOUS
<1>7. item.object \in Object
  BY <1>3 DEF DisplayItems
<1>8. NextStencil(model, x, Lowered(s0, d, U)) = Lowered(s0, d, V)
  <2> PICK m : m = model
    OBVIOUS
  <2>1. x.object \in Object /\ m.shape[x.object] # kNone /\ m \in Model /\ m.shape[x.object] = A
    BY <1>0, <1>6, <1>7
  <2>2. NextStencil(m, x, Lowered(s0, d, U)) = Lowered(s0, d, U \cup m.shape[x.object])
    BY <1>2, <1>6, <2>1, SecondDrawing
  <2> QED BY <2>1, <2>2
<1>9. Lowered(s0, d, V) \in Values
  BY <1>2, LoweredType DEF Nested
<1>10. Hit(model, x, t[Items(c)]) \subseteq Pixel
  <2>1. model.shape[x.object] \in SUBSET Pixel
    BY <1>0, <1>6, <1>7 DEF Model
  <2> QED BY <2>1 DEF Hit
<1>11. ContinuesBy(b, s, c, t, u, w, x)
  <2>1. NextStencil(model, x, t[Items(c)]) \in Values
    BY <1>8, <1>9
  <2> QED BY <1>1, <1>4, <1>5, <1>10, <2>1, ContinuesMore
<1> PICK v, z : /\ Continues(b, s, w, v, z)
                /\ v[Items(w)] = NextStencil(model, x, t[Items(c)])
                /\ z[Items(w)] = Painted(x, u[Items(c)], Hit(model, x, t[Items(c)]))
  BY <1>11 DEF ContinuesBy
<1>12. z[Items(w)] = u[Items(c)]
  <2>1. u[Items(c)] \in Paints
    <3>1. u \in [Nat -> Paints]
      BY DEF Continues, Executes
    <3>2. Items(c) \in Nat
      BY <1>1, LenProperties DEF Items, Builders
    <3> QED BY <3>1, <3>2
  <2>2. z[Items(w)] = [o \in Object |-> u[Items(c)][o]]
    BY <1>6 DEF Painted, IsSecondDrawing
  <2> QED BY <2>1, <2>2 DEF Paints
<1>13. Lowers(b, s, q, w, V)
  BY <1>8, <1>12 DEF Lowers
<1> QED BY <1>13

LEMMA LowersNothing ==
  ASSUME NEW b, NEW s, NEW q, b \in Placed, Executes(model, b.items, s, q)
  PROVE  Lowers(b, s, q, b, {})
<1>1. Continues(b, s, b, s, q) /\ s[Items(b)] \in Values
  BY ContinuesSame
<1>2. Lowered(s[Items(b)], b.clip_depth, {}) = s[Items(b)]
  BY <1>1 DEF Lowered, Values
<1> QED BY <1>1, <1>2 DEF Lowers

AddsItemArea(b, start, k) ==
  ItemsArea(model, b, start, start + (k + 1)) =
    ItemsArea(model, b, start, start + k) \cup model.shape[b.items[start + (k + 1)].object]

LEMMA OneMoreEnd ==
  ASSUME NEW b, NEW start, NEW k, start \in Nat, k \in Nat
  PROVE  /\ AddsItemArea(b, start, k)
         /\ ItemsArea(model, b, start, start + 0) = {}
<1>1. \A j : j \in start + 1 .. start + (k + 1) <=> j \in start + 1 .. start + k \/ j = start + (k + 1)
  OBVIOUS
<1>2. start + 1 .. start + 0 = {}
  OBVIOUS
<1> PICK i, n : i = start + (k + 1) /\ n = start + k
  OBVIOUS
<1>3. \A p : p \in ItemsArea(model, b, start, i) <=> \E j \in start + 1 .. i : p \in model.shape[b.items[j].object]
  BY DEF ItemsArea
<1>4. \A p : p \in ItemsArea(model, b, start, n) <=> \E j \in start + 1 .. n : p \in model.shape[b.items[j].object]
  BY DEF ItemsArea
<1>5. ItemsArea(model, b, start, i) = ItemsArea(model, b, start, n) \cup model.shape[b.items[i].object]
  <2>1. \A j : j \in start + 1 .. i <=> j \in start + 1 .. n \/ j = i
    BY <1>1
  <2> QED BY <1>3, <1>4, <2>1
<1> QED BY <1>2, <1>5 DEF ItemsArea, AddsItemArea

AllShaped(b, start, n) == \A k \in 1..n : HasShape(b, start + k)

LEMMA EndAllLowers ==
  ASSUME NEW b, NEW s, NEW q, NEW n, NEW cs, NEW start, b \in Placed, model \in Model,
         AllIn(cs, n, DisplayItems), Taken(cs, n, b, start), AllShaped(b, start, n), start \in Nat,
         Executes(model, b.items, s, q), Grouped(b, s)
  PROVE  Lowers(b, s, q, EndAll(b, cs), ItemsArea(model, b, start, start + n))
<1>0. b \in Builders
  BY DEF Placed
<1> PICK h : /\ h[0] = b
             /\ \A k \in 1..n : h[k] = EndItem(h[k - 1], cs[k])
             /\ EndAll(b, cs) = h[n]
  BY <1>0, EndItemSteps
<1>1. n \in Nat
  BY DEF AllIn
<1> DEFINE Reached(k) == Lowers(b, s, q, h[k], ItemsArea(model, b, start, start + k))
           good == {k \in Nat : Reached(k)}
<1>2. \A k \in Nat : AddsItemArea(b, start, k)
  BY OneMoreEnd
<1>3. Reached(0)
  <2>1. 0 \in Nat
    OBVIOUS
  <2>2. ItemsArea(model, b, start, start + 0) = {}
    BY <2>1, OneMoreEnd
  <2> QED BY <2>2, LowersNothing
<1>4. ASSUME NEW k \in 0 .. n - 1, Reached(k)
      PROVE  Reached(k + 1)
  <2>1. k + 1 \in 1..n /\ (k + 1) - 1 = k /\ k \in Nat
    BY <1>1
  <2>2. ItemsArea(model, b, start, start + (k + 1)) =
          ItemsArea(model, b, start, start + k) \cup model.shape[b.items[start + (k + 1)].object]
    <3>1. k \in Nat
      BY <2>1
    <3> QED BY <1>2, <3>1 DEF AddsItemArea
  <2>3. PICK v, w, i, U : v = h[k] /\ w = h[k + 1] /\ i = start + (k + 1) /\ U = ItemsArea(model, b, start, start + k)
    OBVIOUS
  <2>4. w = EndItem(v, b.items[i]) /\ Lowers(b, s, q, v, U)
    BY <1>4, <2>1, <2>3 DEF Taken
  <2>5. HasShape(b, i)
    BY <2>1, <2>3 DEF AllShaped
  <2>6. Lowers(b, s, q, w, U \cup model.shape[b.items[i].object])
    BY <2>4, <2>5, EndItemLowers
  <2> QED BY <2>2, <2>3, <2>6
<1> HIDE DEF Reached
<1>5. n \in good
  <2>1. 0 \in good /\ good \in SUBSET Nat
    BY <1>3
  <2>2. \A k \in 0 .. n - 1 : k \in good => k + 1 \in good
    BY <1>4
  <2> HIDE DEF good
  <2> QED BY <1>1, <2>1, <2>2, AfterSteps
<1>6. Reached(n)
  BY <1>5
<1> QED BY <1>6 DEF Reached

LEMMA EndsLower ==
  ASSUME NEW b, NEW s, NEW q, NEW start, NEW end, b \in Placed, model \in Model,
         Spans(b, start, end), HaveShapes(model, b, start, end),
         Executes(model, b.items, s, q), Grouped(b, s)
  PROVE  Lowers(b, s, q, EndItems(b, start, end), ItemsArea(model, b, start, end))
<1>1. b \in Builders
  BY DEF Placed
<1> PICK n, cs : n = end - start /\ cs = SubSeq(b.items, start + 1, end)
  OBVIOUS
<1>2. AllIn(cs, n, DisplayItems) /\ Taken(cs, n, b, start)
  BY <1>1, ItemsTaken
<1>3. start \in Nat /\ start + n = end /\ \A k \in 1..n : start + k \in start + 1 .. end
  BY DEF Spans
<1>4. AllShaped(b, start, n)
  BY <1>2, <1>3 DEF HaveShapes, AllShaped, HasShape, Taken, Items
<1>5. Lowers(b, s, q, EndAll(b, cs), ItemsArea(model, b, start, start + n))
  BY <1>2, <1>3, <1>4, EndAllLowers
<1>6. EndItems(b, start, end) = EndAll(b, cs)
  BY DEF EndItems, EndAll
<1> QED BY <1>3, <1>5, <1>6

(***************************************************************************)
(* The traversal: what there is when some groups are open.  s and q are    *)
(* the execution of the items so far, owner[k] the group of the k-th call, *)
(* and V the objects whose turn has been.                                  *)
(***************************************************************************)
Level(s, k) == {p \in Pixel : s[p] >= k}

\* What is within a group is marked with its depth.
GroupOK(m, inside, nesting, b, s, entry, g, k) ==
  /\ g \in Object /\ m.clippees[g] # <<>>
  /\ ToSet(entry.rest) \subseteq ToSet(m.clippees[g])
  /\ Level(s, k - 1) = inside[g] \cap ClipArea(m, g)
  /\ HaveShapes(m, b, entry.start, entry.end)
  /\ ItemsArea(m, b, entry.start, entry.end) = ClipArea(m, g)
  /\ nesting[g] + 2 >= k

Groups(m, inside, nesting, b, s, st, owner) ==
  \A k \in 2..Len(st) : GroupOK(m, inside, nesting, b, s, st[k], owner[k], k)

Waiting(st) == UNION {ToSet(st[k].rest) : k \in 1..Len(st)}

\* Where an object is seen.
SeenArea(m, inside, o) == Area(m, o) \cap inside[o]

Progress(m, inside, paint, V, W) ==
  /\ V \subseteq Object
  /\ ToSet(m.objects) \subseteq V \cup W
  /\ \A g \in V : ToSet(m.clippees[g]) \subseteq V \cup W
  /\ \A o \in Object : paint[o] \subseteq SeenArea(m, inside, o)
  /\ \A g \in V : m.clippees[g] = <<>> =>
       \A c \in Clippers(m, g) : m.material[c] # "none" => SeenArea(m, inside, c) \subseteq paint[c]

\* What the stencil is when no group is open.
CleanOK(cl, l, s, n) == \A i : <<l, i>> \in cl => i \in 0..n /\ s[i] = Zero

Walk(m, inside, nesting, st, b, s, q, owner, V) ==
  /\ b.clip_depth = Len(st) - 1
  /\ Executes(m, b.items, s, q)
  /\ AtMost(s[Items(b)], Len(st) - 1)
  /\ ToSet(st[1].rest) \subseteq ToSet(m.objects)
  /\ Groups(m, inside, nesting, b, s[Items(b)], st, owner)
  /\ Progress(m, inside, q[Items(b)], V, Waiting(st))

\* The model is a tree with room for its groups.
Known(m, inside, nesting) ==
  /\ m \in Model /\ IsTree(m) /\ Clips(m, inside) /\ NestingFits(m, nesting)

LEMMA HeadAndTail ==
  ASSUME NEW r, r \in Seq(Object), r # <<>>
  PROVE  /\ Head(r) \in Object /\ Tail(r) \in Seq(Object)
         /\ ToSet(r) = {Head(r)} \cup ToSet(Tail(r))
<1> PICK n, more : n = Len(r) /\ more = Tail(r)
  OBVIOUS
<1>1. n \in Nat /\ n # 0 /\ DOMAIN r = 1..n
  BY EmptySeq, LenProperties
<1>2. /\ Head(r) \in Object /\ more \in Seq(Object) /\ Head(r) = r[1]
      /\ Len(more) = n - 1 /\ \A i \in 1 .. n - 1 : more[i] = r[i + 1]
  BY HeadTailProperties
<1>3. DOMAIN more = 1 .. n - 1
  BY <1>2, LenProperties
<1>4. \A x : x \in ToSet(r) <=> \E i \in 1..n : x = r[i]
  BY <1>1 DEF ToSet
<1>5. \A x : x \in ToSet(more) <=> \E i \in 1 .. n - 1 : x = r[i + 1]
  BY <1>2, <1>3 DEF ToSet
<1>6. \A i \in 1..n : i = 1 \/ (i - 1 \in 1 .. n - 1 /\ (i - 1) + 1 = i)
  BY <1>1
<1>7. \A i \in 1 .. n - 1 : i + 1 \in 1..n
  BY <1>1
<1>8. 1 \in 1..n
  BY <1>1
<1>9. \A x : (\E i \in 1..n : x = r[i]) <=> x = r[1] \/ \E i \in 1 .. n - 1 : x = r[i + 1]
  BY <1>6, <1>7, <1>8
<1>10. \A x : x \in ToSet(r) <=> x = Head(r) \/ x \in ToSet(more)
  BY <1>2, <1>4, <1>5, <1>9
<1> QED BY <1>2, <1>10

LEMMA ClippersOf ==
  ASSUME NEW m, NEW o, m \in Model, o \in Object, m = model
  PROVE  LET cs == <<o>> \o m.clippers[o]
         IN  /\ AllIn(cs, Len(cs), Object)
             /\ ObjectsOf(cs, Len(cs)) = Clippers(m, o)
             /\ AreaOf(cs, Len(cs)) = ClipArea(m, o)
<1> PICK more : more = m.clippers[o]
  OBVIOUS
<1>1. more \in Seq(Object)
  BY DEF Model
<1>2. AllIn(<<o>> \o more, Len(<<o>> \o more), Object)
  BY <1>1, FirstAndMore
<1> PICK one : one = <<o>>
  OBVIOUS
<1> PICK cs, n : cs = one \o more /\ n = Len(more)
  OBVIOUS
<1>3. one \in Seq(Object) /\ Len(one) = 1 /\ one[1] = o /\ n \in Nat /\ DOMAIN more = 1..n
  BY <1>1, LenProperties
<1>4. /\ Len(cs) = n + 1
      /\ cs[1] = o
      /\ \A i \in 1..n : cs[i + 1] = more[i]
  <2>1. /\ cs \in Seq(Object) /\ Len(cs) = Len(one) + Len(more)
        /\ \A i \in 1 .. Len(one) + Len(more) :
             cs[i] = IF i <= Len(one) THEN one[i] ELSE more[i - Len(one)]
    BY <1>1, <1>3, ConcatProperties
  <2>2. /\ Len(cs) = n + 1
        /\ \A i \in 1 .. n + 1 : cs[i] = IF i <= 1 THEN one[i] ELSE more[i - 1]
    BY <1>3, <2>1
  <2>3. 1 \in 1 .. n + 1 /\ \A i \in 1..n : i + 1 \in 1 .. n + 1 /\ ~(i + 1 <= 1) /\ (i + 1) - 1 = i
    BY <1>3
  <2> QED BY <1>3, <2>2, <2>3
<1> DEFINE InAll(c) == \E i \in 1 .. n + 1 : c = cs[i]
           InMore(c) == \E i \in 1..n : c = more[i]
<1>5. \A c : InAll(c) <=> c = o \/ InMore(c)
  <2>1. \A i \in 1 .. n + 1 : i = 1 \/ (i - 1 \in 1..n /\ (i - 1) + 1 = i)
    BY <1>3
  <2>2. 1 \in 1 .. n + 1 /\ \A i \in 1..n : i + 1 \in 1 .. n + 1
    BY <1>3
  <2> QED BY <1>4, <2>1, <2>2
<1>6. \A c : c \in Clippers(m, o) <=> c = o \/ InMore(c)
  BY <1>3 DEF Clippers, ToSet
<1>7. \A c : c \in ObjectsOf(cs, n + 1) <=> InAll(c)
  BY DEF ObjectsOf
<1>8. \A p : p \in AreaOf(cs, n + 1) <=> \E i \in 1 .. n + 1 : p \in Area(m, cs[i])
  BY DEF AreaOf
<1>9. \A p : (\E i \in 1 .. n + 1 : p \in Area(m, cs[i])) <=> \E c : InAll(c) /\ p \in Area(m, c)
  OBVIOUS
<1>10. \A p : p \in ClipArea(m, o) <=> \E c : c \in Clippers(m, o) /\ p \in Area(m, c)
  BY DEF ClipArea
<1> HIDE DEF InAll, InMore
<1>11. \A c : c \in Clippers(m, o) <=> InAll(c)
  BY <1>5, <1>6
<1>12. ObjectsOf(cs, n + 1) = Clippers(m, o)
  BY <1>7, <1>11
<1>13. AreaOf(cs, n + 1) = ClipArea(m, o)
  <2>1. \A p : p \in AreaOf(cs, n + 1) <=> \E c : InAll(c) /\ p \in Area(m, c)
    BY <1>8, <1>9
  <2>2. \A p : p \in ClipArea(m, o) <=> \E c : InAll(c) /\ p \in Area(m, c)
    BY <1>10, <1>11
  <2> QED BY <2>1, <2>2
<1>14. cs = <<o>> \o m.clippers[o] /\ Len(cs) = n + 1
  BY <1>4
<1> QED BY <1>2, <1>12, <1>13, <1>14

LEMMA ClippersAreObjects ==
  ASSUME NEW m, NEW o, NEW c, m \in Model, o \in Object, c \in Clippers(m, o)
  PROVE  c \in Object /\ (c = o \/ o \in ClipsFor(m, c))
<1>1. m.clippers[o] \in Seq(Object)
  BY DEF Model
<1>2. ToSet(m.clippers[o]) \subseteq Object
  BY <1>1, LenProperties, ElementOfSeq DEF ToSet
<1> QED BY <1>2 DEF Clippers, ClipsFor

\* It is the turn of o.
HasTurn(st, o) ==
  st \in Seq(Calls) /\ st # <<>> /\ st[Len(st)].rest # <<>> /\ o = Head(st[Len(st)].rest)

\* Where o is seen is what is marked, and there is a stencil value for it.
AtTurn(inside, nesting, b, s, d, o) ==
  /\ d \in Nat /\ b.clip_depth = d /\ s \in Values /\ AtMost(s, d)
  /\ o \in Object /\ Level(s, d) = inside[o]
  /\ d <= nesting[o] /\ nesting[o] \in 0 .. StencilSize - 1

LEMMA TurnFacts ==
  ASSUME NEW m, NEW inside, NEW nesting, NEW st, NEW b, NEW s, NEW q, NEW owner, NEW V, NEW o,
         Known(m, inside, nesting), HasTurn(st, o), b \in Placed,
         Walk(m, inside, nesting, st, b, s, q, owner, V)
  PROVE  AtTurn(inside, nesting, b, s[Items(b)], Len(st) - 1, o)
<1> PICK d, entry : d = Len(st) - 1 /\ entry = st[Len(st)]
  OBVIOUS
<1>0. st \in Seq(Calls) /\ st # <<>> /\ entry.rest # <<>> /\ o = Head(entry.rest)
  BY DEF HasTurn
<1> PICK n, s0 : n = Len(st) /\ s0 = s[Items(b)]
  OBVIOUS
<1>1. n \in Nat /\ n # 0 /\ n \in 1..n /\ d \in Nat /\ n = d + 1
  BY <1>0, EmptySeq, LenProperties
<1>2. entry \in Calls
  BY <1>0, <1>1, ElementOfSeq
<1>3. /\ b.clip_depth = d /\ Executes(m, b.items, s, q) /\ AtMost(s0, d)
      /\ ToSet(st[1].rest) \subseteq ToSet(m.objects)
      /\ Groups(m, inside, nesting, b, s0, st, owner)
  BY DEF Walk
<1>4. s0 \in Values
  <2>1. s \in [Nat -> Values]
    BY <1>3 DEF Executes
  <2>2. Items(b) \in Nat
    BY LenProperties DEF Items, Placed, Builders
  <2> QED BY <2>1, <2>2
<1>5. o \in Object /\ o \in ToSet(entry.rest)
  <2>1. entry.rest \in Seq(Object) /\ entry.rest # <<>>
    BY <1>0, <1>2 DEF Calls
  <2> QED BY <1>0, <2>1, HeadAndTail
<1>6. nesting[o] \in 0 .. StencilSize - 1
  <2>1. nesting \in [Object -> 0 .. StencilSize - 1]
    BY DEF Known, NestingFits
  <2> QED BY <1>5, <2>1
<1>7. CASE d = 0
  <2>1. o \in ToSet(m.objects)
    BY <1>1, <1>3, <1>5, <1>7
  <2>2. inside[o] = Pixel
    BY <1>5, <2>1 DEF Known, Clips
  <2>3. Level(s0, 0) = Pixel
    BY <1>4 DEF Level, Values
  <2> QED BY <1>1, <1>3, <1>4, <1>5, <1>6, <1>7, <2>2, <2>3 DEF AtTurn
<1>8. CASE d # 0
  <2> PICK g : g = owner[n]
    OBVIOUS
  <2>1. GroupOK(m, inside, nesting, b, s0, entry, g, n)
    <3>1. n \in 2..n
      BY <1>1, <1>8
    <3> QED BY <1>3, <3>1 DEF Groups
  <2>2. g \in Object /\ o \in ToSet(m.clippees[g]) /\ nesting[g] + 2 >= n
    BY <1>5, <2>1 DEF GroupOK
  <2>3. Level(s0, d) = inside[g] \cap ClipArea(m, g)
    BY <2>1 DEF GroupOK
  <2>4. g \in ClippedBy(m, o)
    BY <2>2 DEF ClippedBy
  <2>5. inside[o] = inside[g] \cap ClipArea(m, g)
    BY <1>5, <2>4 DEF Known, Clips
  <2>6. nesting[g] < nesting[o] /\ nesting[g] \in 0 .. StencilSize - 1
    BY <2>2 DEF Known, NestingFits
  <2>7. StencilSize \in Nat
    BY SceneAssumption
  <2>8. d <= nesting[o]
    BY <1>1, <1>6, <2>2, <2>6, <2>7
  <2> QED BY <1>1, <1>3, <1>4, <1>5, <1>6, <2>3, <2>5, <2>8 DEF AtTurn
<1> QED BY <1>7, <1>8

LEMMA SeenAtTurn ==
  ASSUME NEW m, NEW inside, NEW nesting, NEW s, NEW d, NEW o, NEW c, NEW b,
         Known(m, inside, nesting), m = model, c \in Clippers(m, o),
         AtTurn(inside, nesting, b, s, d, o)
  PROVE  HitAt(c, s, d) = SeenArea(m, inside, c)
<1>0. o \in Object /\ s \in Values /\ AtMost(s, d) /\ d \in Nat /\ Level(s, d) = inside[o]
  BY DEF AtTurn
<1>1. m \in Model /\ Clips(m, inside)
  BY DEF Known
<1>2. c \in Object /\ (c = o \/ o \in ClipsFor(m, c))
  BY <1>0, <1>1, ClippersAreObjects
<1>3. inside[c] = inside[o]
  BY <1>0, <1>1, <1>2 DEF Clips
<1>4. Area(m, c) \subseteq Pixel
  BY <1>1, <1>2, AreaType
<1>5. \A p \in Pixel : s[p] \in Nat /\ s[p] <= d
  BY <1>0 DEF Values, AtMost
<1>6. \A p \in Pixel : s[p] >= d <=> s[p] = d
  BY <1>0, <1>5
<1>7. HitAt(c, s, d) = {p \in Area(m, c) : s[p] = d}
  BY DEF HitAt
<1>8. \A p : p \in SeenArea(m, inside, c) <=> p \in Area(m, c) /\ p \in Level(s, d)
  BY <1>0, <1>3 DEF SeenArea
<1>9. \A p \in Area(m, c) : p \in Level(s, d) <=> s[p] = d
  BY <1>4, <1>6 DEF Level
<1> QED BY <1>7, <1>8, <1>9

\* What is above d is now what was at d, in U.
RaisesTo(s, t, d, U) ==
  /\ AtMost(t, d + 1)
  /\ \A k \in 0..d : Level(t, k) = Level(s, k)
  /\ Level(t, d + 1) = Level(s, d) \cap U

LEMMA RaisedLevels ==
  ASSUME NEW s, NEW d, NEW U, s \in Values, AtMost(s, d), d \in Nat
  PROVE  RaisesTo(s, Raised(s, d, U), d, U)
<1> PICK t : t = Raised(s, d, U)
  OBVIOUS
<1>1. \A p \in Pixel : /\ s[p] \in Nat /\ s[p] <= d
                       /\ t[p] = IF s[p] = d /\ p \in U THEN d + 1 ELSE s[p]
  BY DEF Values, AtMost, Raised
<1>2. AtMost(t, d + 1)
  BY <1>1 DEF AtMost
<1>3. \A k \in 0..d : \A p \in Pixel : t[p] >= k <=> s[p] >= k
  BY <1>1
<1>4. \A p \in Pixel : t[p] >= d + 1 <=> s[p] >= d /\ p \in U
  BY <1>1
<1> QED BY <1>2, <1>3, <1>4 DEF Level, RaisesTo

LowersTo(s, t, d) ==
  /\ AtMost(t, d - 1)
  /\ \A k \in 0 .. d - 1 : Level(t, k) = Level(s, k)

LEMMA LoweredLevels ==
  ASSUME NEW s, NEW d, NEW U, s \in Values, AtMost(s, d), d \in Nat, d > 0, Level(s, d) \subseteq U
  PROVE  LowersTo(s, Lowered(s, d, U), d)
<1> PICK t : t = Lowered(s, d, U)
  OBVIOUS
<1>1. \A p \in Pixel : /\ s[p] \in Nat /\ s[p] <= d
                       /\ t[p] = IF s[p] = d /\ p \in U THEN d - 1 ELSE s[p]
  BY DEF Values, AtMost, Lowered
<1>2. \A p \in Pixel : s[p] >= d => p \in U
  BY DEF Level
<1>3. \A p \in Pixel : t[p] = IF s[p] = d THEN d - 1 ELSE s[p]
  BY <1>1, <1>2
<1>4. AtMost(t, d - 1)
  BY <1>1, <1>3 DEF AtMost
<1>5. \A k \in 0 .. d - 1 : \A p \in Pixel : t[p] >= k <=> s[p] >= k
  BY <1>1, <1>3
<1> QED BY <1>4, <1>5 DEF Level, LowersTo

(* Groups that stay open.                                                  *)
LEMMA GroupsStay ==
  ASSUME NEW m, NEW inside, NEW nesting, NEW b, NEW c, NEW s, NEW t, NEW st, NEW tt, NEW owner, NEW k,
         b \in Placed, c \in Placed, Keeps(b, c), CallFits(st[k], b), st[k] \in Calls,
         GroupOK(m, inside, nesting, b, s, st[k], owner[k], k), Level(t, k - 1) = Level(s, k - 1),
         ToSet(tt[k].rest) \subseteq ToSet(st[k].rest), tt[k].start = st[k].start, tt[k].end = st[k].end
  PROVE  GroupOK(m, inside, nesting, c, t, tt[k], owner[k], k)
<1> PICK start, end : start = st[k].start /\ end = st[k].end
  OBVIOUS
<1>1. \A i \in start + 1 .. end : c.items[i] = b.items[i]
  <2>1. start \in Nat /\ end \in Nat /\ end <= Len(b.items)
    BY DEF CallFits, Calls
  <2>2. Len(b.items) \in Nat
    BY LenProperties DEF Placed, Builders
  <2>3. \A i \in start + 1 .. end : i \in 1..Len(b.items)
    BY <2>1, <2>2
  <2> QED BY <2>3 DEF Keeps
<1>2. HaveShapes(m, b, start, end) => HaveShapes(m, c, start, end)
  BY <1>1 DEF HaveShapes
<1>3. ItemsArea(m, c, start, end) = ItemsArea(m, b, start, end)
  <2>1. \A p : p \in ItemsArea(m, c, start, end) <=>
                 \E i \in start + 1 .. end : p \in m.shape[c.items[i].object]
    BY DEF ItemsArea
  <2>2. \A p : p \in ItemsArea(m, b, start, end) <=>
                 \E i \in start + 1 .. end : p \in m.shape[b.items[i].object]
    BY DEF ItemsArea
  <2>3. \A p : p \in ItemsArea(m, c, start, end) <=> p \in ItemsArea(m, b, start, end)
    BY <1>1, <2>1, <2>2
  <2> QED BY <2>3
<1> QED BY <1>2, <1>3 DEF GroupOK

\* Calls as they are when o has been taken from st.
TakesTurn(st, tt, o) ==
  /\ Len(st) \in Nat /\ Len(st) \in 1..Len(st) /\ o \in Object
  /\ tt \in Seq(Calls) /\ Len(tt) = Len(st)
  /\ \A k \in 1..Len(st) : /\ tt[k].start = st[k].start /\ tt[k].end = st[k].end
                           /\ ToSet(tt[k].rest) \subseteq ToSet(st[k].rest)
  /\ Waiting(st) \subseteq Waiting(tt) \cup {o}

LEMMA TurnTaken ==
  ASSUME NEW st, NEW o, HasTurn(st, o)
  PROVE  TakesTurn(st, [st EXCEPT ![Len(st)].rest = Tail(@)], o)
<1> PICK n, tt : n = Len(st) /\ tt = [st EXCEPT ![n].rest = Tail(@)]
  OBVIOUS
<1>0. st \in Seq(Calls) /\ st # <<>> /\ st[n].rest # <<>> /\ o = Head(st[n].rest)
  BY DEF HasTurn
<1>1. n \in Nat /\ n # 0 /\ n \in 1..n
  BY <1>0, EmptySeq, LenProperties
<1> PICK top : top = st[n]
  OBVIOUS
<1>2. top \in Calls
  BY <1>0, <1>1, ElementOfSeq
<1>3. top.rest \in Seq(Object) /\ top.rest # <<>>
  BY <1>0, <1>2 DEF Calls
<1>4. o \in Object /\ Tail(top.rest) \in Seq(Object) /\ ToSet(top.rest) = {o} \cup ToSet(Tail(top.rest))
  BY <1>0, <1>3, HeadAndTail
<1> PICK new : new = [top EXCEPT !.rest = Tail(@)]
  OBVIOUS
<1>5. new \in Calls /\ new.start = top.start /\ new.end = top.end /\ new.rest = Tail(top.rest)
  BY <1>2, <1>4 DEF Calls
<1>6. tt = [st EXCEPT ![n] = new]
  OBVIOUS
<1>7. tt \in Seq(Calls) /\ Len(tt) = n
  BY <1>0, <1>1, <1>5, <1>6, ExceptSeq
<1>8. tt[n] = new /\ \A k \in 1..n : k # n => tt[k] = st[k]
  <2>1. st \in [1..n -> Calls]
    BY <1>0, LenProperties
  <2> QED BY <1>1, <1>6, <2>1
<1>9. \A k \in 1..n : /\ tt[k].start = st[k].start /\ tt[k].end = st[k].end
                      /\ ToSet(tt[k].rest) \subseteq ToSet(st[k].rest)
                      /\ ToSet(st[k].rest) \subseteq ToSet(tt[k].rest) \cup {o}
  BY <1>4, <1>5, <1>8
<1>10. Waiting(st) \subseteq Waiting(tt) \cup {o}
  <2>1. \A x : x \in Waiting(st) <=> \E k \in 1..n : x \in ToSet(st[k].rest)
    BY DEF Waiting
  <2>2. \A x : x \in Waiting(tt) <=> \E k \in 1..n : x \in ToSet(tt[k].rest)
    BY <1>7 DEF Waiting
  <2>3. ASSUME NEW x \in Waiting(st), x # o PROVE x \in Waiting(tt)
    <3> PICK k \in 1..n : x \in ToSet(st[k].rest)
      BY <2>1
    <3>1. x \in ToSet(tt[k].rest)
      BY <1>9, <2>3
    <3> QED BY <2>2, <3>1
  <2> QED BY <2>3
<1> QED BY <1>1, <1>4, <1>7, <1>9, <1>10 DEF TakesTurn

Enters(tt, more, entry) ==
  /\ more \in Seq(Calls) /\ Len(more) = Len(tt) + 1 /\ Len(tt) \in Nat
  /\ \A k \in 1..Len(tt) : more[k] = tt[k]
  /\ more[Len(tt) + 1] = entry
  /\ Waiting(more) = Waiting(tt) \cup ToSet(entry.rest)

LEMMA OneMoreCall ==
  ASSUME NEW tt, NEW entry, tt \in Seq(Calls), entry \in Calls
  PROVE  Enters(tt, Append(tt, entry), entry)
<1> PICK n, more : n = Len(tt) /\ more = Append(tt, entry)
  OBVIOUS
<1>1. /\ more \in Seq(Calls) /\ Len(more) = n + 1 /\ n \in Nat
      /\ \A k \in 1..n : more[k] = tt[k]
      /\ more[n + 1] = entry
  BY AppendProperties, LenProperties
<1>2. \A k : k \in 1 .. n + 1 <=> k \in 1..n \/ k = n + 1
  BY <1>1
<1>3. \A x : x \in Waiting(tt) <=> \E k \in 1..n : x \in ToSet(tt[k].rest)
  BY DEF Waiting
<1>4. \A x : x \in Waiting(more) <=> \E k \in 1 .. n + 1 : x \in ToSet(more[k].rest)
  BY <1>1 DEF Waiting
<1>5. \A x : x \in Waiting(more) <=> x \in Waiting(tt) \cup ToSet(entry.rest)
  BY <1>1, <1>2, <1>3, <1>4
<1> QED BY <1>1, <1>5 DEF Enters

PaintGrows(m, inside, paint, more) ==
  \A o \in Object : paint[o] \subseteq more[o] /\ more[o] \subseteq SeenArea(m, inside, o)

\* If nothing is below o, all that is drawn for it is painted.
LeafPainted(m, inside, paint, o) ==
  m.clippees[o] = <<>> =>
    \A c \in Clippers(m, o) : m.material[c] # "none" => SeenArea(m, inside, c) \subseteq paint[c]

LEMMA ProgressOn ==
  ASSUME NEW m, NEW inside, NEW paint, NEW V, NEW W, NEW more, NEW o, NEW X, m \in Model, o \in Object,
         Progress(m, inside, paint, V, W), PaintGrows(m, inside, paint, more),
         LeafPainted(m, inside, more, o), W \subseteq X \cup {o}, ToSet(m.clippees[o]) \subseteq X
  PROVE  Progress(m, inside, more, V \cup {o}, X)
<1> PICK Y : Y = V \cup {o}
  OBVIOUS
<1>1. Y \subseteq Object /\ ToSet(m.objects) \subseteq Y \cup X
  BY DEF Progress
<1>2. \A g \in Y : ToSet(m.clippees[g]) \subseteq Y \cup X
  BY DEF Progress
<1>3. \A a \in Object : more[a] \subseteq SeenArea(m, inside, a)
  BY DEF PaintGrows
<1>4. ASSUME NEW g \in Y, m.clippees[g] = <<>>, NEW c \in Clippers(m, g), m.material[c] # "none"
      PROVE  SeenArea(m, inside, c) \subseteq more[c]
  <2>1. CASE g = o
    BY <1>4, <2>1 DEF LeafPainted
  <2>2. CASE g \in V
    <3>1. c \in Object
      BY <1>1, ClippersAreObjects
    <3>2. SeenArea(m, inside, c) \subseteq paint[c]
      BY <1>4, <2>2 DEF Progress
    <3> QED BY <3>1, <3>2 DEF PaintGrows
  <2> QED BY <2>1, <2>2
<1> QED BY <1>1, <1>2, <1>3, <1>4 DEF Progress

LEMMA CleanStays ==
  ASSUME NEW cl, NEW l, NEW s, NEW t, NEW n, NEW k, CleanOK(cl, l, s, n), n \in Nat, k \in Nat, n <= k,
         \A i \in 0..n : t[i] = s[i]
  PROVE  CleanOK(cl, l, t, k)
<1>1. \A i \in 0..n : i \in 0..k
  OBVIOUS
<1> QED BY <1>1 DEF CleanOK

LEMMA ItemsGrow ==
  ASSUME NEW b, NEW c, b \in Placed, c \in Placed, Keeps(b, c)
  PROVE  Items(b) \in Nat /\ Items(c) \in Nat /\ Items(b) <= Items(c)
<1>1. b.items \in Seq(DisplayItems) /\ c.items \in Seq(DisplayItems)
  BY DEF Placed, Builders
<1>2. Items(b) <= Items(c)
  BY DEF Keeps, Items
<1> QED BY <1>1, <1>2, LenProperties DEF Items

WalkOn(m, inside, nesting, st, b, l, cl) ==
  \E s, q, owner, V : Walk(m, inside, nesting, st, b, s, q, owner, V) /\ CleanOK(cl, l, s, Items(b))

LEMMA RoomForGroup ==
  ASSUME NEW m, NEW inside, NEW nesting, NEW b, NEW s, NEW d, NEW o, Known(m, inside, nesting),
         AtTurn(inside, nesting, b, s, d, o), m.clippees[o] # <<>>
  PROVE  Deeper(d)
<1>0. o \in Object /\ d \in Nat /\ d <= nesting[o] /\ nesting[o] \in 0 .. StencilSize - 1
  BY DEF AtTurn
<1>1. m.clippees[o] \in Seq(Object) /\ m.clippees[o] # <<>>
  BY <1>0 DEF Known, Model
<1> PICK c : c = Head(m.clippees[o])
  OBVIOUS
<1>2. c \in Object /\ c \in ToSet(m.clippees[o])
  BY <1>1, HeadAndTail
<1>3. nesting[o] < nesting[c] /\ nesting[c] \in 0 .. StencilSize - 1
  BY <1>0, <1>2 DEF Known, NestingFits
<1>4. StencilSize \in Nat
  BY SceneAssumption
<1> QED BY <1>0, <1>3, <1>4 DEF Deeper

WithDepth(b, e) == [b EXCEPT !.clip_depth = e]

LEMMA DepthSet ==
  ASSUME NEW b, NEW e, b \in Placed, e \in Int
  PROVE  /\ WithDepth(b, e) \in Placed /\ WithDepth(b, e).items = b.items
         /\ WithDepth(b, e).clip_depth = e /\ Items(WithDepth(b, e)) = Items(b)
         /\ \A a : Keeps(a, b) => Keeps(a, WithDepth(b, e))
<1> PICK c : c = WithDepth(b, e)
  OBVIOUS
<1>1. c \in Placed /\ c.items = b.items
  BY DepthMovesNothing DEF WithDepth
<1>2. c.clip_depth = e
  BY DEF Placed, Builders, WithDepth
<1> QED BY <1>1, <1>2 DEF Items, Keeps

LEMMA GroupsStayOpen ==
  ASSUME NEW m, NEW inside, NEW nesting, NEW st, NEW tt, NEW b, NEW c, NEW s, NEW t, NEW owner, NEW own,
         NEW n, NEW last, b \in Placed, c \in Placed, Keeps(b, c), st \in Seq(Calls), n = Len(st),
         \A k \in 1..n : CallFits(st[k], b),
         Groups(m, inside, nesting, b, s, st, owner), last \in Nat, last <= n,
         \A k \in 0 .. last - 1 : Level(t, k) = Level(s, k),
         \A k \in 1..last : /\ ToSet(tt[k].rest) \subseteq ToSet(st[k].rest)
                            /\ tt[k].start = st[k].start /\ tt[k].end = st[k].end,
         \A k \in 2..last : own[k] = owner[k]
  PROVE  \A k \in 2..last : GroupOK(m, inside, nesting, c, t, tt[k], own[k], k)
<1>0. n \in Nat
  BY LenProperties
<1> SUFFICES ASSUME NEW k \in 2..last PROVE GroupOK(m, inside, nesting, c, t, tt[k], own[k], k)
  OBVIOUS
<1>1. k \in 1..n /\ k \in 2..n /\ k \in 1..last /\ k - 1 \in 0 .. last - 1
  BY <1>0
<1>2. GroupOK(m, inside, nesting, b, s, st[k], owner[k], k)
  BY <1>1 DEF Groups
<1>3. CallFits(st[k], b) /\ st[k] \in Calls /\ Level(t, k - 1) = Level(s, k - 1)
  BY <1>1, ElementOfSeq
<1>4. /\ ToSet(tt[k].rest) \subseteq ToSet(st[k].rest)
      /\ tt[k].start = st[k].start /\ tt[k].end = st[k].end /\ own[k] = owner[k]
  BY <1>1
<1>5. GroupOK(m, inside, nesting, c, t, tt[k], owner[k], k)
  BY <1>2, <1>3, <1>4, GroupsStay
<1> QED BY <1>4, <1>5

\* What was painted is still painted, and the object o at its turn.
LEMMA PaintAtTurn ==
  ASSUME NEW m, NEW inside, NEW nesting, NEW b, NEW s, NEW d, NEW o, NEW paint, NEW more, NEW V, NEW W,
         Known(m, inside, nesting), m = model, AtTurn(inside, nesting, b, s, d, o),
         Progress(m, inside, paint, V, W),
         \A a \in Object :
           /\ paint[a] \subseteq more[a]
           /\ more[a] \subseteq paint[a] \cup (IF a \in Clippers(m, o) THEN HitAt(a, s, d) ELSE {})
  PROVE  PaintGrows(m, inside, paint, more)
<1> SUFFICES ASSUME NEW a \in Object
             PROVE  paint[a] \subseteq more[a] /\ more[a] \subseteq SeenArea(m, inside, a)
  BY DEF PaintGrows
<1>1. paint[a] \subseteq SeenArea(m, inside, a)
  BY DEF Progress
<1>2. a \in Clippers(m, o) => HitAt(a, s, d) = SeenArea(m, inside, a)
  BY SeenAtTurn
<1> QED BY <1>1, <1>2

LEMMA SameItems ==
  ASSUME NEW m, NEW b, NEW c, NEW start, NEW end, c.items = b.items
  PROVE  /\ HaveShapes(m, b, start, end) => HaveShapes(m, c, start, end)
         /\ ItemsArea(m, c, start, end) = ItemsArea(m, b, start, end)
<1>1. \A p : p \in ItemsArea(m, c, start, end) <=>
               \E i \in start + 1 .. end : p \in m.shape[c.items[i].object]
  BY DEF ItemsArea
<1>2. \A p : p \in ItemsArea(m, b, start, end) <=>
               \E i \in start + 1 .. end : p \in m.shape[b.items[i].object]
  BY DEF ItemsArea
<1>3. \A p : p \in ItemsArea(m, c, start, end) <=> p \in ItemsArea(m, b, start, end)
  BY <1>1, <1>2
<1> QED BY <1>3 DEF HaveShapes

LEMMA GroupWalk ==
  ASSUME NEW inside, NEW nesting, DisplayInv, AddClipperAndClippeeObjects,
         Known(model, inside, nesting), WalkOn(model, inside, nesting, stack, builder, list, clean)
  PROVE  WalkOn(model, inside, nesting, stack', builder', list, clean)
<1> PICK m : m = model
  OBVIOUS
<1>a. PICK o, cs : o = Head(Top.rest) /\ cs = <<o>> \o m.clippers[o]
  OBVIOUS
<1>b. PICK b, after : b = AddAllClippers(builder, cs) /\ after = [stack EXCEPT ![Len(stack)].rest = Tail(@)]
  OBVIOUS
<1>c. PICK entry : entry = [rest |-> m.clippees[o], start |-> Items(builder), end |-> Items(b)]
  BY Zenon
<1>1. PICK s, q, owner, V : /\ Walk(m, inside, nesting, stack, builder, s, q, owner, V)
                            /\ CleanOK(clean, list, s, Items(builder))
  BY DEF WalkOn
<1>2. /\ HasTurn(stack, o)
      /\ builder' = [b EXCEPT !.clip_depth = @ + 1]
      /\ stack' = Append(after, entry)
      /\ m.clippees[o] # <<>>
  BY <1>a, <1>b, <1>c, Zenon DEF AddClipperAndClippeeObjects, AddAllClippers, Top, Last, HasTurn, DisplayInv, Items
<1>3. /\ stack \in Seq(Calls) /\ builder \in Placed
      /\ \A i \in 1..Len(stack) : CallFits(stack[i], builder)
  BY DEF DisplayInv
<1>4. m \in Model
  BY DEF Known
<1>5. PICK d, s0, q0, U : /\ d = Len(stack) - 1 /\ s0 = s[Items(builder)] /\ q0 = q[Items(builder)]
                          /\ U = ClipArea(m, o)
  OBVIOUS
<1>6. AtTurn(inside, nesting, builder, s0, d, o)
  <2>1. AtTurn(inside, nesting, builder, s[Items(builder)], Len(stack) - 1, o)
    BY <1>1, <1>2, <1>3, TurnFacts
  <2> QED BY <1>5, <2>1
<1>7. TakesTurn(stack, after, o)
  BY <1>2, <1>b, TurnTaken
<1>8. builder.clip_depth = d /\ s0 \in Values /\ AtMost(s0, d) /\ o \in Object
  BY <1>6 DEF AtTurn
<1>9. Deeper(d)
  BY <1>2, <1>6, RoomForGroup
<1>10. Nestable(builder, s)
  BY <1>5, <1>8, <1>9 DEF Nestable
<1>11. Executes(m, builder.items, s, q)
  BY <1>1 DEF Walk
<1>12. Marks(builder, s, q, b, U, Clippers(m, o))
  <2>1. /\ AllIn(cs, Len(cs), Object) /\ ObjectsOf(cs, Len(cs)) = Clippers(m, o)
        /\ AreaOf(cs, Len(cs)) = ClipArea(m, o)
    BY <1>4, <1>8, <1>a, ClippersOf
  <2>2. Marks(builder, s, q, b, AreaOf(cs, Len(cs)), ObjectsOf(cs, Len(cs)))
    BY <1>3, <1>4, <1>10, <1>11, <1>b, <2>1, ClippersMark
  <2> QED BY <1>5, <2>1, <2>2
<1>13. PICK t, u :
      /\ Continues(builder, s, b, t, u)
      /\ t[Items(b)] = Raised(s0, d, U)
      /\ \A a \in Object :
           /\ q0[a] \subseteq u[Items(b)][a]
           /\ u[Items(b)][a] \subseteq q0[a] \cup (IF a \in Clippers(m, o) THEN HitAt(a, s0, d) ELSE {})
      /\ HaveShapes(m, b, Items(builder), Items(b)) /\ ItemsArea(m, b, Items(builder), Items(b)) = U
  BY <1>5, <1>8, <1>12 DEF Marks
<1>14. /\ b \in Placed /\ b.clip_depth = d /\ Keeps(builder, b)
       /\ Executes(m, b.items, t, u) /\ \A k \in 0..Items(builder) : t[k] = s[k]
  BY <1>8, <1>13 DEF Continues
<1>15. d \in Nat /\ Len(stack) \in Nat /\ Len(stack) = d + 1
  BY <1>5, <1>6, <1>7 DEF AtTurn, TakesTurn
<1> PICK c : c = builder'
  OBVIOUS
<1>16. /\ c \in Placed /\ c.items = b.items /\ c.clip_depth = d + 1 /\ Items(c) = Items(b)
       /\ Keeps(builder, c)
  <2>1. PICK e : e = d + 1
    OBVIOUS
  <2>2. e \in Int
    BY <1>15, <2>1
  <2>3. c = [b EXCEPT !.clip_depth = b.clip_depth + 1]
    BY <1>2
  <2>4. c = WithDepth(b, e)
    BY <1>14, <2>1, <2>3 DEF WithDepth
  <2>5. /\ c \in Placed /\ c.items = b.items /\ c.clip_depth = e /\ Items(c) = Items(b)
        /\ \A a : Keeps(a, b) => Keeps(a, c)
    <3>1. b \in Placed
      BY <1>14
    <3>2. /\ WithDepth(b, e) \in Placed /\ WithDepth(b, e).items = b.items
          /\ WithDepth(b, e).clip_depth = e /\ Items(WithDepth(b, e)) = Items(b)
          /\ \A a : Keeps(a, b) => Keeps(a, WithDepth(b, e))
      BY <2>2, <3>1, DepthSet
    <3> QED BY <2>4, <3>2
  <2> QED BY <1>14, <2>1, <2>5
<1>17. PICK t0, u0 : t0 = t[Items(c)] /\ u0 = u[Items(c)]
  OBVIOUS
<1>18. RaisesTo(s0, t0, d, U)
  <2>1. t0 = Raised(s0, d, U)
    BY <1>13, <1>16, <1>17
  <2>2. RaisesTo(s0, Raised(s0, d, U), d, U)
    BY <1>8, <1>15, RaisedLevels
  <2> QED BY <2>1, <2>2
<1>19. Items(builder) \in Nat /\ Items(c) \in Nat /\ Items(builder) <= Items(c)
  BY <1>3, <1>16, ItemsGrow
<1>20. entry \in Calls
  <2>1. m.clippees[o] \in Seq(Object)
    BY <1>4, <1>8 DEF Model
  <2> QED BY <1>16, <1>19, <1>c, <2>1 DEF Calls
<1>21. Enters(after, stack', entry)
  <2>1. after \in Seq(Calls)
    BY <1>7 DEF TakesTurn
  <2> QED BY <1>2, <1>20, <2>1, OneMoreCall
<1>22. /\ Len(stack') = d + 2
       /\ \A k \in 1 .. d + 1 : stack'[k] = after[k]
       /\ stack'[d + 2] = entry
       /\ Waiting(stack') = Waiting(after) \cup ToSet(m.clippees[o])
  <2>1. Len(after) = d + 1 /\ (d + 1) + 1 = d + 2
    BY <1>7, <1>15 DEF TakesTurn
  <2>2. entry.rest = m.clippees[o]
    BY <1>c
  <2> QED BY <1>21, <2>1, <2>2 DEF Enters
<1>23. \A k \in 1 .. d + 1 : /\ ToSet(stack'[k].rest) \subseteq ToSet(stack[k].rest)
                             /\ stack'[k].start = stack[k].start /\ stack'[k].end = stack[k].end
  BY <1>7, <1>15, <1>22 DEF TakesTurn
<1>24. PICK own : own = [k \in 1 .. d + 2 |-> IF k = d + 2 THEN o ELSE owner[k]]
  OBVIOUS
<1>25. own[d + 2] = o /\ \A k \in 2 .. d + 1 : own[k] = owner[k]
  BY <1>15, <1>24
<1>26. Groups(m, inside, nesting, c, t0, stack', own)
  <2>1. \A k \in 2 .. d + 1 : GroupOK(m, inside, nesting, c, t0, stack'[k], own[k], k)
    <3>1. Groups(m, inside, nesting, builder, s0, stack, owner)
      BY <1>1, <1>5 DEF Walk
    <3>2. PICK last : last = d + 1
      OBVIOUS
    <3>3. /\ last \in Nat /\ last <= Len(stack)
          /\ \A k \in 0 .. last - 1 : Level(t0, k) = Level(s0, k)
          /\ \A k \in 1..last : /\ ToSet(stack'[k].rest) \subseteq ToSet(stack[k].rest)
                                /\ stack'[k].start = stack[k].start /\ stack'[k].end = stack[k].end
          /\ \A k \in 2..last : own[k] = owner[k]
      <4>1. last - 1 = d
        BY <1>15, <3>2
      <4>2. \A k \in 0..d : Level(t0, k) = Level(s0, k)
        BY <1>18 DEF RaisesTo
      <4>3. \A k \in 0 .. last - 1 : Level(t0, k) = Level(s0, k)
        BY <4>1, <4>2
      <4>4. last \in Nat /\ last <= Len(stack)
        BY <1>15, <3>2
      <4> QED BY <1>23, <1>25, <3>2, <4>3, <4>4
    <3>4. \A k \in 2..last : GroupOK(m, inside, nesting, c, t0, stack'[k], own[k], k)
      BY <1>3, <1>16, <3>1, <3>3, GroupsStayOpen
    <3> QED BY <3>2, <3>4
  <2>2. GroupOK(m, inside, nesting, c, t0, entry, o, d + 2)
    <3>1. nesting[o] + 2 >= d + 2
      BY <1>6, <1>15 DEF AtTurn
    <3>2. Level(t0, (d + 2) - 1) = inside[o] \cap ClipArea(m, o)
      <4>1. (d + 2) - 1 = d + 1
        BY <1>15
      <4>2. Level(t0, d + 1) = Level(s0, d) \cap U
        BY <1>18 DEF RaisesTo
      <4>3. Level(s0, d) = inside[o]
        BY <1>6 DEF AtTurn
      <4> QED BY <1>5, <4>1, <4>2, <4>3
    <3>3. entry.rest = m.clippees[o] /\ entry.start = Items(builder) /\ entry.end = Items(b)
      BY <1>c
    <3>4. HaveShapes(m, c, Items(builder), Items(b)) /\ ItemsArea(m, c, Items(builder), Items(b)) = U
      <4>1. HaveShapes(m, b, Items(builder), Items(b)) /\ ItemsArea(m, b, Items(builder), Items(b)) = U
        BY <1>13
      <4>2. c.items = b.items
        BY <1>16
      <4> QED BY <4>1, <4>2, SameItems
    <3>5. ToSet(entry.rest) \subseteq ToSet(m.clippees[o])
      BY <3>3
    <3> QED BY <1>2, <1>5, <1>8, <3>1, <3>2, <3>3, <3>4, <3>5 DEF GroupOK
  <2>3. \A k \in 2 .. d + 2 : k \in 2 .. d + 1 \/ k = d + 2
    BY <1>15
  <2>4. \A k \in 2 .. d + 2 : GroupOK(m, inside, nesting, c, t0, stack'[k], own[k], k)
    BY <1>22, <1>25, <2>1, <2>2, <2>3
  <2> QED BY <1>22, <2>4 DEF Groups
<1>27. Progress(m, inside, u0, V \cup {o}, Waiting(stack'))
  <2>1. Progress(m, inside, q0, V, Waiting(stack))
    BY <1>1, <1>5 DEF Walk
  <2>2. \A a \in Object :
           /\ q0[a] \subseteq u0[a]
           /\ u0[a] \subseteq q0[a] \cup (IF a \in Clippers(m, o) THEN HitAt(a, s0, d) ELSE {})
    BY <1>13, <1>16, <1>17
  <2>3. PaintGrows(m, inside, q0, u0)
    BY <1>6, <2>1, <2>2, PaintAtTurn
  <2>4. LeafPainted(m, inside, u0, o)
    BY <1>2 DEF LeafPainted
  <2>5. /\ Waiting(stack) \subseteq Waiting(stack') \cup {o}
        /\ ToSet(m.clippees[o]) \subseteq Waiting(stack')
    BY <1>7, <1>22 DEF TakesTurn
  <2> QED BY <1>4, <1>8, <2>1, <2>3, <2>4, <2>5, ProgressOn
<1>28. ToSet(stack'[1].rest) \subseteq ToSet(m.objects)
  <2>1. ToSet(stack[1].rest) \subseteq ToSet(m.objects)
    BY <1>1 DEF Walk
  <2>2. 1 \in 1 .. d + 1
    BY <1>15
  <2> QED BY <1>23, <2>1, <2>2
<1>29. Walk(m, inside, nesting, stack', c, t, u, own, V \cup {o})
  <2>1. Len(stack') - 1 = d + 1
    BY <1>15, <1>22
  <2>2. AtMost(t0, d + 1)
    BY <1>18 DEF RaisesTo
  <2> QED BY <1>14, <1>16, <1>17, <1>26, <1>27, <1>28, <2>1, <2>2 DEF Walk
<1>30. CleanOK(clean, list, t, Items(c))
  BY <1>1, <1>14, <1>19, CleanStays
<1> QED BY <1>29, <1>30 DEF WalkOn

LEMMA CleanAdded ==
  ASSUME NEW cl, NEW l, NEW s, NEW k, CleanOK(cl, l, s, k), k \in Nat, s[k] = Zero
  PROVE  CleanOK(cl \cup {<<l, k>>}, l, s, k)
<1>1. k \in 0..k
  OBVIOUS
<1> QED BY <1>1 DEF CleanOK

LEMMA NothingMarked ==
  ASSUME NEW s, s \in Values, AtMost(s, 0)
  PROVE  s = Zero
<1>1. \A p \in Pixel : s[p] = 0
  BY DEF AtMost, Values
<1> QED BY <1>1 DEF Values, Zero

LEMMA NothingInEmpty == ToSet(<<>>) = {}
<1>1. DOMAIN <<>> = 1..0
  BY EmptySeq, LenProperties
<1> QED BY <1>1 DEF ToSet

LEMMA LeafWalk ==
  ASSUME NEW inside, NEW nesting, DisplayInv, AddObject,
         Known(model, inside, nesting), WalkOn(model, inside, nesting, stack, builder, list, clean)
  PROVE  WalkOn(model, inside, nesting, stack', builder', list, clean')
<1> PICK m, o : m = model /\ o = Head(Top.rest)
  OBVIOUS
<1> PICK cs : cs = <<o>> \o m.clippers[o]
  OBVIOUS
<1> PICK b, after : b = builder' /\ after = stack'
  OBVIOUS
<1>1. PICK s, q, owner, V : /\ Walk(m, inside, nesting, stack, builder, s, q, owner, V)
                            /\ CleanOK(clean, list, s, Items(builder))
  BY Zenon DEF WalkOn
<1>2. /\ HasTurn(stack, o)
      /\ b = AddAllObjects(builder, cs)
      /\ after = [stack EXCEPT ![Len(stack)].rest = Tail(@)]
      /\ m.clippees[o] = <<>>
      /\ clean' = IF Len(stack) = 1 THEN clean \cup {<<list, Items(b)>>} ELSE clean
  BY Zenon DEF AddObject, AddAllObjects, Top, Last, HasTurn, DisplayInv, Items
<1>3. /\ stack \in Seq(Calls) /\ builder \in Placed
      /\ \A i \in 1..Len(stack) : CallFits(stack[i], builder)
  BY DEF DisplayInv
<1>4. m \in Model /\ Solid(m)
  BY DEF Known, IsTree, Solid
<1>5. PICK d, s0, q0 : d = Len(stack) - 1 /\ s0 = s[Items(builder)] /\ q0 = q[Items(builder)]
  OBVIOUS
<1>6. AtTurn(inside, nesting, builder, s0, d, o)
  <2>1. AtTurn(inside, nesting, builder, s[Items(builder)], Len(stack) - 1, o)
    BY <1>1, <1>2, <1>3, TurnFacts
  <2> QED BY <1>5, <2>1
<1>7. TakesTurn(stack, after, o)
  BY <1>2, TurnTaken
<1>8. builder.clip_depth = d /\ s0 \in Values /\ AtMost(s0, d) /\ o \in Object
  BY <1>6 DEF AtTurn
<1>9. Drawable(d)
  <2>1. StencilSize \in Nat
    BY SceneAssumption
  <2> QED BY <1>6, <2>1 DEF AtTurn, Drawable
<1>10. Shown(builder, s)
  BY <1>5, <1>8, <1>9 DEF Shown
<1>11. Executes(m, builder.items, s, q)
  BY <1>1 DEF Walk
<1>12. Fills(builder, s, q, b, Clippers(m, o))
  <2>1. AllIn(cs, Len(cs), Object) /\ ObjectsOf(cs, Len(cs)) = Clippers(m, o)
    BY <1>4, <1>8, ClippersOf
  <2>2. Fills(builder, s, q, b, ObjectsOf(cs, Len(cs)))
    BY <1>2, <1>3, <1>4, <1>10, <1>11, <2>1, ObjectsFill
  <2> QED BY <2>1, <2>2
<1>13. PICK t, u :
      /\ Continues(builder, s, b, t, u)
      /\ t[Items(b)] = s0
      /\ \A a \in Object :
           /\ q0[a] \subseteq u[Items(b)][a]
           /\ u[Items(b)][a] \subseteq q0[a] \cup (IF a \in Clippers(m, o) THEN HitAt(a, s0, d) ELSE {})
           /\ a \in Clippers(m, o) /\ m.material[a] # "none" => HitAt(a, s0, d) \subseteq u[Items(b)][a]
  BY <1>5, <1>8, <1>12 DEF Fills
<1>14. /\ b \in Placed /\ b.clip_depth = d /\ Keeps(builder, b)
       /\ Executes(m, b.items, t, u) /\ \A k \in 0..Items(builder) : t[k] = s[k]
  BY <1>8, <1>13 DEF Continues
<1>15. d \in Nat /\ Len(stack) = d + 1 /\ Len(after) = d + 1
  BY <1>5, <1>6, <1>7 DEF AtTurn, TakesTurn
<1>16. Items(builder) \in Nat /\ Items(b) \in Nat /\ Items(builder) <= Items(b)
  BY <1>3, <1>14, ItemsGrow
<1>17. PICK u0 : u0 = u[Items(b)]
  OBVIOUS
<1>18. \A k \in 1 .. d + 1 : /\ ToSet(after[k].rest) \subseteq ToSet(stack[k].rest)
                             /\ after[k].start = stack[k].start /\ after[k].end = stack[k].end
  BY <1>7, <1>15 DEF TakesTurn
<1>19. Groups(m, inside, nesting, b, s0, after, owner)
  <2>1. Groups(m, inside, nesting, builder, s0, stack, owner)
    BY <1>1, <1>5 DEF Walk
  <2>2. PICK last : last = d + 1
    OBVIOUS
  <2>3. /\ last \in Nat /\ last <= Len(stack)
        /\ \A k \in 0 .. last - 1 : Level(s0, k) = Level(s0, k)
        /\ \A k \in 1..last : /\ ToSet(after[k].rest) \subseteq ToSet(stack[k].rest)
                              /\ after[k].start = stack[k].start /\ after[k].end = stack[k].end
        /\ \A k \in 2..last : owner[k] = owner[k]
    <3>1. last \in Nat /\ last <= Len(stack)
      BY <1>15, <2>2
    <3> QED BY <1>18, <2>2, <3>1
  <2>4. \A k \in 2..last : GroupOK(m, inside, nesting, b, s0, after[k], owner[k], k)
    BY <1>3, <1>14, <2>1, <2>3, GroupsStayOpen
  <2>5. Len(after) = last
    BY <1>15, <2>2
  <2> QED BY <2>4, <2>5 DEF Groups
<1>20. Progress(m, inside, u0, V \cup {o}, Waiting(after))
  <2>1. Progress(m, inside, q0, V, Waiting(stack))
    BY <1>1, <1>5 DEF Walk
  <2>2. \A a \in Object :
           /\ q0[a] \subseteq u0[a]
           /\ u0[a] \subseteq q0[a] \cup (IF a \in Clippers(m, o) THEN HitAt(a, s0, d) ELSE {})
    BY <1>13, <1>17
  <2>3. PaintGrows(m, inside, q0, u0)
    BY <1>6, <2>1, <2>2, PaintAtTurn
  <2>4. LeafPainted(m, inside, u0, o)
    <3>1. ASSUME NEW c \in Clippers(m, o), m.material[c] # "none"
          PROVE  SeenArea(m, inside, c) \subseteq u0[c]
      <4>1. c \in Object
        BY <1>4, <1>8, ClippersAreObjects
      <4>2. HitAt(c, s0, d) = SeenArea(m, inside, c)
        BY <1>6, SeenAtTurn
      <4> QED BY <1>13, <1>17, <3>1, <4>1, <4>2
    <3> QED BY <3>1 DEF LeafPainted
  <2>5. Waiting(stack) \subseteq Waiting(after) \cup {o}
    BY <1>7 DEF TakesTurn
  <2>6. ToSet(m.clippees[o]) = {}
    BY <1>2, NothingInEmpty
  <2>7. ToSet(m.clippees[o]) \subseteq Waiting(after)
    BY <2>6
  <2> QED BY <1>4, <1>8, <2>1, <2>3, <2>4, <2>5, <2>7, ProgressOn
<1>21. ToSet(after[1].rest) \subseteq ToSet(m.objects)
  <2>1. ToSet(stack[1].rest) \subseteq ToSet(m.objects)
    BY <1>1 DEF Walk
  <2>2. 1 \in 1 .. d + 1
    BY <1>15
  <2> QED BY <1>18, <2>1, <2>2
<1>22. Walk(m, inside, nesting, after, b, t, u, owner, V \cup {o})
  <2>1. Len(after) - 1 = d
    BY <1>15
  <2> QED BY <1>8, <1>13, <1>14, <1>17, <1>19, <1>20, <1>21, <2>1 DEF Walk
<1>23. CleanOK(clean', list, t, Items(b))
  <2>1. CleanOK(clean, list, t, Items(b))
    BY <1>1, <1>14, <1>16, CleanStays
  <2>2. CASE Len(stack) = 1
    <3>1. d = 0
      <4>1. d \in Nat /\ d + 1 = 1
        BY <1>15, <2>2
      <4> QED BY <4>1
    <3>2. t[Items(b)] = Zero
      BY <1>8, <1>13, <3>1, NothingMarked
    <3>3. CleanOK(clean \cup {<<list, Items(b)>>}, list, t, Items(b))
      BY <1>16, <2>1, <3>2, CleanAdded
    <3> QED BY <1>2, <2>2, <3>3
  <2> QED BY <1>2, <2>1, <2>2
<1> QED BY <1>22, <1>23 DEF WalkOn

\* The innermost call of st has returned.
Returns(st, tt) ==
  /\ Len(st) \in Nat /\ Len(st) > 1
  /\ tt \in Seq(Calls) /\ Len(tt) = Len(st) - 1
  /\ \A k \in 1 .. Len(st) - 1 : tt[k] = st[k]

LEMMA FrontOf ==
  ASSUME NEW st, st \in Seq(Calls), Len(st) > 1
  PROVE  Returns(st, Front(st))
<1> PICK n, last, tt : n = Len(st) /\ last = n - 1 /\ tt = SubSeq(st, 1, last)
  OBVIOUS
<1>1. n \in Nat /\ n > 1 /\ last \in Nat /\ tt = Front(st)
  BY LenProperties DEF Front
<1>2. \A i \in 1..last : st[i] \in Calls
  <2>1. \A i \in 1..last : i \in 1..n
    BY <1>1
  <2> QED BY <2>1, ElementOfSeq
<1>3. /\ tt \in Seq(Calls)
      /\ Len(tt) = IF 1 <= last THEN last - 1 + 1 ELSE 0
      /\ \A i \in 1 .. last - 1 + 1 : tt[i] = st[1 + i - 1]
  <2>1. 1 \in Int /\ last \in Int
    BY <1>1
  <2>2. /\ SubSeq(st, 1, last) \in Seq(Calls)
        /\ Len(SubSeq(st, 1, last)) = IF 1 <= last THEN last - 1 + 1 ELSE 0
        /\ \A i \in 1 .. last - 1 + 1 : SubSeq(st, 1, last)[i] = st[1 + i - 1]
    BY <1>2, <2>1, SubSeqProperties
  <2> QED BY <2>2
<1>4. last - 1 + 1 = last /\ 1 <= last /\ \A i \in 1..last : 1 + i - 1 = i
  BY <1>1
<1>5. Len(tt) = last /\ \A i \in 1..last : tt[i] = st[i]
  BY <1>3, <1>4
<1> QED BY <1>1, <1>3, <1>5 DEF Returns

LEMMA NobodyWaits ==
  ASSUME NEW st, NEW tt, Returns(st, tt), st[Len(st)].rest = <<>>
  PROVE  Waiting(tt) = Waiting(st)
<1> PICK n : n = Len(st)
  OBVIOUS
<1>1. n \in Nat /\ n > 1 /\ Len(tt) = n - 1 /\ \A k \in 1 .. n - 1 : tt[k] = st[k]
  BY DEF Returns
<1>2. \A x : x \in Waiting(st) <=> \E k \in 1..n : x \in ToSet(st[k].rest)
  BY DEF Waiting
<1>3. \A x : x \in Waiting(tt) <=> \E k \in 1 .. n - 1 : x \in ToSet(st[k].rest)
  BY <1>1 DEF Waiting
<1>4. \A k : k \in 1..n <=> k \in 1 .. n - 1 \/ k = n
  BY <1>1
<1>5. ToSet(st[n].rest) = {}
  BY NothingInEmpty
<1> QED BY <1>2, <1>3, <1>4, <1>5

\* There is a stencil value for every group that is open.
LEMMA GroupNested ==
  ASSUME NEW m, NEW inside, NEW nesting, NEW b, NEW s, NEW entry, NEW g, NEW k, NEW e,
         Known(m, inside, nesting), GroupOK(m, inside, nesting, b, s, entry, g, k),
         e \in Nat, e > 0, k = e + 1
  PROVE  Nested(e)
<1>0. g \in Object /\ m.clippees[g] # <<>> /\ nesting[g] + 2 >= k
  BY DEF GroupOK
<1>1. m.clippees[g] \in Seq(Object)
  BY <1>0 DEF Known, Model
<1> PICK c : c = Head(m.clippees[g])
  OBVIOUS
<1>2. c \in Object /\ c \in ToSet(m.clippees[g])
  BY <1>0, <1>1, HeadAndTail
<1>3. nesting[g] < nesting[c] /\ nesting[c] \in 0 .. StencilSize - 1 /\ nesting[g] \in 0 .. StencilSize - 1
  BY <1>0, <1>2 DEF Known, NestingFits
<1>4. StencilSize \in Nat
  BY SceneAssumption
<1> QED BY <1>0, <1>3, <1>4 DEF Nested

LEMMA LeaveWalk ==
  ASSUME NEW inside, NEW nesting, DisplayInv, LeaveGroup,
         Known(model, inside, nesting), WalkOn(model, inside, nesting, stack, builder, list, clean)
  PROVE  WalkOn(model, inside, nesting, stack', builder', list, clean')
<1> PICK m, after, top : m = model /\ after = stack' /\ top = stack[Len(stack)]
  OBVIOUS
<1> PICK b, c : b = EndItems(builder, top.start, top.end) /\ c = builder'
  OBVIOUS
<1>1. PICK s, q, owner, V : /\ Walk(m, inside, nesting, stack, builder, s, q, owner, V)
                            /\ CleanOK(clean, list, s, Items(builder))
  BY DEF WalkOn
<1>2. /\ Len(stack) > 1 /\ top.rest = <<>>
      /\ c = [b EXCEPT !.clip_depth = b.clip_depth - 1]
      /\ after = Front(stack)
      /\ clean' = IF Len(stack) = 2 THEN clean \cup {<<list, Items(c)>>} ELSE clean
  BY DEF LeaveGroup, Top, Last, Items
<1>3. /\ stack \in Seq(Calls) /\ builder \in Placed
      /\ \A i \in 1..Len(stack) : CallFits(stack[i], builder)
  BY DEF DisplayInv
<1>4. m \in Model
  BY DEF Known
<1>5. PICK e, s0, q0 : e = Len(stack) - 1 /\ s0 = s[Items(builder)] /\ q0 = q[Items(builder)]
  OBVIOUS
<1>6. Returns(stack, after)
  BY <1>2, <1>3, FrontOf
<1>7. /\ e \in Nat /\ e > 0 /\ Len(stack) = e + 1 /\ Len(after) = e /\ e + 1 \in 1 .. e + 1
      /\ \A k \in 1..e : after[k] = stack[k]
  BY <1>5, <1>6 DEF Returns
<1>8. /\ builder.clip_depth = e /\ Executes(m, builder.items, s, q) /\ AtMost(s0, e)
      /\ ToSet(stack[1].rest) \subseteq ToSet(m.objects)
      /\ Groups(m, inside, nesting, builder, s0, stack, owner)
      /\ Progress(m, inside, q0, V, Waiting(stack))
  BY <1>1, <1>5 DEF Walk
<1>9. s0 \in Values
  <2>1. s \in [Nat -> Values]
    BY <1>8 DEF Executes
  <2>2. Items(builder) \in Nat
    BY <1>3, LenProperties DEF Items, Placed, Builders
  <2> QED BY <1>5, <2>1, <2>2
<1>10. PICK g, k, U : g = owner[k] /\ k = e + 1 /\ U = ClipArea(m, g)
  OBVIOUS
<1>11. GroupOK(m, inside, nesting, builder, s0, top, g, k)
  <2>1. k \in 2..Len(stack) /\ top = stack[k]
    BY <1>7, <1>10
  <2> QED BY <1>8, <1>10, <2>1 DEF Groups
<1>12. /\ Level(s0, e) \subseteq U
       /\ HaveShapes(m, builder, top.start, top.end)
       /\ ItemsArea(m, builder, top.start, top.end) = U
  <2>1. k - 1 = e
    BY <1>7, <1>10
  <2> QED BY <1>10, <1>11, <2>1 DEF GroupOK
<1>13. Grouped(builder, s)
  <2>1. Nested(e)
    BY <1>7, <1>10, <1>11, GroupNested
  <2> QED BY <1>5, <1>8, <1>9, <2>1 DEF Grouped
<1>14. top \in Calls /\ CallFits(top, builder)
  <2>1. Len(stack) \in 1..Len(stack)
    BY <1>7
  <2> QED BY <1>3, <2>1, ElementOfSeq
<1>15. Spans(builder, top.start, top.end)
  BY <1>14 DEF Calls, CallFits, Spans
<1>16. Lowers(builder, s, q, b, U)
  <2>1. Lowers(builder, s, q, b, ItemsArea(m, builder, top.start, top.end))
    BY <1>3, <1>4, <1>8, <1>12, <1>13, <1>15, EndsLower
  <2> QED BY <1>12, <2>1
<1>17. PICK t, u : /\ Continues(builder, s, b, t, u)
                   /\ t[Items(b)] = Lowered(s0, e, U) /\ u[Items(b)] = q0
  BY <1>5, <1>8, <1>16 DEF Lowers
<1>18. /\ b \in Placed /\ b.clip_depth = e /\ Keeps(builder, b)
       /\ Executes(m, b.items, t, u) /\ \A j \in 0..Items(builder) : t[j] = s[j]
  BY <1>8, <1>17 DEF Continues
<1>19. /\ c \in Placed /\ c.items = b.items /\ c.clip_depth = e - 1 /\ Items(c) = Items(b)
       /\ Keeps(builder, c)
  <2>1. PICK f : f = e - 1
    OBVIOUS
  <2>2. f \in Int
    BY <1>7, <2>1
  <2>3. c = WithDepth(b, f)
    BY <1>2, <1>18, <2>1 DEF WithDepth
  <2>4. /\ c \in Placed /\ c.items = b.items /\ c.clip_depth = f /\ Items(c) = Items(b)
        /\ \A a : Keeps(a, b) => Keeps(a, c)
    <3>1. b \in Placed
      BY <1>18
    <3>2. /\ WithDepth(b, f) \in Placed /\ WithDepth(b, f).items = b.items
          /\ WithDepth(b, f).clip_depth = f /\ Items(WithDepth(b, f)) = Items(b)
          /\ \A a : Keeps(a, b) => Keeps(a, WithDepth(b, f))
      BY <2>2, <3>1, DepthSet
    <3> QED BY <2>3, <3>2
  <2> QED BY <1>18, <2>1, <2>4
<1>20. PICK t0 : t0 = t[Items(c)]
  OBVIOUS
<1>21. LowersTo(s0, t0, e)
  <2>1. t0 = Lowered(s0, e, U)
    BY <1>17, <1>19, <1>20
  <2>2. LowersTo(s0, Lowered(s0, e, U), e)
    BY <1>7, <1>8, <1>9, <1>12, LoweredLevels
  <2> QED BY <2>1, <2>2
<1>22. Items(builder) \in Nat /\ Items(c) \in Nat /\ Items(builder) <= Items(c)
  BY <1>3, <1>19, ItemsGrow
<1>23. Groups(m, inside, nesting, c, t0, after, owner)
  <2>1. PICK last : last = e
    OBVIOUS
  <2>2. /\ last \in Nat /\ last <= Len(stack)
        /\ \A j \in 0 .. last - 1 : Level(t0, j) = Level(s0, j)
        /\ \A j \in 1..last : /\ ToSet(after[j].rest) \subseteq ToSet(stack[j].rest)
                              /\ after[j].start = stack[j].start /\ after[j].end = stack[j].end
        /\ \A j \in 2..last : owner[j] = owner[j]
    <3>1. last \in Nat /\ last <= Len(stack)
      BY <1>7, <2>1
    <3>2. \A j \in 0 .. last - 1 : Level(t0, j) = Level(s0, j)
      BY <1>21, <2>1 DEF LowersTo
    <3> QED BY <1>7, <2>1, <3>1, <3>2
  <2>3. \A j \in 2..last : GroupOK(m, inside, nesting, c, t0, after[j], owner[j], j)
    BY <1>3, <1>8, <1>19, <2>2, GroupsStayOpen
  <2> QED BY <1>7, <2>1, <2>3 DEF Groups
<1>24. Progress(m, inside, u[Items(c)], V, Waiting(after))
  <2>1. Waiting(after) = Waiting(stack)
    BY <1>2, <1>6, NobodyWaits
  <2> QED BY <1>8, <1>17, <1>19, <2>1
<1>25. ToSet(after[1].rest) \subseteq ToSet(m.objects)
  <2>1. 1 \in 1..e
    BY <1>7
  <2> QED BY <1>7, <1>8, <2>1
<1>26. AtMost(t0, e - 1)
  BY <1>21 DEF LowersTo
<1>27. Walk(m, inside, nesting, after, c, t, u, owner, V)
  <2>1. Len(after) - 1 = e - 1
    BY <1>7
  <2> QED BY <1>18, <1>19, <1>20, <1>23, <1>24, <1>25, <1>26, <2>1 DEF Walk
<1>28. CleanOK(clean', list, t, Items(c))
  <2>1. CleanOK(clean, list, t, Items(c))
    BY <1>1, <1>18, <1>22, CleanStays
  <2>2. CASE Len(stack) = 2
    <3>1. e - 1 = 0
      <4>1. e \in Nat /\ e + 1 = 2
        BY <1>7, <2>2
      <4> QED BY <4>1
    <3>2. t0 \in Values
      BY <1>18, <1>20, <1>22 DEF Executes
    <3>3. t[Items(c)] = Zero
      BY <1>20, <1>26, <3>1, <3>2, NothingMarked
    <3>4. CleanOK(clean \cup {<<list, Items(c)>>}, list, t, Items(c))
      BY <1>22, <2>1, <3>3, CleanAdded
    <3> QED BY <1>2, <2>2, <3>4
  <2> QED BY <1>2, <2>1, <2>2
<1> QED BY <1>27, <1>28 DEF WalkOn

(***************************************************************************)
(* Where a list begins and where it is done.                               *)
(***************************************************************************)
RightPaint(m, paint) ==
  \A o \in Object :
    /\ paint[o] \subseteq Visible(m)[o]
    /\ IsDrawn(m, o) /\ ~IsClipper(m, o) => paint[o] = Visible(m)[o]

\* What drawing the items of the finished list l does.
DoneBy(m, l, items, cl, s, q) ==
  /\ Executes(m, items, s, q)
  /\ CleanOK(cl, l, s, Len(items))
  /\ s[Len(items)] = Zero
  /\ RightPaint(m, q[Len(items)])

Done(m, l, items, cl) == \E s, q : DoneBy(m, l, items, cl, s, q)

LEMMA OrderIsAll ==
  ASSUME NEW objects, NEW shape, objects \in Seq(Object), NEW order \in RenderOrders(objects, shape)
  PROVE  order \in Seq(Object) /\ ToSet(order) = ToSet(objects)
<1>1. order \in Seq(Object)
  BY OrdersOfObjects
<1>2. CASE order = objects
  BY <1>1, <1>2
<1>3. CASE order \in SetToSeqs(ToSet(objects))
  <2> PICK S : S = ToSet(objects)
    OBVIOUS
  <2>1. S = {objects[i] : i \in 1..Len(objects)} /\ Len(objects) \in Nat
    BY LenProperties DEF ToSet
  <2>2. IsFiniteSet(S)
    <3> DEFINE f == [i \in 1..Len(objects) |-> objects[i]]
    <3>1. f \in Surjection(1..Len(objects), S)
      BY <2>1 DEF Surjection
    <3> HIDE DEF f
    <3>2. IsFiniteSet(1..Len(objects))
      <4>1. PICK n : n = Len(objects)
        OBVIOUS
      <4>2. n \in Nat
        BY <2>1, <4>1
      <4>3. IsFiniteSet(1..n)
        BY <4>2, FS_Interval
      <4> QED BY <4>1, <4>3
    <3> QED BY <3>1, <3>2, FS_Surjection
  <2>3. /\ order \in Seq(S)
        /\ \A x \in S : \E i \in 1..Len(order) : order[i] = x
    BY <1>3, <2>2, SetToSeqsProperties
  <2>4. \A i \in 1..Len(order) : order[i] \in S
    BY <2>3, ElementOfSeq
  <2>5. DOMAIN order = 1..Len(order)
    BY <1>1, LenProperties
  <2> QED BY <1>1, <2>3, <2>4, <2>5 DEF ToSet
<1> QED BY <1>2, <1>3 DEF RenderOrders

LEMMA WalkStarts ==
  ASSUME NEW m, NEW inside, NEW nesting, NEW l, NEW cl, NEW order, Known(m, inside, nesting),
         order \in RenderOrders(m.objects, m.shape), \A i : <<l, i>> \notin cl
  PROVE  WalkOn(m, inside, nesting, <<[rest |-> order, start |-> 0, end |-> 0]>>, NewBuilder, l, cl)
<1> PICK entry, st : entry = [rest |-> order, start |-> 0, end |-> 0] /\ st = <<entry>>
  OBVIOUS
<1> PICK s, q : s = [k \in Nat |-> Zero] /\ q = [k \in Nat |-> NoPaint]
  OBVIOUS
<1>0. m \in Model /\ m.objects \in Seq(Object)
  BY DEF Known, Model
<1>1. ToSet(order) = ToSet(m.objects)
  BY <1>0, OrderIsAll
<1>2. NewBuilder.clip_depth = 0 /\ NewBuilder.items = <<>> /\ Items(NewBuilder) = 0
  <2>1. Len(<<>>) = 0
    OBVIOUS
  <2> QED BY <2>1 DEF NewBuilder, Items
<1>3. Len(st) = 1 /\ st[1] = entry /\ entry.rest = order
  OBVIOUS
<1>4. s[0] = Zero /\ q[0] = NoPaint
  OBVIOUS
<1>5. Executes(m, <<>>, s, q)
  <2>1. Zero \in Values /\ NoPaint \in Paints
    BY DEF Zero, Values, NoPaint, Paints
  <2>2. s \in [Nat -> Values] /\ q \in [Nat -> Paints]
    BY <2>1
  <2>3. 1..Len(<<>>) = {}
    OBVIOUS
  <2> QED BY <1>4, <2>2, <2>3 DEF Executes
<1>6. AtMost(Zero, 0)
  BY DEF AtMost, Zero
<1>7. Groups(m, inside, nesting, NewBuilder, Zero, st, s)
  <2>1. 2..1 = {}
    OBVIOUS
  <2> QED BY <1>3, <2>1 DEF Groups
<1>8. Waiting(st) = ToSet(order)
  <2>1. \A x : x \in Waiting(st) <=> \E k \in 1..1 : x \in ToSet(st[k].rest)
    BY <1>3 DEF Waiting
  <2>2. \A k : k \in 1..1 <=> k = 1
    OBVIOUS
  <2> QED BY <1>3, <2>1, <2>2
<1>9. Progress(m, inside, NoPaint, {}, Waiting(st))
  BY <1>1, <1>8 DEF Progress, NoPaint
<1>10. Walk(m, inside, nesting, st, NewBuilder, s, q, s, {})
  <2>1. Len(st) - 1 = 0
    BY <1>3
  <2> QED BY <1>1, <1>2, <1>3, <1>4, <1>5, <1>6, <1>7, <1>9, <2>1 DEF Walk
<1>11. CleanOK(cl, l, s, 0)
  BY DEF CleanOK
<1> QED BY <1>2, <1>10, <1>11 DEF WalkOn

\* When nothing waits, the turn of every object below a group has been.
LEMMA AllHadTheirTurn ==
  ASSUME NEW m, NEW nesting, NEW V, m \in Model, IsTree(m), NestingFits(m, nesting),
         V \subseteq Object, ToSet(m.objects) \subseteq V, \A g \in V : ToSet(m.clippees[g]) \subseteq V,
         NEW o, o \in Object, ClippedBy(m, o) # {}
  PROVE  o \in V
<1> DEFINE Missed == {x \in Object : ClippedBy(m, x) # {} /\ x \notin V}
           Depths == {nesting[x] : x \in Missed}
<1>1. \A x \in Object : nesting[x] \in Nat
  <2>1. StencilSize \in Nat
    BY SceneAssumption
  <2> QED BY <2>1 DEF NestingFits
<1>2. ASSUME NEW x \in Missed PROVE \E y \in Missed : nesting[y] < nesting[x]
  <2> PICK g : g \in ClippedBy(m, x)
    OBVIOUS
  <2>1. g \in Object /\ x \in ToSet(m.clippees[g])
    BY DEF ClippedBy
  <2>2. m.clippees[g] # <<>>
    BY <2>1, NothingInEmpty
  <2>3. g \in ToSet(m.objects) \/ ClippedBy(m, g) # {}
    BY <2>1, <2>2 DEF IsTree
  <2>4. g \notin V
    BY <2>1
  <2>5. nesting[g] < nesting[x]
    BY <2>1 DEF NestingFits
  <2> QED BY <2>1, <2>3, <2>4, <2>5
<1>3. Depths \subseteq Nat
  BY <1>1
<1>4. \A x \in Missed : nesting[x] \in Depths
  OBVIOUS
<1>5. \A d \in Depths : \E x \in Missed : d = nesting[x]
  OBVIOUS
<1>6. Missed = {}
  <2> SUFFICES ASSUME Missed # {} PROVE FALSE
    OBVIOUS
  <2>1. Depths \in SUBSET Nat /\ Depths # {}
    BY <1>3
  <2> HIDE DEF Missed, Depths
  <2>2. PICK d \in Depths : \A e \in Depths : d <= e
    BY <2>1, MinExists
  <2>3. PICK x \in Missed : d = nesting[x]
    BY <1>5
  <2>4. PICK y \in Missed : nesting[y] < nesting[x]
    BY <1>2
  <2>5. d <= nesting[y] /\ nesting[y] \in Nat /\ d \in Nat
    BY <1>3, <1>4, <2>2
  <2> QED BY <2>3, <2>4, <2>5
<1> QED BY <1>6

LEMMA WalkEnds ==
  ASSUME NEW m, NEW inside, NEW nesting, NEW st, NEW b, NEW l, NEW cl, Known(m, inside, nesting),
         b \in Placed, WalkOn(m, inside, nesting, st, b, l, cl), Len(st) = 1, st[1].rest = <<>>
  PROVE  Done(m, l, b.items, cl)
<1>0. m \in Model /\ IsTree(m) /\ Clips(m, inside) /\ NestingFits(m, nesting)
  BY DEF Known
<1>1. PICK s, q, owner, V : /\ Walk(m, inside, nesting, st, b, s, q, owner, V)
                            /\ CleanOK(cl, l, s, Items(b))
  BY DEF WalkOn
<1> PICK paint : paint = q[Items(b)]
  OBVIOUS
<1>2. Waiting(st) = {}
  <2>1. \A x : x \in Waiting(st) <=> \E k \in 1..1 : x \in ToSet(st[k].rest)
    BY DEF Waiting
  <2>2. \A k : k \in 1..1 <=> k = 1
    OBVIOUS
  <2> QED BY <2>1, <2>2, NothingInEmpty
<1>3. /\ Executes(m, b.items, s, q) /\ AtMost(s[Items(b)], 0)
      /\ Progress(m, inside, paint, V, {})
  <2>1. Len(st) - 1 = 0
    OBVIOUS
  <2> QED BY <1>1, <1>2, <2>1 DEF Walk
<1>4. s[Items(b)] = Zero
  <2>1. s \in [Nat -> Values]
    BY <1>3 DEF Executes
  <2>2. Items(b) \in Nat
    BY LenProperties DEF Items, Placed, Builders
  <2> QED BY <1>3, <2>1, <2>2, NothingMarked
<1>5. /\ V \subseteq Object /\ ToSet(m.objects) \subseteq V
      /\ \A g \in V : ToSet(m.clippees[g]) \subseteq V
      /\ \A o \in Object : paint[o] \subseteq SeenArea(m, inside, o)
      /\ \A g \in V : m.clippees[g] = <<>> =>
           \A c \in Clippers(m, g) : m.material[c] # "none" => SeenArea(m, inside, c) \subseteq paint[c]
  BY <1>3 DEF Progress
<1>6. \A o \in Object : ClippedBy(m, o) # {} => o \in V
  BY <1>0, <1>5, AllHadTheirTurn
<1>7. \A o \in Object : Visible(m)[o] = SeenArea(m, inside, o)
  BY <1>0 DEF Clips, SeenArea
<1>8. ASSUME NEW o \in Object, IsDrawn(m, o), ~IsClipper(m, o)
      PROVE  SeenArea(m, inside, o) \subseteq paint[o]
  <2>1. m.material[o] # "none" /\ \A g \in Object : o \in Clippers(m, g) => m.clippees[g] = <<>>
    BY <1>8 DEF IsDrawn, IsClipper
  <2>2. CASE o \in V
    <3>1. o \in Clippers(m, o)
      BY DEF Clippers
    <3> QED BY <1>5, <2>1, <2>2, <3>1
  <2>3. CASE o \notin V
    <3>1. ClipsFor(m, o) # {}
      BY <1>5, <1>6, <1>8, <2>3 DEF IsDrawn, Above
    <3>2. PICK g : g \in ClipsFor(m, o)
      BY <3>1
    <3>3. g \in Object /\ o \in ToSet(m.clippers[g])
      BY <3>2 DEF ClipsFor
    <3>4. m.clippers[g] # <<>>
      BY <3>3, NothingInEmpty
    <3>5. g \in V
      BY <1>0, <1>5, <1>6, <3>3, <3>4 DEF IsTree
    <3>6. o \in Clippers(m, g)
      BY <3>3 DEF Clippers
    <3> QED BY <1>5, <2>1, <3>3, <3>5, <3>6
  <2> QED BY <2>2, <2>3
<1>9. RightPaint(m, paint)
  BY <1>5, <1>7, <1>8 DEF RightPaint
<1>10. DoneBy(m, l, b.items, cl, s, q)
  BY <1>1, <1>3, <1>4, <1>9 DEF DoneBy, Items
<1> QED BY <1>10 DEF Done

(***************************************************************************)
(* The lists that are built.                                               *)
(***************************************************************************)
ListsDone == IF stack = <<>> THEN list ELSE list - 1

Walking ==
  \E inside, nesting :
    /\ Known(model, inside, nesting)
    /\ WalkOn(model, inside, nesting, stack, builder, list, clean)

AllDone == \A l \in 1..Len(lists) : Done(scene[l], l, lists[l], clean)
CleanAreBuilt == \A l, i : <<l, i>> \in clean => l \in 1..list

BuildInv ==
  /\ lists \in Seq(Seq(DisplayItems))
  /\ Len(lists) = ListsDone
  /\ AllDone
  /\ CleanAreBuilt
  /\ stack # <<>> => Walking

LEMMA KnownModel ==
  ASSUME scene \in Scenes, NEW l, l \in 1..Len(scene)
  PROVE  \E inside, nesting : Known(scene[l], inside, nesting)
<1>1. scene \in Seq(Model) /\ l \in DOMAIN scene /\ scene[l] \in Model
  BY SceneType, LenProperties, ElementOfSeq
<1>2. IsTree(scene[l])
  BY <1>1, TreeAssumption
<1>3. PICK nesting : NestingFits(scene[l], nesting)
  BY <1>1, TreeAssumption DEF NestingFits
<1>4. PICK inside : Clips(scene[l], inside)
  BY <1>1, <1>2, ClipsExists
<1> QED BY <1>1, <1>2, <1>3, <1>4 DEF Known

LEMMA DoneStays ==
  ASSUME NEW m, NEW l, NEW items, NEW cl, NEW later, Done(m, l, items, cl),
         \A i : <<l, i>> \in later => <<l, i>> \in cl
  PROVE  Done(m, l, items, later)
<1> PICK s, q : DoneBy(m, l, items, cl, s, q)
  BY DEF Done
<1>1. DoneBy(m, l, items, later, s, q)
  BY DEF DoneBy, CleanOK
<1> QED BY <1>1 DEF Done

\* A step of the traversal.
LEMMA WalkedOn ==
  ASSUME DisplayInv, BuildInv, stack # <<>>, stack' # <<>>, scene' = scene, list' = list, lists' = lists,
         Walking', NEW k, clean' \subseteq clean \cup {<<list, k>>}
  PROVE  BuildInv'
<1>1. Len(lists) = list - 1 /\ lists \in Seq(Seq(DisplayItems))
  BY DEF BuildInv, ListsDone
<1>2. list \in 0..Len(scene) /\ list # 0 /\ Len(scene) \in Nat
  BY SceneType DEF DisplayInv
<1>3. Len(lists') = ListsDone'
  BY <1>1 DEF ListsDone
<1>4. list \in 1..list
  BY <1>2
<1>5. CleanAreBuilt'
  BY <1>4 DEF CleanAreBuilt, BuildInv
<1>6. AllDone'
  <2>1. \A l \in 1..Len(lists) : l # list
    BY <1>1, <1>2
  <2>2. ASSUME NEW l \in 1..Len(lists) PROVE Done(scene[l], l, lists[l], clean')
    <3>1. Done(scene[l], l, lists[l], clean)
      BY DEF BuildInv, AllDone
    <3>2. \A i : <<l, i>> \in clean' => <<l, i>> \in clean
      BY <2>1
    <3> QED BY <3>1, <3>2, DoneStays
  <2> QED BY <2>2 DEF AllDone
<1> QED BY <1>1, <1>3, <1>5, <1>6 DEF BuildInv

LEMMA SameModel == scene' = scene /\ list' = list => model' = model
  BY DEF model

LEMMA BuildInitially == DisplayInit => BuildInv
<1> SUFFICES ASSUME DisplayInit PROVE BuildInv
  OBVIOUS
<1>1. lists = <<>> /\ list = 0 /\ stack = <<>> /\ clean = {}
  BY DEF DisplayInit
<1>2. <<>> \in Seq(Seq(DisplayItems)) /\ Len(<<>>) = 0 /\ 1..0 = {}
  OBVIOUS
<1> QED BY <1>1, <1>2 DEF BuildInv, ListsDone, AllDone, CleanAreBuilt

LEMMA BeginDisplayListBuilds == DisplayInv /\ BuildInv /\ BeginDisplayList => BuildInv'
<1> SUFFICES ASSUME DisplayInv, BuildInv, BeginDisplayList PROVE BuildInv'
  OBVIOUS
<1>1. /\ stack = <<>> /\ list < Len(scene) /\ list' = list + 1 /\ builder' = NewBuilder
      /\ scene' = scene /\ lists' = lists /\ clean' = clean
  BY DEF BeginDisplayList
<1>2. /\ scene \in Scenes /\ list \in 0..Len(scene) /\ Len(scene) \in Nat
  BY SceneType DEF DisplayInv
<1>3. list' \in 1..Len(scene) /\ list' - 1 = list /\ list' \notin 1..list /\ 1..list \subseteq 1..list'
  BY <1>1, <1>2
<1> PICK m, l : m = scene[list'] /\ l = list'
  OBVIOUS
<1>4. PICK order \in RenderOrders(m.objects, m.shape) :
        stack' = <<[rest |-> order, start |-> 0, end |-> 0]>>
  BY DEF BeginDisplayList
<1>5. stack' # <<>>
  BY <1>4
<1>6. \A i : <<l, i>> \notin clean
  BY <1>3 DEF BuildInv, CleanAreBuilt
<1>7. Walking'
  <2>1. PICK inside, nesting : Known(m, inside, nesting)
    BY <1>2, <1>3, KnownModel
  <2>2. WalkOn(m, inside, nesting, <<[rest |-> order, start |-> 0, end |-> 0]>>, NewBuilder, l, clean)
    BY <1>6, <2>1, WalkStarts
  <2>3. model' = m
    BY <1>1 DEF model
  <2> QED BY <1>1, <1>4, <2>1, <2>2, <2>3 DEF Walking
<1>8. lists' \in Seq(Seq(DisplayItems)) /\ AllDone'
  BY <1>1 DEF BuildInv, AllDone
<1>9. Len(lists') = ListsDone'
  BY <1>1, <1>3, <1>5 DEF BuildInv, ListsDone
<1>10. CleanAreBuilt'
  BY <1>1, <1>3 DEF BuildInv, CleanAreBuilt
<1> QED BY <1>7, <1>8, <1>9, <1>10 DEF BuildInv

LEMMA GroupBuilds == DisplayInv /\ BuildInv /\ AddClipperAndClippeeObjects => BuildInv'
<1> SUFFICES ASSUME DisplayInv, BuildInv, AddClipperAndClippeeObjects PROVE BuildInv'
  OBVIOUS
<1>1. stack # <<>> /\ scene' = scene /\ list' = list /\ lists' = lists /\ clean' = clean
  BY DEF AddClipperAndClippeeObjects
<1>2. PICK inside, nesting : /\ Known(model, inside, nesting)
                             /\ WalkOn(model, inside, nesting, stack, builder, list, clean)
  BY <1>1 DEF BuildInv, Walking
<1>3. WalkOn(model, inside, nesting, stack', builder', list, clean)
  BY <1>2, GroupWalk
<1>4. Walking'
  BY <1>1, <1>2, <1>3, SameModel DEF Walking
<1>5. stack' # <<>>
  <2>1. PICK entry, after : /\ after = [stack EXCEPT ![Len(stack)].rest = Tail(@)]
                           /\ stack' = Append(after, entry)
    BY DEF AddClipperAndClippeeObjects
  <2>2. DisplayInv'
    BY AddClipperAndClippeeObjectsInv
  <2>3. Top.rest # <<>>
    BY DEF AddClipperAndClippeeObjects
  <2>4. after \in Seq(Calls)
    BY <1>1, <2>1, <2>3, NextObject
  <2> QED BY <2>1, <2>4
<1> QED BY <1>1, <1>4, <1>5, WalkedOn

LEMMA LeafBuilds == DisplayInv /\ BuildInv /\ AddObject => BuildInv'
<1> SUFFICES ASSUME DisplayInv, BuildInv, AddObject PROVE BuildInv'
  OBVIOUS
<1>1. /\ stack # <<>> /\ scene' = scene /\ list' = list /\ lists' = lists
      /\ clean' \subseteq clean \cup {<<list, Len(builder'.items)>>}
  BY DEF AddObject
<1>2. PICK inside, nesting : /\ Known(model, inside, nesting)
                             /\ WalkOn(model, inside, nesting, stack, builder, list, clean)
  BY <1>1 DEF BuildInv, Walking
<1>3. WalkOn(model, inside, nesting, stack', builder', list, clean')
  BY <1>2, LeafWalk
<1>4. Walking'
  BY <1>1, <1>2, <1>3, SameModel DEF Walking
<1>5. stack' # <<>>
  <2>1. stack' = [stack EXCEPT ![Len(stack)].rest = Tail(@)] /\ Top.rest # <<>>
    BY DEF AddObject
  <2> QED BY <1>1, <2>1, NextObject
<1> QED BY <1>1, <1>4, <1>5, WalkedOn

LEMMA LeaveBuilds == DisplayInv /\ BuildInv /\ LeaveGroup => BuildInv'
<1> SUFFICES ASSUME DisplayInv, BuildInv, LeaveGroup PROVE BuildInv'
  OBVIOUS
<1>1. /\ Len(stack) > 1 /\ scene' = scene /\ list' = list /\ lists' = lists /\ stack' = Front(stack)
      /\ clean' \subseteq clean \cup {<<list, Len(builder'.items)>>}
  BY DEF LeaveGroup
<1>2. stack \in Seq(Calls) /\ stack # <<>>
  BY <1>1 DEF DisplayInv
<1>3. PICK inside, nesting : /\ Known(model, inside, nesting)
                             /\ WalkOn(model, inside, nesting, stack, builder, list, clean)
  BY <1>2 DEF BuildInv, Walking
<1>4. WalkOn(model, inside, nesting, stack', builder', list, clean')
  BY <1>3, LeaveWalk
<1>5. Walking'
  BY <1>1, <1>3, <1>4, SameModel DEF Walking
<1>6. stack' # <<>>
  <2>1. Len(stack') = Len(stack) - 1 /\ Len(stack) \in Nat
    BY <1>1, <1>2, FrontOf DEF Returns
  <2>2. Len(stack') # 0
    BY <1>1, <2>1
  <2> QED BY <2>2
<1> QED BY <1>1, <1>2, <1>5, <1>6, WalkedOn

LEMMA ListBuilt == DisplayInv /\ BuildInv /\ Build => BuildInv'
<1> SUFFICES ASSUME DisplayInv, BuildInv, Build PROVE BuildInv'
  OBVIOUS
<1> PICK items : items = builder.items
  OBVIOUS
<1>1. /\ Len(stack) = 1 /\ stack[Len(stack)].rest = <<>> /\ lists' = Append(lists, items)
      /\ scene' = scene /\ list' = list /\ stack' = <<>> /\ clean' = clean
  BY DEF Build, Top, Last
<1>2. stack # <<>> /\ builder \in Placed /\ items \in Seq(DisplayItems)
  <2>1. stack # <<>>
    <3>1. Len(<<>>) = 0
      OBVIOUS
    <3> QED BY <1>1, <3>1
  <2>2. builder \in Placed
    BY DEF DisplayInv
  <2> QED BY <2>1, <2>2 DEF Placed, Builders
<1>3. list \in 0..Len(scene) /\ Len(scene) \in Nat
  BY SceneType DEF DisplayInv
<1>4. lists \in Seq(Seq(DisplayItems)) /\ Len(lists) = list - 1 /\ AllDone
  BY <1>2 DEF BuildInv, ListsDone
<1> PICK n : n = Len(lists)
  OBVIOUS
<1>5. n \in Nat /\ n + 1 = list
  BY <1>3, <1>4, LenProperties
<1>6. Done(model, list, items, clean)
  <2>1. PICK inside, nesting : /\ Known(model, inside, nesting)
                               /\ WalkOn(model, inside, nesting, stack, builder, list, clean)
    BY <1>2 DEF BuildInv, Walking
  <2>2. stack[1].rest = <<>>
    BY <1>1
  <2> QED BY <1>1, <1>2, <2>1, <2>2, WalkEnds
<1>7. /\ lists' \in Seq(Seq(DisplayItems)) /\ Len(lists') = n + 1
      /\ \A l \in 1..n : lists'[l] = lists[l]
      /\ lists'[n + 1] = items
  BY <1>1, <1>2, <1>4, AppendProperties
<1>8. ListsDone' = list
  BY <1>1 DEF ListsDone
<1>9. AllDone'
  <2>1. \A l \in 1..Len(lists') : l \in 1..n \/ l = list
    BY <1>5, <1>7
  <2>2. ASSUME NEW l \in 1..n PROVE Done(scene'[l], l, lists'[l], clean')
    BY <1>1, <1>4, <1>7 DEF AllDone
  <2>3. Done(scene'[list], list, lists'[list], clean')
    <3>1. lists'[list] = items
      BY <1>5, <1>7
    <3>2. scene'[list] = model
      BY <1>1 DEF model
    <3> QED BY <1>1, <1>6, <3>1, <3>2
  <2> QED BY <2>1, <2>2, <2>3 DEF AllDone
<1>10. CleanAreBuilt'
  BY <1>1 DEF BuildInv, CleanAreBuilt
<1> QED BY <1>1, <1>5, <1>7, <1>8, <1>9, <1>10 DEF BuildInv

LEMMA BuildStep ==
  DisplayInv /\ BuildInv /\ [DisplayNext]_displayVars => BuildInv'
<1> SUFFICES ASSUME DisplayInv, BuildInv, [DisplayNext]_displayVars PROVE BuildInv'
  OBVIOUS
<1>1. CASE UNCHANGED buildVars
  BY <1>1 DEF buildVars, BuildInv, ListsDone, AllDone, CleanAreBuilt, Walking, model
<1>2. CASE BeginDisplayList
  BY <1>2, BeginDisplayListBuilds
<1>3. CASE AddClipperAndClippeeObjects
  BY <1>3, GroupBuilds
<1>4. CASE AddObject
  BY <1>4, LeafBuilds
<1>5. CASE LeaveGroup
  BY <1>5, LeaveBuilds
<1>6. CASE Build
  BY <1>6, ListBuilt
<1>7. CASE DrawItem
  BY <1>1, <1>7 DEF DrawItem
<1> QED BY <1>1, <1>2, <1>3, <1>4, <1>5, <1>6, <1>7 DEF DisplayNext, displayVars

(***************************************************************************)
(* The items of all lists, one list after the other.                       *)
(***************************************************************************)
FirstLists(ls, l) == FlattenSeq(SubSeq(ls, 1, l))

\* What the first lists are, list by list.
JoinsUp(ls, n) ==
  /\ FirstLists(ls, 0) = <<>>
  /\ FirstLists(ls, n) = FlattenSeq(ls)
  /\ \A l \in 1..n : FirstLists(ls, l) = FirstLists(ls, l - 1) \o ls[l]
  /\ \A l \in 0..n : FirstLists(ls, l) \in Seq(DisplayItems)

LEMMA PrefixOf ==
  ASSUME NEW S, NEW ls, NEW n, NEW l, ls \in Seq(S), n = Len(ls), l \in 1..n
  PROVE  /\ SubSeq(ls, 1, l) \in Seq(S) /\ Len(SubSeq(ls, 1, l)) = l
         /\ \A i \in 1..l : SubSeq(ls, 1, l)[i] = ls[i] /\ ls[i] \in S
<1>1. n \in Nat /\ l \in Int /\ 1 \in Int /\ 1 <= l
  BY LenProperties
<1>2. \A i \in 1..l : ls[i] \in S
  <2>1. \A i \in 1..l : i \in 1..n
    BY <1>1
  <2> QED BY <2>1, ElementOfSeq
<1>3. /\ SubSeq(ls, 1, l) \in Seq(S)
      /\ Len(SubSeq(ls, 1, l)) = IF 1 <= l THEN l - 1 + 1 ELSE 0
      /\ \A i \in 1 .. l - 1 + 1 : SubSeq(ls, 1, l)[i] = ls[1 + i - 1]
  BY <1>1, <1>2, SubSeqProperties
<1>4. l - 1 + 1 = l /\ \A i \in 1..l : 1 + i - 1 = i
  BY <1>1
<1> QED BY <1>1, <1>2, <1>3, <1>4

LEMMA ListsJoinUp ==
  ASSUME NEW ls, NEW n, ls \in Seq(Seq(DisplayItems)), n = Len(ls)
  PROVE  JoinsUp(ls, n)
<1>1. n \in Nat
  BY LenProperties
<1>2. FirstLists(ls, 0) = <<>>
  <2>1. 1 \in Int /\ 0 \in Int /\ 0 < 1
    OBVIOUS
  <2>2. SubSeq(ls, 1, 0) = <<>>
    BY <2>1, SubSeqEmpty
  <2> QED BY <2>2, FlattenNone DEF FirstLists
<1>3. PICK g : Joined(ls, g, n)
  BY <1>1, JoinedExists
<1>4. ASSUME NEW l, l \in 1..n
      PROVE  FirstLists(ls, l) = g[l] /\ FirstLists(ls, l) \in Seq(DisplayItems)
  <2>1. /\ Len(SubSeq(ls, 1, l)) = l
        /\ \A i \in 1..l : SubSeq(ls, 1, l)[i] = ls[i] /\ ls[i] \in Seq(DisplayItems)
    BY <1>4, PrefixOf
  <2>2. PICK front : front = SubSeq(ls, 1, l)
    OBVIOUS
  <2>3. /\ Len(front) = l /\ \A i \in 1..l : front[i] = ls[i]
        /\ \A i \in 1..l : front[i] \in Seq(DisplayItems)
    BY <2>1, <2>2
  <2>4. l \in Nat \ {0} /\ l <= n
    BY <1>1, <1>4
  <2>5. FlattenSeq(front) = g[l]
    <3>1. Len(front) \in Nat \ {0} /\ Len(front) <= n /\ \A i \in 1..Len(front) : front[i] = ls[i]
      BY <2>3, <2>4
    <3>2. FlattenSeq(front) = g[Len(front)]
      BY <1>1, <1>3, <3>1, FlattenIs
    <3> QED BY <2>3, <3>2
  <2>6. FlattenSeq(front) \in Seq(DisplayItems)
    <3>1. l \in Nat /\ (l = 0 => front = <<>>)
      BY <2>4
    <3> QED BY <2>3, <3>1, FlattenType
  <2> QED BY <2>2, <2>5, <2>6 DEF FirstLists
<1>5. ASSUME NEW l, l \in 1..n
      PROVE  FirstLists(ls, l) = FirstLists(ls, l - 1) \o ls[l]
  <2>1. g[l] = IF l = 1 THEN ls[l] ELSE g[l - 1] \o ls[l]
    BY <1>3, <1>5 DEF Joined
  <2>2. CASE l = 1
    <3>1. ls[l] \in Seq(DisplayItems)
      BY <1>5, ElementOfSeq
    <3>2. FirstLists(ls, l - 1) = <<>>
      <4>1. l - 1 = 0
        BY <2>2
      <4> QED BY <1>2, <4>1
    <3>3. <<>> \o ls[l] = ls[l]
      BY <3>1, ConcatEmptySeq
    <3> QED BY <1>4, <1>5, <2>1, <2>2, <3>2, <3>3
  <2>3. CASE l # 1
    <3>1. l - 1 \in 1..n
      BY <1>1, <1>5, <2>3
    <3> QED BY <1>4, <1>5, <2>1, <2>3, <3>1
  <2> QED BY <2>2, <2>3
<1>6. FirstLists(ls, n) = FlattenSeq(ls)
  <2>1. CASE n = 0
    <3>1. ls = <<>>
      BY <2>1, EmptySeq
    <3> QED BY <1>2, <2>1, <3>1, FlattenNone
  <2>2. CASE n # 0
    <3>1. n \in 1..n /\ n \in Nat \ {0} /\ n <= n
      BY <1>1, <2>2
    <3>2. FlattenSeq(ls) = g[Len(ls)]
      <4>1. Len(ls) \in Nat \ {0} /\ Len(ls) <= n
        BY <3>1
      <4> QED BY <1>1, <1>3, <4>1, FlattenIs
    <3> QED BY <1>4, <3>1, <3>2
  <2> QED BY <2>1, <2>2
<1>7. \A l \in 0..n : FirstLists(ls, l) \in Seq(DisplayItems)
  <2>1. <<>> \in Seq(DisplayItems)
    OBVIOUS
  <2>2. \A l \in 0..n : l = 0 \/ l \in 1..n
    BY <1>1
  <2> QED BY <1>2, <1>4, <2>1, <2>2
<1> QED BY <1>2, <1>5, <1>6, <1>7 DEF JoinsUp

Before(l) == Len(FlattenSeq(SubSeq(lists, 1, l)))

\* Where the list l is among all items.
ListPlaced(l) ==
  /\ Before(l - 1) \in Nat /\ Len(lists[l]) \in Nat
  /\ Before(l) = Before(l - 1) + Len(lists[l])
  /\ Before(l) <= Len(AllItems)
  /\ \A i \in 1..Len(lists[l]) : AllItems[Before(l - 1) + i] = lists[l][i]

ListsPlaced ==
  /\ Before(0) = 0 /\ Before(Len(lists)) = Len(AllItems) /\ Len(AllItems) \in Nat
  /\ \A l \in 1..Len(lists) : ListPlaced(l)

LEMMA ListsArePlaced == lists \in Seq(Seq(DisplayItems)) => ListsPlaced
<1> SUFFICES ASSUME lists \in Seq(Seq(DisplayItems)) PROVE ListsPlaced
  OBVIOUS
<1> PICK n : n = Len(lists)
  OBVIOUS
<1>1. JoinsUp(lists, n)
  BY ListsJoinUp
<1>2. n \in Nat
  BY LenProperties
<1> DEFINE F(l) == FirstLists(lists, l)
           L(l) == Len(lists[l])
<1>3. F(0) = <<>> /\ F(n) = AllItems
  BY <1>1 DEF JoinsUp, AllItems
<1>4. \A l \in 0..n : F(l) \in Seq(DisplayItems) /\ Len(F(l)) \in Nat /\ Before(l) = Len(F(l))
  <2>1. \A l \in 0..n : F(l) \in Seq(DisplayItems)
    BY <1>1 DEF JoinsUp
  <2> QED BY <2>1, LenProperties DEF FirstLists, Before
<1>5. \A l \in 1..n : lists[l] \in Seq(DisplayItems) /\ L(l) \in Nat
  BY ElementOfSeq, LenProperties
<1>6. \A l \in 1..n : l \in 0..n /\ l - 1 \in 0..n
  BY <1>2
<1>7. \A l \in 1..n : F(l) = F(l - 1) \o lists[l]
  BY <1>1 DEF JoinsUp
<1> HIDE DEF F, L
<1>8. ASSUME NEW l \in 1..n
      PROVE  /\ Len(F(l)) = Len(F(l - 1)) + L(l)
             /\ \A i \in 1 .. Len(F(l - 1)) + L(l) :
                  F(l)[i] = IF i <= Len(F(l - 1)) THEN F(l - 1)[i] ELSE lists[l][i - Len(F(l - 1))]
  <2>1. F(l - 1) \in Seq(DisplayItems) /\ lists[l] \in Seq(DisplayItems)
    BY <1>4, <1>5, <1>6
  <2>2. /\ Len(F(l - 1) \o lists[l]) = Len(F(l - 1)) + Len(lists[l])
        /\ \A i \in 1 .. Len(F(l - 1)) + Len(lists[l]) :
             (F(l - 1) \o lists[l])[i] =
               IF i <= Len(F(l - 1)) THEN F(l - 1)[i] ELSE lists[l][i - Len(F(l - 1))]
    BY <2>1, ConcatProperties
  <2> QED BY <1>7, <2>2 DEF L
<1> DEFINE In(l, k) == /\ Len(F(l)) <= Len(F(k))
                       /\ \A i \in 1..L(l) : F(k)[Len(F(l - 1)) + i] = lists[l][i]
           Good(k) == k \in 0..n => \A l \in 1..k : In(l, k)
           good == {k \in Nat : Good(k)}
<1>9. ASSUME NEW l \in 1..n PROVE In(l, l)
  <2>1. Len(F(l - 1)) \in Nat /\ L(l) \in Nat /\ Len(F(l)) \in Nat
    BY <1>4, <1>5, <1>6
  <2>2. PICK a, h, x : a = Len(F(l - 1)) /\ h = L(l) /\ x = lists[l]
    OBVIOUS
  <2>3. \A i \in 1..h : a + i \in 1 .. a + h /\ ~(a + i <= a) /\ (a + i) - a = i
    BY <2>1, <2>2
  <2>4. \A i \in 1 .. a + h : F(l)[i] = IF i <= a THEN F(l - 1)[i] ELSE x[i - a]
    BY <1>8, <2>2
  <2>5. \A i \in 1..h : F(l)[a + i] = x[i]
    BY <2>3, <2>4
  <2> QED BY <2>1, <2>2, <2>5
<1>10. ASSUME NEW k \in 1..n, NEW l \in 1 .. k - 1, In(l, k - 1) PROVE In(l, k)
  <2>1. /\ Len(F(l - 1)) \in Nat /\ L(l) \in Nat /\ Len(F(l)) \in Nat
        /\ Len(F(k - 1)) \in Nat /\ L(k) \in Nat /\ Len(F(k)) \in Nat
        /\ l \in 1..n
    <3>1. l \in 1..n
      BY <1>2
    <3> QED BY <1>4, <1>5, <1>6, <3>1
  <2>2. PICK a, h, x, c, e : a = Len(F(l - 1)) /\ h = L(l) /\ x = lists[l] /\ c = Len(F(k - 1)) /\ e = L(k)
    OBVIOUS
  <2>3. Len(F(l)) = a + h /\ Len(F(k)) = c + e /\ a + h <= c
    BY <1>8, <1>10, <2>1, <2>2
  <2>9. a \in Nat /\ h \in Nat /\ c \in Nat /\ e \in Nat /\ a + h <= c
    BY <2>1, <2>2, <2>3
  <2>4. \A i \in 1..h : a + i \in 1 .. c + e /\ a + i <= c
    BY <2>9
  <2>5. \A i \in 1 .. c + e : F(k)[i] = IF i <= c THEN F(k - 1)[i] ELSE lists[k][i - c]
    BY <1>8, <2>2
  <2>6. \A i \in 1..h : F(k - 1)[a + i] = x[i]
    BY <1>10, <2>2
  <2>7. \A i \in 1..h : F(k)[a + i] = x[i]
    BY <2>4, <2>5, <2>6
  <2>8. Len(F(l)) <= Len(F(k))
    <3>1. a + h <= c + e
      BY <2>9
    <3> QED BY <2>3, <3>1
  <2> QED BY <2>2, <2>7, <2>8
<1> HIDE DEF In
<1>11. Good(n)
  <2>1. 0 \in good
    OBVIOUS
  <2>2. \A k \in 0 .. n - 1 : k \in good => k + 1 \in good
    <3> SUFFICES ASSUME NEW k \in 0 .. n - 1, k \in good PROVE k + 1 \in good
      OBVIOUS
    <3>1. k + 1 \in 1..n /\ (k + 1) - 1 = k /\ k \in 0..n /\ k + 1 \in Nat
      BY <1>2
    <3>2. \A l \in 1 .. k + 1 : l \in 1..k \/ l = k + 1
      BY <1>2
    <3>3. \A l \in 1..k : In(l, k)
      BY <3>1
    <3>4. \A l \in 1 .. k + 1 : In(l, k + 1)
      BY <1>9, <1>10, <3>1, <3>2, <3>3
    <3> QED BY <3>1, <3>4
  <2>3. good \in SUBSET Nat
    OBVIOUS
  <2> HIDE DEF good
  <2>4. n \in good
    BY <1>2, <2>1, <2>2, <2>3, AfterSteps
  <2> QED BY <2>4 DEF good
<1>12. n \in 0..n /\ 0 \in 0..n
  BY <1>2
<1>13. ASSUME NEW l \in 1..n PROVE ListPlaced(l)
  <2>1. In(l, n)
    BY <1>11, <1>12
  <2>2. /\ Before(l - 1) = Len(F(l - 1)) /\ Before(l) = Len(F(l)) /\ Len(F(l - 1)) \in Nat
        /\ L(l) = Len(lists[l]) /\ L(l) \in Nat
    BY <1>4, <1>5, <1>6 DEF L
  <2>3. Before(l) = Before(l - 1) + Len(lists[l])
    BY <1>8, <2>2
  <2>4. /\ Before(l) <= Len(AllItems)
        /\ \A i \in 1..Len(lists[l]) : AllItems[Before(l - 1) + i] = lists[l][i]
    BY <1>3, <2>1, <2>2 DEF In
  <2> QED BY <2>2, <2>3, <2>4 DEF ListPlaced
<1>14. Before(0) = 0 /\ Before(n) = Len(AllItems) /\ Len(AllItems) \in Nat
  <2>1. Len(<<>>) = 0
    OBVIOUS
  <2> QED BY <1>3, <1>4, <1>12, <2>1
<1> QED BY <1>13, <1>14 DEF ListsPlaced

LEMMA BeforeGrows ==
  ASSUME ListsPlaced, lists \in Seq(Seq(DisplayItems))
  PROVE  /\ \A l \in 0..Len(lists) : Before(l) \in Nat
         /\ \A l, k \in 0..Len(lists) : l <= k => Before(l) <= Before(k)
<1> PICK n : n = Len(lists)
  OBVIOUS
<1>0. n \in Nat
  BY LenProperties
<1> DEFINE B(l) == Before(l)
<1>1. B(0) = 0 /\ \A l \in 1..n : B(l - 1) \in Nat /\ B(l) \in Nat /\ B(l - 1) <= B(l)
  BY DEF ListsPlaced, ListPlaced
<1> HIDE DEF B
<1>2. \A l \in 0..n : B(l) \in Nat
  <2>1. \A l \in 0..n : l = 0 \/ l \in 1..n
    BY <1>0
  <2> QED BY <1>1, <2>1
<1>3. ASSUME NEW l \in 0..n PROVE \A k \in 0..n : l <= k => B(l) <= B(k)
  <2> DEFINE Below == {k \in 0..n : l <= k /\ ~(B(l) <= B(k))}
  <2>1. Below \in SUBSET Nat
    BY <1>0
  <2>2. ASSUME NEW k \in Below PROVE \E j \in Below : j < k
    <3>1. k \in 0..n /\ l <= k /\ ~(B(l) <= B(k))
      OBVIOUS
    <3>2. k # l
      BY <1>2, <3>1
    <3>3. k \in 1..n /\ k - 1 \in 0..n /\ l <= k - 1 /\ k - 1 < k
      BY <1>0, <3>1, <3>2
    <3>4. ~(B(l) <= B(k - 1))
      BY <1>1, <1>2, <3>1, <3>3
    <3> QED BY <3>3, <3>4
  <2>3. Below = {}
    <3> SUFFICES ASSUME Below # {} PROVE FALSE
      OBVIOUS
    <3> HIDE DEF Below
    <3>1. PICK k \in Below : \A j \in Below : k <= j
      BY <2>1, MinExists
    <3>2. PICK j \in Below : j < k
      BY <2>2
    <3>3. k <= j /\ j \in Nat /\ k \in Nat
      BY <2>1, <3>1
    <3> QED BY <3>2, <3>3
  <2> QED BY <2>3
<1> QED BY <1>2, <1>3 DEF B

\* The k-th of all items is the i-th of the list l.
IsAt(k, l, i) ==
  /\ l \in 1..Len(lists) /\ i \in 1..Len(lists[l])
  /\ k = Before(l - 1) + i /\ k <= Before(l)
  /\ ListOf(k) = l /\ IndexIn(k) = i
  /\ AllItems[k] = lists[l][i]

LEMMA EveryItemIsAt ==
  ASSUME ListsPlaced, lists \in Seq(Seq(DisplayItems)), NEW k, k \in 1..Len(AllItems)
  PROVE  \E l, i : IsAt(k, l, i)
<1> PICK n : n = Len(lists)
  OBVIOUS
<1> DEFINE B(l) == Before(l)
<1>0. n \in Nat /\ DOMAIN lists = 1..n
  BY LenProperties
<1>1. B(0) = 0 /\ B(n) = Len(AllItems) /\ \A l \in 0..n : B(l) \in Nat
  BY BeforeGrows DEF ListsPlaced
<1>2. \A l, j \in 0..n : l <= j => B(l) <= B(j)
  BY BeforeGrows
<1>3. k \in Nat /\ k > 0 /\ k <= B(n)
  <2>1. Len(AllItems) \in Nat
    BY DEF ListsPlaced
  <2> QED BY <1>1, <2>1
<1> HIDE DEF B
<1> DEFINE Reached == {l \in 0..n : k <= B(l)}
<1>4. PICK l \in 1..n : B(l - 1) < k /\ k <= B(l)
  <2>1. Reached \in SUBSET Nat /\ n \in Reached
    BY <1>0, <1>3
  <2>2. \A j \in Reached : j \in 0..n /\ k <= B(j)
    OBVIOUS
  <2>3. \A j \in 0..n : k <= B(j) => j \in Reached
    OBVIOUS
  <2> HIDE DEF Reached
  <2>4. PICK l \in Reached : \A j \in Reached : l <= j
    BY <2>1, MinExists
  <2>5. l \in 0..n /\ k <= B(l) /\ l # 0
    BY <1>1, <1>3, <2>2
  <2>6. l \in 1..n /\ l - 1 \in 0..n /\ ~(l <= l - 1)
    BY <1>0, <2>5
  <2>7. ~(k <= B(l - 1))
    BY <2>3, <2>4, <2>6
  <2>8. B(l - 1) \in Nat
    BY <1>1, <2>6
  <2>9. B(l - 1) < k
    BY <1>3, <2>7, <2>8
  <2> QED BY <2>5, <2>6, <2>9
<1>5. ASSUME NEW a \in 1..n, NEW b \in 1..n, B(a - 1) < k, k <= B(a), B(b - 1) < k, k <= B(b)
      PROVE  ~(a < b)
  <2> SUFFICES ASSUME a < b PROVE FALSE
    OBVIOUS
  <2>1. a \in 0..n /\ b - 1 \in 0..n /\ a <= b - 1
    BY <1>0
  <2>2. B(a) <= B(b - 1) /\ B(a) \in Nat /\ B(b - 1) \in Nat
    BY <1>1, <1>2, <2>1
  <2> QED BY <1>3, <1>5, <2>2
<1>6. \A j \in 1..n : B(j - 1) < k /\ k <= B(j) => j = l
  <2>1. ASSUME NEW j \in 1..n, B(j - 1) < k, k <= B(j) PROVE ~(j < l) /\ ~(l < j)
    BY <1>4, <1>5, <2>1
  <2> QED BY <1>0, <2>1
<1>7. ListOf(k) = l
  <2>1. ListOf(k) = CHOOSE j \in 1..n : B(j - 1) < k /\ k <= B(j)
    BY <1>0 DEF ListOf, B, Before
  <2> QED BY <1>4, <1>6, <2>1
<1>8. ListPlaced(l)
  BY DEF ListsPlaced
<1>9. PICK a, i : a = B(l - 1) /\ i = k - a
  OBVIOUS
<1>10. a \in Nat /\ Len(lists[l]) \in Nat /\ B(l) = a + Len(lists[l])
  BY <1>8, <1>9 DEF ListPlaced, B
<1>11. i \in 1..Len(lists[l]) /\ k = a + i
  BY <1>3, <1>4, <1>9, <1>10
<1>12. IndexIn(k) = i
  BY <1>7, <1>9 DEF IndexIn, B, Before
<1>13. AllItems[a + i] = lists[l][i]
  BY <1>8, <1>9, <1>11 DEF ListPlaced, B
<1>14. IsAt(k, l, i)
  BY <1>4, <1>7, <1>9, <1>11, <1>12, <1>13 DEF IsAt, B
<1> QED BY <1>14

\* How many items of the list l are among the first n of all.
Drawn(l, n) ==
  IF n <= Before(l - 1) THEN 0
  ELSE IF n >= Before(l) THEN Len(lists[l])
  ELSE n - Before(l - 1)

LEMMA NothingDrawnYet ==
  ASSUME ListsPlaced, NEW l, l \in 1..Len(lists) PROVE Drawn(l, 0) = 0
<1>1. Before(l - 1) \in Nat
  BY DEF ListsPlaced, ListPlaced
<1>2. 0 <= Before(l - 1)
  BY <1>1
<1> QED BY <1>2 DEF Drawn

LEMMA DrawnToTheEnd ==
  ASSUME ListsPlaced, lists \in Seq(Seq(DisplayItems)), NEW l, l \in 1..Len(lists)
  PROVE  Drawn(l, Len(AllItems)) = Len(lists[l])
<1>1. /\ Before(l - 1) \in Nat /\ Len(lists[l]) \in Nat
      /\ Before(l) = Before(l - 1) + Len(lists[l])
      /\ Before(l) <= Len(AllItems) /\ Len(AllItems) \in Nat
  BY DEF ListsPlaced, ListPlaced
<1>2. PICK a, h, n : a = Before(l - 1) /\ h = Len(lists[l]) /\ n = Len(AllItems)
  OBVIOUS
<1>3. a \in Nat /\ h \in Nat /\ n \in Nat /\ a + h <= n
  BY <1>1, <1>2
<1>4. n <= a => h = 0
  BY <1>3
<1>5. n >= a + h
  BY <1>3
<1> QED BY <1>1, <1>2, <1>4, <1>5 DEF Drawn

\* One more item is drawn.
\* The next item of all is the i-th of the list l.
DrawnAdvances(l, n, i) ==
  /\ Drawn(l, n) = i - 1 /\ Drawn(l, n + 1) = i
  /\ \A k \in 1..Len(lists) : k # l => Drawn(k, n + 1) = Drawn(k, n)

LEMMA OneMoreDrawn ==
  ASSUME ListsPlaced, lists \in Seq(Seq(DisplayItems)), NEW n, NEW l, NEW i, n \in Nat, IsAt(n + 1, l, i)
  PROVE  DrawnAdvances(l, n, i)
<1> DEFINE B(k) == Before(k)
<1>0. /\ l \in 1..Len(lists) /\ i \in 1..Len(lists[l]) /\ Len(lists) \in Nat
      /\ n + 1 = B(l - 1) + i /\ n + 1 <= B(l)
  BY LenProperties DEF IsAt
<1>1. \A k \in 1..Len(lists) : /\ B(k - 1) \in Nat /\ Len(lists[k]) \in Nat
                               /\ B(k) = B(k - 1) + Len(lists[k])
  BY DEF ListsPlaced, ListPlaced
<1>2. \A k, j \in 0..Len(lists) : k <= j => B(k) <= B(j)
  BY BeforeGrows
<1> HIDE DEF B
<1>3. \A k : Drawn(k, n) = IF n <= B(k - 1) THEN 0 ELSE IF n >= B(k) THEN Len(lists[k]) ELSE n - B(k - 1)
  BY DEF Drawn, B
<1>4. \A k : Drawn(k, n + 1) = IF n + 1 <= B(k - 1) THEN 0
                               ELSE IF n + 1 >= B(k) THEN Len(lists[k]) ELSE (n + 1) - B(k - 1)
  BY DEF Drawn, B
<1>5. Drawn(l, n) = i - 1 /\ Drawn(l, n + 1) = i
  <2>1. PICK a, h, c : a = B(l - 1) /\ h = Len(lists[l]) /\ c = B(l)
    OBVIOUS
  <2>2. /\ a \in Nat /\ h \in Nat /\ c = a + h /\ i \in 1..h /\ n + 1 = a + i /\ n \in Nat
    BY <1>0, <1>1, <2>1
  <2>3. Drawn(l, n) = IF n <= a THEN 0 ELSE IF n >= c THEN h ELSE n - a
    BY <1>3, <2>1
  <2>4. Drawn(l, n + 1) = IF n + 1 <= a THEN 0 ELSE IF n + 1 >= c THEN h ELSE (n + 1) - a
    BY <1>4, <2>1
  <2> QED BY <2>2, <2>3, <2>4
<1>6. ASSUME NEW k \in 1..Len(lists), k # l PROVE Drawn(k, n + 1) = Drawn(k, n)
  <2>1. PICK a, h, c : a = B(k - 1) /\ h = Len(lists[k]) /\ c = B(k)
    OBVIOUS
  <2>2. a \in Nat /\ h \in Nat /\ c = a + h
    BY <1>1, <2>1
  <2>3. Drawn(k, n) = IF n <= a THEN 0 ELSE IF n >= c THEN h ELSE n - a
    BY <1>3, <2>1
  <2>4. Drawn(k, n + 1) = IF n + 1 <= a THEN 0 ELSE IF n + 1 >= c THEN h ELSE (n + 1) - a
    BY <1>4, <2>1
  <2>5. CASE k < l
    <3>1. k \in 0..Len(lists) /\ l - 1 \in 0..Len(lists) /\ k <= l - 1
      BY <1>0, <2>5
    <3>2. c <= B(l - 1) /\ B(l - 1) \in Nat /\ B(l - 1) <= n
      <4>1. c <= B(l - 1)
        BY <1>2, <2>1, <3>1
      <4>2. B(l - 1) \in Nat /\ Len(lists[l]) \in Nat
        BY <1>0, <1>1
      <4>3. B(l - 1) <= n
        <5>1. PICK e, f : e = B(l - 1) /\ f = Len(lists[l])
          OBVIOUS
        <5>2. e \in Nat /\ f \in Nat /\ i \in 1..f /\ n + 1 = e + i
          BY <1>0, <4>2, <5>1
        <5>3. e <= n
          BY <5>2
        <5> QED BY <5>1, <5>3
      <4> QED BY <4>1, <4>2, <4>3
    <3>3. c <= n
      BY <2>2, <3>2
    <3> QED BY <2>2, <2>3, <2>4, <3>3
  <2>6. CASE l < k
    <3>1. l \in 0..Len(lists) /\ k - 1 \in 0..Len(lists) /\ l <= k - 1
      BY <1>0, <2>6
    <3>2. B(l) <= a /\ B(l) \in Nat
      <4>1. B(l) <= a
        BY <1>2, <2>1, <3>1
      <4>2. B(l) = B(l - 1) + Len(lists[l]) /\ B(l - 1) \in Nat /\ Len(lists[l]) \in Nat
        BY <1>0, <1>1
      <4>3. B(l) \in Nat
        BY <4>2
      <4> QED BY <4>1, <4>3
    <3>3. n + 1 <= a
      BY <1>0, <2>2, <3>2
    <3> QED BY <2>2, <2>3, <2>4, <3>3
  <2>7. k < l \/ l < k
    BY <1>0, <1>6
  <2> QED BY <2>5, <2>6, <2>7
<1> QED BY <1>5, <1>6 DEF DrawnAdvances

(***************************************************************************)
(* The items that are drawn.                                               *)
(***************************************************************************)
\* The pipeline that is bound and the reference that the GPU uses with it.
ReferenceKnown ==
  \A spec \in current_pipeline : spec.is_clippee => reference = current_stencil_reference

LEMMA BindGives ==
  ASSUME NEW item, NEW first, ReferenceKnown, Bind(item, first)
  PROVE  /\ item.pipeline.is_clippee => reference' = item.stencil_reference
         /\ ReferenceKnown'
<1> PICK spec, bound, known :
      /\ spec = item.pipeline /\ bound = BoundPipeline(first) /\ known = KnownReference(first)
  OBVIOUS
<1> PICK set : set = (HasDynamicStencilState(spec) /\ (bound # {spec} \/ known # item.stencil_reference))
  OBVIOUS
<1>1. /\ current_pipeline' = {spec}
      /\ current_stencil_reference' = IF set THEN item.stencil_reference ELSE known
      /\ reference' = IF set THEN item.stencil_reference
                      ELSE IF ~HasDynamicStencilState(spec) THEN StaticReference(spec)
                      ELSE IF first THEN 0 ELSE reference
  BY DEF Bind
<1>2. ASSUME spec.is_clippee
      PROVE  reference' = item.stencil_reference /\ current_stencil_reference' = item.stencil_reference
  <2>1. HasDynamicStencilState(spec)
    BY <1>2 DEF HasDynamicStencilState
  <2>2. CASE set
    BY <1>1, <2>2
  <2>3. CASE ~set
    <3>1. bound = {spec} /\ known = item.stencil_reference
      BY <2>1, <2>3
    <3>2. ~first /\ current_pipeline = {spec}
      BY <3>1 DEF BoundPipeline
    <3>3. known = current_stencil_reference
      BY <3>2 DEF KnownReference
    <3>4. reference = current_stencil_reference
      BY <1>2, <3>2 DEF ReferenceKnown
    <3> QED BY <1>1, <2>1, <2>3, <3>1, <3>2, <3>3, <3>4
  <2> QED BY <2>2, <2>3
<1> QED BY <1>1, <1>2 DEF ReferenceKnown

IsPainting(f) == f = [x \in (DOMAIN scene) \X Object |-> f[x]]

\* What the executions ss and qq of the lists say of the first n items.
AllDoneBy(ss, qq) ==
  \A l \in 1..Len(lists) : DoneBy(scene[l], l, lists[l], clean, ss[l], qq[l])
PaintedBy(qq, paint, n) ==
  \A l \in 1..Len(lists) : \A o \in Object : paint[<<l, o>>] = qq[l][Drawn(l, n)][o]
MarkedBy(ss, marks, n) ==
  \A l \in 1..Len(lists) : Before(l - 1) <= n /\ n <= Before(l) => marks = ss[l][n - Before(l - 1)]

Drawing(paint, marks, n) ==
  \E ss, qq : AllDoneBy(ss, qq) /\ PaintedBy(qq, paint, n) /\ MarkedBy(ss, marks, n)

DrawInv ==
  /\ items_drawn \in Nat
  /\ items_drawn # 0 => /\ Len(lists) = Len(scene) /\ items_drawn <= Len(AllItems)
                         /\ Drawing(painted, stencil, items_drawn)
  /\ IsPainting(painted)
  /\ items_drawn = 0 => stencil = Zero /\ \A x \in (DOMAIN scene) \X Object : painted[x] = {}
  /\ ReferenceKnown

LEMMA DrawingStarts ==
  ASSUME DisplayInv, BuildInv, Len(lists) <= Len(scene),
         \A x \in (DOMAIN scene) \X Object : painted[x] = {}
  PROVE  Drawing(painted, Zero, 0)
<1> PICK n : n = Len(lists)
  OBVIOUS
<1>0. n \in Nat /\ lists \in Seq(Seq(DisplayItems)) /\ ListsPlaced
  BY ListsArePlaced, LenProperties DEF BuildInv
<1>1. scene \in Seq(Model) /\ DOMAIN scene = 1..Len(scene) /\ Len(scene) \in Nat
  BY SceneType, LenProperties DEF DisplayInv
<1> DEFINE Does(l, s, q) == DoneBy(scene[l], l, lists[l], clean, s, q)
<1>2. \A l \in 1..n : \E s, q : Does(l, s, q)
  BY DEF BuildInv, AllDone, Done
<1>3. \A l : \A s, q : Does(l, s, q) => s[0] = Zero /\ q[0] = NoPaint
  BY DEF DoneBy, Executes
<1>4. \A l, s, q : Does(l, s, q) <=> DoneBy(scene[l], l, lists[l], clean, s, q)
  OBVIOUS
<1> HIDE DEF Does
<1> DEFINE ss == [l \in 1..n |-> CHOOSE s : \E q : Does(l, s, q)]
           qq == [l \in 1..n |-> CHOOSE q : Does(l, ss[l], q)]
<1>5. \A l \in 1..n : Does(l, ss[l], qq[l])
  <2> SUFFICES ASSUME NEW l \in 1..n PROVE Does(l, ss[l], qq[l])
    OBVIOUS
  <2>1. ss[l] = CHOOSE s : \E q : Does(l, s, q)
    OBVIOUS
  <2>2. qq[l] = CHOOSE q : Does(l, ss[l], q)
    OBVIOUS
  <2> HIDE DEF ss, qq
  <2>3. \E q : Does(l, ss[l], q)
    BY <1>2, <2>1
  <2> QED BY <2>2, <2>3
<1> HIDE DEF ss, qq
<1>6. AllDoneBy(ss, qq)
  BY <1>4, <1>5 DEF AllDoneBy
<1>7. PaintedBy(qq, painted, 0)
  <2>1. ASSUME NEW l \in 1..n, NEW o \in Object PROVE painted[<<l, o>>] = qq[l][Drawn(l, 0)][o]
    <3>1. <<l, o>> \in (DOMAIN scene) \X Object
      BY <1>0, <1>1
    <3>2. Drawn(l, 0) = 0
      BY <1>0, NothingDrawnYet
    <3>3. qq[l][0] = NoPaint
      BY <1>3, <1>5
    <3> QED BY <3>1, <3>2, <3>3 DEF NoPaint
  <2> QED BY <2>1 DEF PaintedBy
<1>8. MarkedBy(ss, Zero, 0)
  <2>1. ASSUME NEW l \in 1..n, Before(l - 1) <= 0 PROVE ss[l][0 - Before(l - 1)] = Zero
    <3>1. Before(l - 1) \in Nat
      BY <1>0 DEF ListsPlaced, ListPlaced
    <3>2. 0 - Before(l - 1) = 0
      BY <2>1, <3>1
    <3> QED BY <1>3, <1>5, <3>2
  <2> QED BY <2>1 DEF MarkedBy
<1> QED BY <1>6, <1>7, <1>8 DEF Drawing

LEMMA DrawInitially == DisplayInit => DrawInv
<1> SUFFICES ASSUME DisplayInit PROVE DrawInv
  OBVIOUS
<1>1. /\ items_drawn = 0 /\ current_pipeline = {} /\ stencil = Zero /\ lists = <<>>
      /\ painted = [x \in (DOMAIN scene) \X Object |-> {}]
  BY DEF DisplayInit, Zero
<1>2. IsPainting(painted) /\ \A x \in (DOMAIN scene) \X Object : painted[x] = {}
  BY <1>1 DEF IsPainting
<1> QED BY <1>1, <1>2 DEF DrawInv, ReferenceKnown

\* While items are drawn, nothing is built.
LEMMA AllAreBuilt ==
  ASSUME DisplayInv, BuildInv, Len(lists) = Len(scene)
  PROVE  stack = <<>> /\ list = Len(scene)
<1>1. list \in 0..Len(scene) /\ Len(scene) \in Nat
  BY SceneType DEF DisplayInv
<1>2. Len(lists) = IF stack = <<>> THEN list ELSE list - 1
  BY DEF BuildInv, ListsDone
<1> QED BY <1>1, <1>2

LEMMA BuildingDrawsNothing ==
  ASSUME DisplayInv, BuildInv, DrawInv,
         BeginDisplayList \/ AddClipperAndClippeeObjects \/ AddObject \/ LeaveGroup \/ Build
  PROVE  DrawInv'
<1>1. /\ scene' = scene /\ items_drawn' = items_drawn /\ current_pipeline' = current_pipeline
      /\ current_stencil_reference' = current_stencil_reference /\ reference' = reference
      /\ stencil' = stencil /\ painted' = painted
  BY DEF BeginDisplayList, AddClipperAndClippeeObjects, AddObject, LeaveGroup, Build, drawVars
<1>2. Len(lists) # Len(scene)
  <2> SUFFICES ASSUME Len(lists) = Len(scene) PROVE FALSE
    OBVIOUS
  <2>1. stack = <<>> /\ list = Len(scene)
    BY AllAreBuilt
  <2>2. Len(<<>>) = 0
    OBVIOUS
  <2>3. list \in Nat
    BY SceneType, <2>1 DEF DisplayInv
  <2>4. ~BeginDisplayList
    BY <2>1, <2>3 DEF BeginDisplayList
  <2>5. ~LeaveGroup /\ ~Build
    BY <2>1, <2>2 DEF LeaveGroup, Build
  <2> QED BY <2>1, <2>4, <2>5 DEF AddClipperAndClippeeObjects, AddObject
<1>3. items_drawn = 0
  BY <1>2 DEF DrawInv
<1> QED BY <1>1, <1>3 DEF DrawInv, IsPainting, ReferenceKnown

LEMMA SameDrawing ==
  ASSUME scene' = scene, lists' = lists, clean' = clean, Drawing(painted', stencil', items_drawn')
  PROVE  Drawing(painted, stencil, items_drawn)'
<1>1. \A l : Before(l)' = Before(l)
  BY DEF Before
<1>3. PICK ss, qq : /\ AllDoneBy(ss, qq) /\ PaintedBy(qq, painted', items_drawn')
                    /\ MarkedBy(ss, stencil', items_drawn')
  BY DEF Drawing
<1>4. AllDoneBy(ss, qq)'
  BY <1>3 DEF AllDoneBy
<1>5. PaintedBy(qq, painted, items_drawn)'
  <2>1. ASSUME NEW l \in 1..Len(lists), NEW o \in Object
        PROVE  painted'[<<l, o>>] = qq[l][Drawn(l, items_drawn)'][o]
    <3>1. painted'[<<l, o>>] = qq[l][Drawn(l, items_drawn')][o]
      BY <1>3 DEF PaintedBy
    <3>2. Drawn(l, items_drawn)' = Drawn(l, items_drawn')
      BY <1>1 DEF Drawn
    <3> QED BY <3>1, <3>2
  <2> QED BY <2>1 DEF PaintedBy
<1>6. MarkedBy(ss, stencil, items_drawn)'
  BY <1>1, <1>3 DEF MarkedBy
<1> QED BY <1>4, <1>5, <1>6 DEF Drawing

\* What drawing the next item does, the i-th of the list l.
\* What the item of the list l does when it is drawn.
ItemDrawn(m, l, item) ==
  /\ stencil' = NextStencil(m, item, stencil)
  /\ IsPainting(painted')
  /\ \A k \in DOMAIN scene : \A o \in Object :
       painted'[<<k, o>>] = IF k = l /\ o = item.object /\ item.pipeline.has_material
                            THEN painted[<<k, o>>] \cup Hit(m, item, stencil) ELSE painted[<<k, o>>]

LEMMA ItemExecuted ==
  ASSUME DisplayInv, BuildInv, DrawInv, DrawItem, NEW l, NEW i, IsAt(items_drawn + 1, l, i)
  PROVE  ItemDrawn(scene[l], l, lists[l][i])
<1> PICK N : N = items_drawn + 1
  OBVIOUS
<1>1. ListOf(N) = l /\ IndexIn(N) = i /\ AllItems[N] = lists[l][i]
  BY DEF IsAt
<1> PICK item, spec, m, hit, first :
      /\ item = lists[l][i] /\ spec = item.pipeline /\ m = scene[l]
      /\ hit = {p \in m.shape[item.object] : Passes(spec, reference', stencil[p])}
      /\ first = (IndexIn(N) = 1)
  OBVIOUS
<1>2. /\ Bind(item, first)
      /\ stencil' = [p \in Pixel |-> IF p \in hit THEN StencilAfter(spec, stencil[p]) ELSE stencil[p]]
      /\ painted' = IF spec.has_material
                    THEN [painted EXCEPT ![<<l, item.object>>] = @ \cup hit] ELSE painted
  BY <1>1 DEF DrawItem
<1>3. spec.is_clippee => reference' = item.stencil_reference
  BY <1>2, BindGives DEF DrawInv
<1>4. hit = Hit(m, item, stencil)
  BY <1>3 DEF Hit, Passes
<1>5. stencil' = NextStencil(m, item, stencil)
  BY <1>2, <1>4 DEF NextStencil
<1>6. IsPainting(painted)
  BY DEF DrawInv
<1> PICK X, f, g : X = (DOMAIN scene) \X Object /\ f = painted /\ g = painted'
  OBVIOUS
<1>7. f = [x \in X |-> f[x]]
  BY <1>6 DEF IsPainting
<1> PICK y : y = <<l, item.object>>
  OBVIOUS
<1>8. g = IF spec.has_material THEN [f EXCEPT ![y] = f[y] \cup hit] ELSE f
  BY <1>2
<1>9. g = [x \in X |-> g[x]]
  BY <1>7, <1>8
<1>10. \A x \in X : g[x] = IF x = y /\ spec.has_material THEN f[x] \cup hit ELSE f[x]
  <2> PICK v : v = f[y] \cup hit
    OBVIOUS
  <2>1. DOMAIN f = X
    BY <1>7
  <2>2. [f EXCEPT ![y] = v] = [x \in X |-> IF x = y THEN v ELSE f[x]]
    BY <2>1, Zenon
  <2>3. CASE spec.has_material
    BY <1>8, <2>2, <2>3, Zenon
  <2>4. CASE ~spec.has_material
    BY <1>8, <2>4
  <2> QED BY <2>3, <2>4
<1>11. ASSUME NEW k \in DOMAIN scene, NEW o \in Object
       PROVE  painted'[<<k, o>>] = IF k = l /\ o = item.object /\ spec.has_material
                                   THEN painted[<<k, o>>] \cup hit ELSE painted[<<k, o>>]
  <2>1. <<k, o>> \in X /\ (<<k, o>> = y <=> k = l /\ o = item.object)
    OBVIOUS
  <2> QED BY <1>10, <2>1
<1>12. IsPainting(painted')
  BY <1>9 DEF IsPainting
<1> QED BY <1>4, <1>5, <1>11, <1>12 DEF ItemDrawn

LEMMA DrawItemDraws ==
  ASSUME DisplayInv, BuildInv, DrawInv, DrawItem
  PROVE  DrawInv'
<1>1. /\ Len(lists) = Len(scene) /\ items_drawn < Len(AllItems) /\ items_drawn' = items_drawn + 1
      /\ scene' = scene /\ lists' = lists /\ clean' = clean
  BY DEF DrawItem, buildVars
<1>2. lists \in Seq(Seq(DisplayItems)) /\ ListsPlaced
  BY ListsArePlaced DEF BuildInv
<1>3. scene \in Seq(Model) /\ DOMAIN scene = 1..Len(scene) /\ Len(scene) \in Nat
  BY SceneType, LenProperties DEF DisplayInv
<1>4. items_drawn \in Nat /\ Len(AllItems) \in Nat
  BY <1>2 DEF DrawInv, ListsPlaced
<1>5. PICK n, N : n = items_drawn /\ N = items_drawn + 1
  OBVIOUS
<1>6. n \in Nat /\ N = n + 1 /\ N \in 1..Len(AllItems) /\ N # 0
  BY <1>1, <1>4, <1>5
<1>7. Drawing(painted, stencil, n)
  <2>1. CASE items_drawn = 0
    <3>1. stencil = Zero /\ \A x \in (DOMAIN scene) \X Object : painted[x] = {}
      BY <2>1 DEF DrawInv
    <3>2. Len(lists) <= Len(scene)
      BY <1>1, <1>3
    <3>3. Drawing(painted, Zero, 0)
      BY <3>1, <3>2, DrawingStarts
    <3> QED BY <1>5, <2>1, <3>1, <3>3
  <2>2. CASE items_drawn # 0
    BY <1>5, <2>2 DEF DrawInv
  <2> QED BY <2>1, <2>2
<1>8. PICK ss, qq : AllDoneBy(ss, qq) /\ PaintedBy(qq, painted, n) /\ MarkedBy(ss, stencil, n)
  BY <1>7 DEF Drawing
<1>9. PICK l, i : IsAt(N, l, i)
  BY <1>2, <1>6, EveryItemIsAt
<1>10. PICK item, m, s, q, hit : /\ item = lists[l][i] /\ m = scene[l] /\ s = ss[l] /\ q = qq[l]
                                /\ hit = Hit(m, item, stencil)
  OBVIOUS
<1>11. l \in 1..Len(lists) /\ i \in 1..Len(lists[l]) /\ N = Before(l - 1) + i /\ N <= Before(l)
  BY <1>9 DEF IsAt
<1>12. DoneBy(m, l, lists[l], clean, s, q)
  BY <1>8, <1>10, <1>11 DEF AllDoneBy
<1>13. s[i] = NextStencil(m, item, s[i - 1]) /\ q[i] = Painted(item, q[i - 1], Hit(m, item, s[i - 1]))
  BY <1>10, <1>11, <1>12 DEF DoneBy, Executes
<1>14. stencil = s[i - 1]
  <2>1. PICK a, h, c : a = Before(l - 1) /\ h = Len(lists[l]) /\ c = Before(l)
    OBVIOUS
  <2>2. a \in Nat /\ h \in Nat /\ c = a + h
    BY <1>2, <1>11, <2>1 DEF ListsPlaced, ListPlaced
  <2>3. n - a = i - 1 /\ a <= n /\ n <= c
    BY <1>6, <1>11, <2>1, <2>2
  <2>4. a <= n /\ n <= c => stencil = s[n - a]
    BY <1>8, <1>10, <1>11, <2>1 DEF MarkedBy
  <2> QED BY <2>3, <2>4
<1>15. /\ stencil' = NextStencil(m, item, stencil)
       /\ IsPainting(painted')
       /\ \A k \in DOMAIN scene : \A o \in Object :
            painted'[<<k, o>>] = IF k = l /\ o = item.object /\ item.pipeline.has_material
                                 THEN painted[<<k, o>>] \cup hit ELSE painted[<<k, o>>]
  <2>1. IsAt(items_drawn + 1, l, i)
    BY <1>5, <1>9
  <2>2. ItemDrawn(scene[l], l, lists[l][i])
    BY <2>1, ItemExecuted
  <2> QED BY <1>10, <2>2 DEF ItemDrawn
<1>16. stencil' = s[i]
  BY <1>13, <1>14, <1>15
<1>17. /\ Drawn(l, n) = i - 1 /\ Drawn(l, N) = i
       /\ \A k \in 1..Len(lists) : k # l => Drawn(k, N) = Drawn(k, n)
  <2>1. ListsPlaced /\ lists \in Seq(Seq(DisplayItems))
    BY <1>2
  <2>2. N = n + 1 /\ n \in Nat
    BY <1>6
  <2>3. IsAt(n + 1, l, i)
    BY <1>9, <2>2
  <2>4. DrawnAdvances(l, n, i)
    BY <2>1, <2>2, <2>3, OneMoreDrawn
  <2> QED BY <2>2, <2>4 DEF DrawnAdvances
<1>18. PaintedBy(qq, painted', N)
  <2>1. ASSUME NEW k \in 1..Len(lists), NEW o \in Object
        PROVE  painted'[<<k, o>>] = qq[k][Drawn(k, N)][o]
    <3>1. k \in DOMAIN scene
      BY <1>1, <1>3
    <3>2. painted[<<k, o>>] = qq[k][Drawn(k, n)][o]
      BY <1>8 DEF PaintedBy
    <3>3. painted'[<<k, o>>] = IF k = l /\ o = item.object /\ item.pipeline.has_material
                               THEN painted[<<k, o>>] \cup hit ELSE painted[<<k, o>>]
      BY <1>15, <3>1
    <3>4. CASE k # l
      BY <1>17, <3>2, <3>3, <3>4
    <3>5. CASE k = l
      <4>1. painted[<<k, o>>] = q[i - 1][o]
        BY <1>10, <1>17, <3>2, <3>5
      <4>2. hit = Hit(m, item, s[i - 1])
        BY <1>10, <1>14
      <4>3. q[i][o] = IF o = item.object /\ item.pipeline.has_material THEN q[i - 1][o] \cup hit ELSE q[i - 1][o]
        BY <1>13, <4>2 DEF Painted
      <4>4. qq[k][Drawn(k, N)][o] = q[i][o]
        BY <1>10, <1>17, <3>5
      <4> QED BY <3>3, <3>5, <4>1, <4>3, <4>4
    <3> QED BY <3>4, <3>5
  <2> QED BY <2>1 DEF PaintedBy
<1>19. MarkedBy(ss, stencil', N)
  <2>1. ASSUME NEW k \in 1..Len(lists), Before(k - 1) <= N, N <= Before(k)
        PROVE  stencil' = ss[k][N - Before(k - 1)]
    <3>1. /\ Before(l - 1) \in Nat /\ Before(l) \in Nat /\ Len(lists[l]) \in Nat
          /\ Before(l) = Before(l - 1) + Len(lists[l])
          /\ Before(k - 1) \in Nat /\ Before(k) \in Nat
      <4>1. ListPlaced(l) /\ ListPlaced(k)
        BY <1>2, <1>11 DEF ListsPlaced
      <4>2. /\ Before(l - 1) \in Nat /\ Len(lists[l]) \in Nat
            /\ Before(l) = Before(l - 1) + Len(lists[l])
            /\ Before(k - 1) \in Nat /\ Len(lists[k]) \in Nat
            /\ Before(k) = Before(k - 1) + Len(lists[k])
        BY <4>1 DEF ListPlaced
      <4>3. PICK a, b, c, d : a = Before(l - 1) /\ b = Len(lists[l]) /\ c = Before(k - 1) /\ d = Len(lists[k])
        OBVIOUS
      <4>4. a \in Nat /\ b \in Nat /\ c \in Nat /\ d \in Nat
        BY <4>2, <4>3
      <4>5. a + b \in Nat /\ c + d \in Nat
        BY <4>4
      <4> QED BY <4>2, <4>3, <4>5
    <3>2. l \in Nat /\ k \in Nat /\ Len(lists) \in Nat
      BY <1>2, <1>11, LenProperties
    <3>3. CASE k = l
      <4>1. N - Before(l - 1) = i
        <5>1. PICK a, h : a = Before(l - 1) /\ h = Len(lists[l])
          OBVIOUS
        <5>2. a \in Nat /\ h \in Nat /\ i \in 1..h /\ N = a + i
          BY <1>11, <3>1, <5>1
        <5>3. N - a = i
          BY <5>2
        <5> QED BY <5>1, <5>3
      <4> QED BY <1>10, <1>16, <3>3, <4>1
    <3>4. CASE k < l
      <4>1. k \in 0..Len(lists) /\ l - 1 \in 0..Len(lists) /\ k <= l - 1
        BY <1>11, <3>2, <3>4
      <4>2. Before(k) <= Before(l - 1)
        BY <1>2, <4>1, BeforeGrows
      <4>3. PICK a, b, h : a = Before(l - 1) /\ b = Before(k) /\ h = Len(lists[l])
        OBVIOUS
      <4>4. a \in Nat /\ b \in Nat /\ h \in Nat /\ i \in 1..h /\ N = a + i /\ N <= b /\ b <= a
        BY <1>11, <2>1, <3>1, <4>2, <4>3
      <4> QED BY <4>4
    <3>5. CASE l < k
      <4>1. l \in 0..Len(lists) /\ k - 1 \in 0..Len(lists) /\ l <= k - 1
        BY <1>11, <3>2, <3>5
      <4>2. Before(l) <= Before(k - 1)
        BY <1>2, <4>1, BeforeGrows
      <4>3. PICK a, b, h : a = Before(l - 1) /\ b = Before(k - 1) /\ h = Len(lists[l])
        OBVIOUS
      <4>4. /\ a \in Nat /\ b \in Nat /\ h \in Nat /\ i \in 1..h /\ N = a + i /\ N <= a + h
            /\ a + h <= b /\ b <= N
        BY <1>11, <2>1, <3>1, <4>2, <4>3
      <4>5. i = h /\ N - b = 0
        BY <4>4
      <4>6. s[Len(lists[l])] = Zero
        BY <1>12 DEF DoneBy
      <4>7. ss[k][0] = Zero
        BY <1>8 DEF AllDoneBy, DoneBy, Executes
      <4> QED BY <1>16, <4>3, <4>5, <4>6, <4>7
    <3> QED BY <3>2, <3>3, <3>4, <3>5
  <2> QED BY <2>1 DEF MarkedBy
<1>20. Drawing(painted', stencil', N)
  BY <1>8, <1>18, <1>19 DEF Drawing
<1>21. Drawing(painted, stencil, items_drawn)'
  BY <1>1, <1>5, <1>20, SameDrawing
<1>22. ReferenceKnown'
  <2>1. ReferenceKnown
    BY DEF DrawInv
  <2>2. PICK it, first : Bind(it, first)
    BY DEF DrawItem
  <2> QED BY <2>1, <2>2, BindGives
<1>23. AllItems' = AllItems /\ IsPainting(painted)'
  BY <1>1, <1>15 DEF AllItems, IsPainting
<1>24. items_drawn' \in Nat /\ items_drawn' <= Len(AllItems) /\ items_drawn' # 0
  BY <1>1, <1>4
<1> QED BY <1>1, <1>21, <1>22, <1>23, <1>24 DEF DrawInv

LEMMA DrawStep ==
  ASSUME DisplayInv, BuildInv, DrawInv, [DisplayNext]_displayVars
  PROVE  DrawInv'
<1>1. CASE UNCHANGED displayVars
  <2>1. /\ scene' = scene /\ lists' = lists /\ clean' = clean /\ items_drawn' = items_drawn
        /\ stencil' = stencil /\ painted' = painted /\ current_pipeline' = current_pipeline
        /\ current_stencil_reference' = current_stencil_reference /\ reference' = reference
    BY <1>1 DEF displayVars, buildVars, drawVars
  <2>2. AllItems' = AllItems
    BY <2>1 DEF AllItems
  <2>3. ASSUME items_drawn # 0 PROVE Drawing(painted, stencil, items_drawn)'
    <3>1. Drawing(painted', stencil', items_drawn')
      BY <2>1, <2>3 DEF DrawInv
    <3> QED BY <2>1, <3>1, SameDrawing
  <2> QED BY <2>1, <2>2, <2>3 DEF DrawInv, IsPainting, ReferenceKnown
<1>2. CASE BeginDisplayList \/ AddClipperAndClippeeObjects \/ AddObject \/ LeaveGroup \/ Build
  BY <1>2, BuildingDrawsNothing
<1>3. CASE DrawItem
  BY <1>3, DrawItemDraws
<1> QED BY <1>1, <1>2, <1>3 DEF DisplayNext

LEMMA DrawnAsSeen ==
  ASSUME DisplayInv, BuildInv, DrawInv
  PROVE  PaintedWhereVisible
<1> SUFFICES ASSUME AllDrawn, NEW l \in DOMAIN scene, NEW o \in Object
             PROVE  /\ painted[<<l, o>>] \subseteq Visible(scene[l])[o]
                    /\ IsDrawn(scene[l], o) /\ ~IsClipper(scene[l], o) =>
                         painted[<<l, o>>] = Visible(scene[l])[o]
  BY DEF PaintedWhereVisible
<1>1. Len(lists) = Len(scene) /\ items_drawn = Len(AllItems)
  BY DEF AllDrawn
<1>2. lists \in Seq(Seq(DisplayItems)) /\ ListsPlaced
  BY ListsArePlaced DEF BuildInv
<1>3. scene \in Seq(Model) /\ DOMAIN scene = 1..Len(scene) /\ Len(scene) \in Nat
  BY SceneType, LenProperties DEF DisplayInv
<1>4. Drawing(painted, stencil, items_drawn)
  <2>1. CASE items_drawn = 0
    <3>1. stencil = Zero /\ \A x \in (DOMAIN scene) \X Object : painted[x] = {}
      BY <2>1 DEF DrawInv
    <3>2. Len(lists) <= Len(scene)
      BY <1>1, <1>3
    <3>3. Drawing(painted, Zero, 0)
      BY <3>1, <3>2, DrawingStarts
    <3> QED BY <2>1, <3>1, <3>3
  <2>2. CASE items_drawn # 0
    BY <2>2 DEF DrawInv
  <2> QED BY <2>1, <2>2
<1>5. PICK ss, qq : AllDoneBy(ss, qq) /\ PaintedBy(qq, painted, items_drawn)
  BY <1>4 DEF Drawing
<1>6. l \in 1..Len(lists)
  BY <1>1, <1>3
<1>7. Drawn(l, items_drawn) = Len(lists[l])
  BY <1>1, <1>2, <1>6, DrawnToTheEnd
<1>8. painted[<<l, o>>] = qq[l][Len(lists[l])][o]
  BY <1>5, <1>6, <1>7 DEF PaintedBy
<1>9. RightPaint(scene[l], qq[l][Len(lists[l])])
  BY <1>5, <1>6 DEF AllDoneBy, DoneBy
<1> QED BY <1>8, <1>9 DEF RightPaint

LEMMA RestoredWhenClean ==
  ASSUME DisplayInv, BuildInv, DrawInv
  PROVE  StencilIsRestored
<1> SUFFICES ASSUME items_drawn > 0, <<ListOf(items_drawn), IndexIn(items_drawn)>> \in clean
             PROVE  \A p \in Pixel : stencil[p] = 0
  BY DEF StencilIsRestored
<1>1. lists \in Seq(Seq(DisplayItems)) /\ ListsPlaced
  BY ListsArePlaced DEF BuildInv
<1>2. items_drawn \in Nat /\ items_drawn # 0
  BY DEF DrawInv
<1>3. Drawing(painted, stencil, items_drawn) /\ items_drawn <= Len(AllItems)
  BY <1>2 DEF DrawInv
<1> PICK n : n = items_drawn
  OBVIOUS
<1>4. n \in 1..Len(AllItems)
  BY <1>1, <1>2, <1>3 DEF ListsPlaced
<1>5. PICK l, i : IsAt(n, l, i)
  BY <1>1, <1>4, EveryItemIsAt
<1>6. /\ l \in 1..Len(lists) /\ i \in 1..Len(lists[l]) /\ n = Before(l - 1) + i /\ n <= Before(l)
      /\ <<l, i>> \in clean
  BY <1>5 DEF IsAt
<1>7. PICK ss, qq : AllDoneBy(ss, qq) /\ MarkedBy(ss, stencil, n)
  BY <1>3 DEF Drawing
<1>8. stencil = ss[l][i]
  <2>1. PICK a, h : a = Before(l - 1) /\ h = Len(lists[l])
    OBVIOUS
  <2>2. a \in Nat /\ h \in Nat
    BY <1>1, <1>6, <2>1 DEF ListsPlaced, ListPlaced
  <2>3. a <= n /\ n - a = i
    BY <1>6, <2>1, <2>2
  <2> QED BY <1>6, <1>7, <2>1, <2>3 DEF MarkedBy
<1>9. ss[l][i] = Zero
  BY <1>6, <1>7 DEF AllDoneBy, DoneBy, CleanOK
<1> QED BY <1>8, <1>9 DEF Zero

ClipInv == DisplayInv /\ BuildInv /\ DrawInv

(* Whatever the shapes, materials and groups of the models, in whatever    *)
(* order the renderer adds the objects and however many lists are drawn    *)
(* one after the other: if every model is a tree of objects and its groups *)
(* are not nested deeper than the stencil buffer can count, clipping lets  *)
(* through what it should and nothing else, and a top-level object leaves  *)
(* the stencil buffer as it found it.                                      *)
THEOREM ClippingIsRight == FrameSpec => []ClippingIsExact
<1>1. DisplayInit => ClipInv
  BY DisplayInitially, BuildInitially, DrawInitially DEF ClipInv
<1>2. ClipInv /\ [DisplayNext]_displayVars => ClipInv'
  BY DisplayStep, BuildStep, DrawStep DEF ClipInv
<1>3. ClipInv => ClippingIsExact
  BY DrawnAsSeen, RestoredWhenClean DEF ClipInv, ClippingIsExact
<1> QED BY <1>1, <1>2, <1>3, PTL DEF FrameSpec
================================================================================
