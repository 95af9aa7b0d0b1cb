------------------------ MODULE ResourceRecyclerProofs ------------------------
(***************************************************************************)
(* TLAPS proofs about ResourceRecycler, for any recyclers, resources,      *)
(* owners and number of command buffers.                                   *)
(***************************************************************************)
EXTENDS ResourceRecycler, CommandBuffersProofs, DataLemmas

Referred(r) == r \in held \/ \E c \in Live : r \in contents[c]

Deferred(r) == r \in unused_resources[owner[r]]

ResourceTypes ==
  /\ last_finished_sequence_number \in [Recycler -> Nat]
  /\ unused_resources \in [Recycler -> SUBSET created]
  /\ resource_sequence_number \in [Resource -> Nat]
  /\ created \subseteq Resource
  /\ held \subseteq created /\ recycled \subseteq created /\ unreffed \subseteq created
  /\ contents \in [Resource -> SUBSET created]
  /\ uses \in [1..MaxSequence -> SUBSET created]

(* The number of a resource is at least that of each command buffer that   *)
(* uses it, a recycler's copy of the last finished number is no greater    *)
(* than the sequencer's, and so what is recycled was used by announced     *)
(* command buffers only.                                                   *)
NumberInv ==
  /\ \A m \in Recycler : last_finished_sequence_number[m] <= announced
  /\ \A n \in 1..MaxSequence : \A r \in uses[n] : n <= resource_sequence_number[r]
  /\ \A r \in recycled : resource_sequence_number[r] <= announced

(* A resource is referred to, on its way to its owner, deferred by it, or  *)
(* recycled, and only one of these.                                        *)
Placed(r) ==
  /\ r \in recycled => ~Referred(r) /\ ~Deferred(r) /\ r \notin unreffed
  /\ r \in unreffed => ~Referred(r) /\ ~Deferred(r)
  /\ r \notin recycled \cup unreffed => (Referred(r) <=> ~Deferred(r))

PlaceInv ==
  /\ \A m \in Recycler : \A r \in unused_resources[m] : owner[r] = m
  /\ \A r \in created : Placed(r)

IInv == CommandInv /\ ResourceTypes /\ NumberInv /\ PlaceInv

LEMMA InitIInv == ResourceInit => IInv
<1> SUFFICES ASSUME ResourceInit PROVE IInv
  OBVIOUS
<1>1. CommandInv
  BY InitCommandInv DEF ResourceInit
<1>2. ResourceTypes
  BY DEF ResourceInit, ResourceTypes
<1>3. NumberInv
  BY <1>1 DEF ResourceInit, Init, Sequencer!Init, NumberInv
<1>4. PlaceInv
  BY DEF ResourceInit, PlaceInv
<1> QED BY <1>1, <1>2, <1>3, <1>4 DEF IInv

------------------------------------------------------------------------------
(* Announcements do not take back what NumberInv says, and nothing else is *)
(* touched by a step of the command buffers.                               *)
LEMMA CommandsIInv ==
  ASSUME IInv, CommandInv', announced <= announced',
         UNCHANGED <<resourceVars, clientVars>>
  PROVE  IInv'
<1> USE DEF IInv
<1>1. /\ UNCHANGED <<last_finished_sequence_number, unused_resources, recycled, unreffed>>
      /\ UNCHANGED <<resource_sequence_number, created, held, contents, uses>>
  BY DEF resourceVars, clientVars
<1>2. announced \in Nat /\ announced' \in Nat
  BY DEF CommandInv
<1>3. ResourceTypes'
  BY <1>1 DEF ResourceTypes
<1>4. NumberInv'
  BY <1>1, <1>2 DEF NumberInv, ResourceTypes
<1>5. PlaceInv'
  BY <1>1 DEF PlaceInv, Placed, Referred, Deferred, Live
<1> QED BY <1>3, <1>4, <1>5

------------------------------------------------------------------------------
(* Steps of the client.                                                    *)

LEMMA NewResourceIInv ==
  ASSUME IInv, NEW r \in Resource, NewResource(r)
  PROVE  IInv'
<1> USE DEF IInv
<1> PICK parts \in SUBSET held : contents' = [contents EXCEPT ![r] = parts]
  BY DEF NewResource
<1>1. /\ unreffed = {} /\ r \notin created
      /\ created' = created \cup {r} /\ held' = held \cup {r}
      /\ UNCHANGED commandVars
      /\ UNCHANGED <<last_finished_sequence_number, unused_resources, recycled, unreffed>>
      /\ UNCHANGED <<resource_sequence_number, uses>>
  BY DEF NewResource, Quiet, resourceVars
<1>2. CommandInv'
  BY <1>1 DEF CommandInv, commandVars
<1>3. ResourceTypes'
  BY <1>1 DEF ResourceTypes
<1>4. NumberInv'
  BY <1>1 DEF NumberInv, commandVars
<1>5. PlaceInv'
  <2>1. r \notin recycled /\ Live' = Live \cup {r}
    BY <1>1 DEF ResourceTypes, Live
  <2>2. \A c \in Live : c # r /\ contents'[c] = contents[c]
    BY <1>1 DEF Live, ResourceTypes
  <2>3. contents'[r] = parts
    BY DEF ResourceTypes
  <2>4. \A x \in created : Referred(x)' <=> Referred(x)
    <3> SUFFICES ASSUME NEW x \in created PROVE Referred(x)' <=> Referred(x)
      OBVIOUS
    <3>1. x \in held' <=> x \in held
      BY <1>1
    <3>2. x \in parts => x \in held
      OBVIOUS
    <3> QED BY <2>1, <2>2, <2>3, <3>1, <3>2 DEF Referred
  <2>5. \A x \in created : Placed(x)'
    BY <1>1, <2>4 DEF PlaceInv, Placed, Deferred
  <2>6. Placed(r)'
    <3>1. Referred(r)' /\ r \notin recycled' \cup unreffed'
      BY <1>1, <2>1 DEF Referred
    <3>2. ~Deferred(r)'
      BY <1>1, OwnerAssumption DEF Deferred, ResourceTypes
    <3> QED BY <3>1, <3>2 DEF Placed
  <2> QED BY <1>1, <2>5, <2>6 DEF PlaceInv
<1> QED BY <1>2, <1>3, <1>4, <1>5

LEMMA TakePartIInv ==
  ASSUME IInv, NEW r \in Resource, TakePart(r)
  PROVE  IInv'
<1> USE DEF IInv
<1>1. PICK c \in held : r \in contents[c]
  BY DEF TakePart
<1>2. /\ held' = held \cup {r}
      /\ UNCHANGED commandVars
      /\ UNCHANGED <<last_finished_sequence_number, unused_resources, recycled, unreffed>>
      /\ UNCHANGED <<resource_sequence_number, created, contents, uses>>
  BY DEF TakePart, resourceVars
<1>3. r \in created /\ c \in Live
  BY <1>1 DEF ResourceTypes, PlaceInv, Placed, Referred, Live
<1>4. CommandInv' /\ ResourceTypes' /\ NumberInv'
  BY <1>2, <1>3 DEF CommandInv, ResourceTypes, NumberInv, commandVars
<1>5. PlaceInv'
  <2>1. \A x \in created : Referred(x)' <=> Referred(x)
    BY <1>1, <1>2, <1>3 DEF Referred, Live
  <2> QED BY <1>2, <2>1 DEF PlaceInv, Placed, Deferred
<1> QED BY <1>4, <1>5

LEMMA KeepAliveIInv ==
  ASSUME IInv, NEW n \in 1..issued, NEW r \in Resource, KeepAlive(n, r)
  PROVE  IInv'
<1> USE DEF IInv
<1>1. /\ r \in held /\ resource_sequence_number[r] <= n
      /\ resource_sequence_number' = [resource_sequence_number EXCEPT ![r] = n]
      /\ uses' = [uses EXCEPT ![n] = @ \cup {r}]
      /\ UNCHANGED commandVars
      /\ UNCHANGED <<last_finished_sequence_number, unused_resources, recycled, unreffed>>
      /\ UNCHANGED <<created, held, contents>>
  BY DEF KeepAlive, resourceVars
<1>2. n \in 1..MaxSequence /\ r \in created /\ r \notin recycled
  BY <1>1, MaxSequenceAssumption DEF CommandInv, ResourceTypes, PlaceInv, Placed, Referred
<1>3. CommandInv' /\ ResourceTypes'
  <2>1. CommandInv'
    BY <1>1 DEF CommandInv, commandVars
  <2>2. uses' \in [1..MaxSequence -> SUBSET created]
    BY <1>1, <1>2 DEF ResourceTypes
  <2>3. resource_sequence_number' \in [Resource -> Nat]
    BY <1>1, <1>2 DEF ResourceTypes
  <2> QED BY <1>1, <2>1, <2>2, <2>3 DEF ResourceTypes
<1>4. NumberInv'
  <2>1. \A x \in Resource : x # r =>
          resource_sequence_number'[x] = resource_sequence_number[x]
    BY <1>1 DEF ResourceTypes
  <2>2. resource_sequence_number'[r] = n
    BY <1>1 DEF ResourceTypes
  <2>3. \A k \in 1..MaxSequence : \A x \in uses'[k] : k <= resource_sequence_number'[x]
    <3> SUFFICES ASSUME NEW k \in 1..MaxSequence, NEW x \in uses'[k]
                 PROVE  k <= resource_sequence_number'[x]
      OBVIOUS
    <3>1. x \in uses[k] \/ (x = r /\ k = n)
      BY <1>1 DEF ResourceTypes
    <3>2. CASE x = r /\ k = n
      BY <2>2, <3>2
    <3>3. CASE x = r /\ x \in uses[k]
      BY <1>1, <1>2, <2>2, <3>3 DEF NumberInv, ResourceTypes
    <3>4. CASE x # r /\ x \in uses[k]
      <4>1. x \in Resource
        BY <3>4 DEF ResourceTypes
      <4> QED BY <2>1, <3>4, <4>1 DEF NumberInv
    <3> QED BY <3>1, <3>2, <3>3, <3>4
  <2>4. \A x \in recycled : resource_sequence_number'[x] = resource_sequence_number[x]
    BY <1>2, <2>1 DEF ResourceTypes
  <2> QED BY <1>1, <2>3, <2>4 DEF NumberInv, commandVars
<1>5. PlaceInv'
  BY <1>1 DEF PlaceInv, Placed, Referred, Deferred, Live
<1> QED BY <1>3, <1>4, <1>5

LEMMA ReleaseIInv ==
  ASSUME IInv, NEW r \in Resource, Release(r)
  PROVE  IInv'
<1> USE DEF IInv
<1>1. /\ unreffed = {} /\ r \in held /\ held' = held \ {r}
      /\ unreffed' = LosesLastRef(held', {})
      /\ UNCHANGED commandVars
      /\ UNCHANGED <<last_finished_sequence_number, unused_resources, recycled>>
      /\ UNCHANGED <<resource_sequence_number, created, contents, uses>>
  BY DEF Release, Quiet
<1>2. unreffed' = {x \in Live : x \in held /\ x \notin held' /\ ~\E c \in Live : x \in contents[c]}
  BY <1>1 DEF LosesLastRef
<1>3. CommandInv' /\ ResourceTypes' /\ NumberInv'
  BY <1>1, <1>2 DEF CommandInv, ResourceTypes, NumberInv, commandVars, Live
<1>4. PlaceInv'
  <2>1. Live' = Live
    BY <1>1 DEF Live
  <2> SUFFICES ASSUME NEW x \in created PROVE Placed(x)'
    BY <1>1 DEF PlaceInv
  <2>2. Placed(x) /\ (Deferred(x)' <=> Deferred(x))
    BY <1>1 DEF PlaceInv, Deferred
  <2>3. CASE x \in unreffed'
    <3>1. Referred(x) /\ ~Referred(x)' /\ x \notin recycled
      BY <1>1, <1>2, <2>1, <2>3 DEF Referred, Live
    <3> QED BY <1>1, <2>2, <2>3, <3>1 DEF Placed
  <2>4. CASE x \notin unreffed'
    <3>1. x \in recycled => ~Referred(x)'
      BY <1>1, <2>1, <2>2 DEF Placed, Referred
    <3>2. x \notin recycled => (Referred(x)' <=> Referred(x))
      BY <1>1, <1>2, <2>1, <2>4 DEF Referred, Live
    <3> QED BY <1>1, <2>2, <2>4, <3>1, <3>2 DEF Placed
  <2> QED BY <2>3, <2>4
<1> QED BY <1>3, <1>4

------------------------------------------------------------------------------
(* Steps of the recyclers.                                                 *)

(* Whatever a resource was the last to refer to is on its way to its owner *)
(* when the resource is recycled: nothing is lost or in two places.        *)
LEMMA RecyclePlaced ==
  ASSUME IInv, NEW r \in created, r \notin recycled, ~Referred(r),
         UNCHANGED <<created, held, contents>>,
         RecycleResource(r, unreffed \ {r}),
         \A x \in created : Deferred(x)' <=> Deferred(x) /\ x # r
  PROVE  \A x \in created' : Placed(x)'
<1> USE DEF IInv
<1>1. /\ recycled' = recycled \cup {r} /\ Live' = Live \ {r} /\ r \in Live
      /\ unreffed' = (unreffed \ {r}) \cup LosesLastRef(held, {r})
  BY DEF RecycleResource, Live
<1>2. LosesLastRef(held, {r}) =
        {x \in Live' : x \notin held /\ x \in contents[r] /\ ~Referred(x)'}
  BY <1>1 DEF LosesLastRef, Referred, Live
<1>3. \A x \in created : Referred(x)' => Referred(x)
  BY <1>1 DEF Referred
<1> SUFFICES ASSUME NEW x \in created PROVE Placed(x)'
  OBVIOUS
<1>4. Placed(x)
  BY DEF PlaceInv
<1>5. CASE x = r
  BY <1>1, <1>2, <1>3, <1>5 DEF Placed
<1>6. CASE x # r /\ x \in recycled
  BY <1>1, <1>2, <1>3, <1>4, <1>6 DEF Placed, Live
<1>7. CASE x # r /\ x \notin recycled /\ x \in unreffed
  BY <1>1, <1>3, <1>4, <1>7 DEF Placed
<1>8. CASE x # r /\ x \notin recycled /\ x \notin unreffed
  <2>1. CASE x \in LosesLastRef(held, {r})
    <3>1. Referred(x) /\ ~Referred(x)'
      BY <1>1, <1>2, <2>1 DEF Referred
    <3> QED BY <1>1, <1>4, <1>8, <2>1, <3>1 DEF Placed
  <2>2. CASE x \notin LosesLastRef(held, {r})
    <3>1. x \in Live'
      BY <1>1, <1>8 DEF Live
    <3>2. Referred(x)' <=> Referred(x)
      BY <1>1, <1>2, <1>3, <2>2, <3>1 DEF Referred
    <3> QED BY <1>1, <1>4, <1>8, <2>2, <3>2 DEF Placed
  <2> QED BY <2>1, <2>2
<1> QED BY <1>5, <1>6, <1>7, <1>8

LEMMA OnReceiveOwnableIInv ==
  ASSUME IInv, NEW r \in Resource, OnReceiveOwnable(r)
  PROVE  IInv'
<1> USE DEF IInv
<1>1. /\ r \in unreffed /\ r \in created
      /\ UNCHANGED commandVars /\ UNCHANGED last_finished_sequence_number
      /\ UNCHANGED <<resource_sequence_number, created, held, contents, uses>>
  BY DEF OnReceiveOwnable, ResourceTypes, clientVars
<1>2. r \notin recycled /\ ~Referred(r) /\ ~Deferred(r)
  BY <1>1 DEF PlaceInv, Placed
<1>3. owner[r] \in Recycler
  BY OwnerAssumption
<1>4. CommandInv'
  BY <1>1 DEF CommandInv, commandVars
<1>5. CASE MayRecycle(r)
  <2>1. /\ RecycleResource(r, unreffed \ {r})
        /\ unused_resources' = unused_resources
    BY <1>5 DEF OnReceiveOwnable
  <2>2. /\ recycled' = recycled \cup {r} /\ unreffed' \subseteq created
    BY <2>1 DEF RecycleResource, LosesLastRef, Live, ResourceTypes
  <2>3. ResourceTypes'
    BY <1>1, <2>1, <2>2 DEF ResourceTypes
  <2>4. resource_sequence_number[r] <= announced
    BY <1>1, <1>3, <1>5 DEF MayRecycle, NumberInv, ResourceTypes, CommandInv
  <2>5. NumberInv'
    BY <1>1, <2>2, <2>4 DEF NumberInv, commandVars
  <2>6. \A x \in created : Deferred(x)' <=> Deferred(x) /\ x # r
    BY <1>2, <2>1 DEF Deferred
  <2>7. PlaceInv'
    BY <1>1, <1>2, <2>1, <2>6, RecyclePlaced DEF PlaceInv
  <2> QED BY <1>4, <2>3, <2>5, <2>7
<1>6. CASE ~MayRecycle(r)
  <2>1. /\ unused_resources' = [unused_resources EXCEPT ![owner[r]] = @ \cup {r}]
        /\ unreffed' = unreffed \ {r} /\ recycled' = recycled
    BY <1>6 DEF OnReceiveOwnable
  <2>2. ResourceTypes'
    BY <1>1, <1>3, <2>1 DEF ResourceTypes
  <2>3. NumberInv'
    BY <1>1, <2>1 DEF NumberInv, commandVars
  <2>4. \A m \in Recycler : \A x \in unused_resources'[m] : owner[x] = m
    BY <1>3, <2>1 DEF PlaceInv, ResourceTypes
  <2>5. \A x \in created : Deferred(x)' <=> Deferred(x) \/ x = r
    <3>1. \A x \in created : owner[x] \in Recycler
      BY OwnerAssumption DEF ResourceTypes
    <3> QED BY <1>3, <2>1, <3>1 DEF Deferred, ResourceTypes
  <2>6. \A x \in created : Referred(x)' <=> Referred(x)
    BY <1>1, <2>1 DEF Referred, Live
  <2>7. \A x \in created : Placed(x)'
    BY <1>2, <2>1, <2>5, <2>6 DEF PlaceInv, Placed
  <2> QED BY <1>1, <1>4, <2>2, <2>3, <2>4, <2>7 DEF PlaceInv
<1> QED BY <1>5, <1>6

LEMMA RecycleUnusedIInv ==
  ASSUME IInv, RecycleUnused
  PROVE  IInv'
<1> USE DEF IInv
<1>1. PICK m \in Recycler : \E r \in Ready(m) :
        /\ unused_resources' = [unused_resources EXCEPT ![m] = @ \ {r}]
        /\ RecycleResource(r, {})
  BY DEF RecycleUnused
<1>2. PICK r \in Ready(m) :
        /\ unused_resources' = [unused_resources EXCEPT ![m] = @ \ {r}]
        /\ RecycleResource(r, {})
  BY <1>1
<1>3. /\ unreffed = {}
      /\ UNCHANGED commandVars /\ UNCHANGED last_finished_sequence_number
      /\ UNCHANGED <<resource_sequence_number, created, held, contents, uses>>
  BY DEF RecycleUnused, clientVars
<1>4. r \in unused_resources[m] /\ MayRecycle(r)
  BY DEF Ready
<1>5. r \in created /\ owner[r] = m /\ Deferred(r)
  BY <1>4 DEF ResourceTypes, PlaceInv, Deferred
<1>6. r \notin recycled /\ ~Referred(r)
  BY <1>3, <1>5 DEF PlaceInv, Placed
<1>7. /\ recycled' = recycled \cup {r} /\ unreffed' \subseteq created
  BY <1>2 DEF RecycleResource, LosesLastRef, Live
<1>8. CommandInv'
  BY <1>3 DEF CommandInv, commandVars
<1>9. ResourceTypes'
  BY <1>2, <1>3, <1>5, <1>7 DEF ResourceTypes
<1>10. resource_sequence_number[r] <= announced
  BY <1>4, <1>5 DEF MayRecycle, NumberInv, ResourceTypes, CommandInv
<1>11. NumberInv'
  BY <1>3, <1>7, <1>10 DEF NumberInv, commandVars
<1>12. \A x \in created : Deferred(x)' <=> Deferred(x) /\ x # r
  <2>1. \A x \in created : owner[x] \in Recycler
    BY OwnerAssumption DEF ResourceTypes
  <2> QED BY <1>2, <1>5, <2>1 DEF Deferred, ResourceTypes
<1>13. unreffed \ {r} = {}
  BY <1>3
<1>14. \A x \in created' : Placed(x)'
  BY <1>2, <1>3, <1>5, <1>6, <1>12, <1>13, RecyclePlaced
<1>15. \A k \in Recycler : \A x \in unused_resources'[k] : owner[x] = k
  BY <1>2 DEF PlaceInv, ResourceTypes
<1> QED BY <1>8, <1>9, <1>11, <1>14, <1>15 DEF PlaceInv

(* A recycler's copy of the last finished number is reset when it registers *)
(* and brought up to date when it is notified.                             *)
LEMMA CopyIInv ==
  ASSUME IInv, NEW m, NEW n \in 0..announced,
         last_finished_sequence_number' =
           [last_finished_sequence_number EXCEPT ![m] = n],
         UNCHANGED commandVars,
         UNCHANGED <<unused_resources, recycled, unreffed>>,
         UNCHANGED <<resource_sequence_number, created, held, contents, uses>>
  PROVE  IInv'
<1> USE DEF IInv
<1>1. CommandInv'
  BY DEF CommandInv, commandVars
<1>2. ResourceTypes'
  <2>1. n \in Nat
    BY DEF CommandInv
  <2>2. last_finished_sequence_number' \in [Recycler -> Nat]
    BY <2>1 DEF ResourceTypes
  <2> QED BY <2>2 DEF ResourceTypes
<1>3. NumberInv'
  BY DEF NumberInv, ResourceTypes, CommandInv, commandVars
<1>4. PlaceInv'
  BY DEF PlaceInv, Placed, Referred, Deferred, Live
<1> QED BY <1>1, <1>2, <1>3, <1>4

LEMMA RegisterIInv ==
  ASSUME IInv, NEW m \in Recycler, Register(m)
  PROVE  IInv'
<1>1. 0 \in 0..announced
  BY DEF IInv, CommandInv
<1> QED BY <1>1, CopyIInv DEF Register

LEMMA EnterListenerIInv ==
  ASSUME IInv, EnterListener
  PROVE  IInv'
<1>1. announced \in 0..announced
  BY DEF IInv, CommandInv
<1> QED BY <1>1, CopyIInv DEF EnterListener, clientVars

(* The sequencer's vector of listeners and the position in it are of no    *)
(* importance to the invariant.                                            *)
LEMMA OtherIInv ==
  ASSUME IInv, UNCHANGED <<commandVars, resourceVars>>,
         UNCHANGED <<resource_sequence_number, created, held, contents, uses>>
  PROVE  IInv'
<1>1. CommandInv'
  BY DEF IInv, CommandInv, commandVars
<1>2. ResourceTypes'
  BY DEF IInv, ResourceTypes, resourceVars
<1>3. NumberInv'
  BY DEF IInv, NumberInv, commandVars, resourceVars
<1>4. PlaceInv'
  BY DEF IInv, PlaceInv, Placed, Referred, Deferred, Live, resourceVars
<1> QED BY <1>1, <1>2, <1>3, <1>4 DEF IInv

LEMMA NextIInv == IInv /\ [ResourceNext]_allVars => IInv'
<1> SUFFICES ASSUME IInv, [ResourceNext]_allVars PROVE IInv'
  OBVIOUS
<1>1. ASSUME NEW m \in Recycler, Register(m) \/ Unregister(m)
      PROVE  IInv'
  <2>1. CASE Register(m)
    BY <2>1, RegisterIInv
  <2>2. CASE Unregister(m)
    BY <2>2, OtherIInv DEF Unregister
  <2> QED BY <1>1, <2>1, <2>2
<1>2. ASSUME NEW r \in Resource, NewResource(r) \/ TakePart(r) \/ Release(r)
      PROVE  IInv'
  BY <1>2, NewResourceIInv, TakePartIInv, ReleaseIInv
<1>3. ASSUME NEW n \in 1..issued, NEW r \in Resource, KeepAlive(n, r)
      PROVE  IInv'
  BY <1>3, KeepAliveIInv
<1>4. ASSUME NEW n \in 1..issued, Finish(n)
      PROVE  IInv'
  <2>1. CommandInv' /\ announced <= announced'
    BY <1>4, FinishCommandInv DEF IInv, Finish
  <2> QED BY <1>4, <2>1, CommandsIInv DEF Finish
<1>5. ASSUME RecyclerStep PROVE IInv'
  <2>1. ASSUME NEW r \in Resource, OnReceiveOwnable(r) PROVE IInv'
    BY <2>1, OnReceiveOwnableIInv
  <2>2. ASSUME LeaveListener \/ LeaveNotification PROVE IInv'
    BY <2>2, OtherIInv DEF LeaveListener, LeaveNotification, clientVars
  <2> QED BY <1>5, <2>1, <2>2, EnterListenerIInv, RecycleUnusedIInv DEF RecyclerStep
<1>6. ASSUME Commands PROVE IInv'
  <2>1. UNCHANGED <<resourceVars, clientVars>>
    BY <1>6 DEF Commands
  <2>2. HandOut \/ \E n \in 1..issued : SubmitNumber(n) \/ Execute(n)
    BY <1>6 DEF Commands
  <2>3. CommandInv' /\ announced' = announced
    BY <2>2, HandOutCommandInv, SubmitCommandInv DEF IInv
  <2>4. announced \in Nat
    BY DEF IInv, CommandInv
  <2> QED BY <2>1, <2>3, <2>4, CommandsIInv
<1>7. CASE UNCHANGED allVars
  BY <1>7, OtherIInv DEF allVars, clientVars
<1> QED BY <1>1, <1>2, <1>3, <1>4, <1>5, <1>6, <1>7 DEF ResourceNext

------------------------------------------------------------------------------
(* resource_recycler.h:15: what recorded or executing commands refer to is *)
(* not recycled, and neither is a part of it.  A resource is recycled only *)
(* when its number is announced, its number is at least that of every      *)
(* command buffer that uses it, and what is announced is finished.         *)
THEOREM NothingRecycledUnderUse == ResourceSpec => []UsedIsNotRecycled
<1>1. IInv => UsedIsNotRecycled
  <2> SUFFICES ASSUME IInv PROVE UsedIsNotRecycled
    OBVIOUS
  <2> USE DEF IInv
  <2>1. ASSUME NEW n \in recording \cup executing, NEW r \in uses[n], r \in recycled
        PROVE  FALSE
    <3>1. n \in 1..issued /\ n \in 1..MaxSequence /\ n \notin finished
      BY MaxSequenceAssumption DEF CommandInv
    <3>2. n <= resource_sequence_number[r] /\ resource_sequence_number[r] <= announced
      BY <2>1, <3>1 DEF NumberInv
    <3>3. resource_sequence_number[r] \in Nat
      BY <3>1 DEF ResourceTypes
    <3>4. n \in 1..announced
      BY <3>1, <3>2, <3>3 DEF CommandInv
    <3> QED BY <3>1, <3>4 DEF CommandInv
  <2>2. ASSUME NEW c \in Live, NEW r \in contents[c], r \in recycled
        PROVE  FALSE
    BY <2>2 DEF ResourceTypes, PlaceInv, Placed, Referred, Live
  <2> QED BY <2>1, <2>2 DEF UsedIsNotRecycled
<1> QED BY <1>1, InitIInv, NextIInv, PTL DEF ResourceSpec

(* Every resource is referred to, on its way to its owner, deferred or     *)
(* recycled, and only one of these (base/ownable.h, resource_recycler.cc): *)
(* none leaks, and none is recycled twice, however deep resources are      *)
(* nested and in whatever order they are let go of.                        *)
THEOREM EachResourceInOnePlace == ResourceSpec => []NoneLeaksOrRecycledTwice
<1>1. IInv => NoneLeaksOrRecycledTwice
  BY DEF IInv, PlaceInv, Placed, Referred, Deferred, NoneLeaksOrRecycledTwice
<1> QED BY <1>1, InitIInv, NextIInv, PTL DEF ResourceSpec
------------------------------------------------------------------------------
(* A ResourceRecycler holds on to nothing for longer than the commands     *)
(* need it, whichever listeners come and go.                               *)
Registered(m) == \E i \in 1..Len(listeners) : listeners[i] = m

(* The notification on the stack has not reached m yet.                    *)
Awaiting(m) ==
  \E i \in 1..Len(listeners) :
    /\ listeners[i] = m
    /\ \/ notifying = "next" /\ notified < i
       \/ notifying = "loop" /\ notified + 1 < i

Looping(m) == notifying = "loop" /\ listeners[notified + 1] = m

ListenersInv ==
  /\ listeners \in Seq(Recycler)
  /\ \A i, j \in 1..Len(listeners) : listeners[i] = listeners[j] => i = j
  /\ notifying \in {"none", "next", "loop"}
  /\ notified \in Nat
  /\ notifying = "next" => notified <= Len(listeners)
  /\ notifying = "loop" => notified < Len(listeners)

(* A recycler whose copy is older than the sequencer's number owns nothing *)
(* that the numbers in between could concern, or is about to be told; and  *)
(* what it has deferred is later than its copy, or in its loop's way.      *)
TimelyFor(r) ==
  /\ Registered(owner[r])
  /\ \/ announced < resource_sequence_number[r]
     \/ Awaiting(owner[r])
     \/ resource_sequence_number[r] <= last_finished_sequence_number[owner[r]]
  /\ \/ ~Deferred(r)
     \/ Looping(owner[r])
     \/ last_finished_sequence_number[owner[r]] < resource_sequence_number[r]

TimelyInv ==
  /\ \A r \in Resource \ created : resource_sequence_number[r] = 0
  /\ \A r \in Live : TimelyFor(r)

TInv == IInv /\ ListenersInv /\ TimelyInv

LEMMA TypesOfLive ==
  ASSUME IInv
  PROVE  /\ announced \in Nat
         /\ \A r \in Live :
              /\ r \in created /\ r \in Resource /\ owner[r] \in Recycler
              /\ resource_sequence_number[r] \in Nat
              /\ last_finished_sequence_number[owner[r]] \in Nat
BY OwnerAssumption DEF IInv, CommandInv, ResourceTypes, Live

LEMMA InitTInv == ResourceInit => TInv
<1> SUFFICES ASSUME ResourceInit PROVE TInv
  OBVIOUS
<1>1. ListenersInv
  BY EmptySeq DEF ResourceInit, ListenersInv
<1>2. TimelyInv
  BY DEF ResourceInit, TimelyInv, Live
<1> QED BY <1>1, <1>2, InitIInv DEF TInv

------------------------------------------------------------------------------
(* Steps that leave the listeners and the numbers alone need only care for *)
(* what they defer.                                                        *)
LEMMA SameNumbersTimely ==
  ASSUME TInv, UNCHANGED <<listeners, notifying, notified>>,
         UNCHANGED <<announced, created, last_finished_sequence_number,
                     resource_sequence_number>>,
         Live' \subseteq Live,
         \A r \in Live' : Deferred(r)' =>
            \/ Deferred(r)
            \/ last_finished_sequence_number[owner[r]] < resource_sequence_number[r]
  PROVE  ListenersInv' /\ TimelyInv'
<1>1. ListenersInv'
  BY DEF TInv, ListenersInv
<1>2. \A r \in Live' : TimelyFor(r)'
  BY DEF TInv, TimelyInv, TimelyFor, Registered, Awaiting, Looping
<1> QED BY <1>1, <1>2 DEF TInv, TimelyInv

LEMMA NewResourceTimely ==
  ASSUME TInv, NEW r \in Resource, NewResource(r)
  PROVE  ListenersInv' /\ TimelyInv'
<1>1. /\ r \notin created /\ created' = created \cup {r}
      /\ owner[r] \in ToSet(listeners)
      /\ UNCHANGED <<listeners, notifying, notified>>
      /\ announced' = announced
      /\ UNCHANGED <<last_finished_sequence_number, unused_resources, recycled,
                     resource_sequence_number>>
  BY DEF NewResource, resourceVars, notifyVars, commandVars
<1>2. Live' = Live \cup {r}
  BY <1>1 DEF Live, TInv, IInv, ResourceTypes
<1>3. ListenersInv'
  BY <1>1 DEF TInv, ListenersInv
<1>4. \A x \in Live : TimelyFor(x)'
  BY <1>1 DEF TInv, TimelyInv, TimelyFor, Registered, Awaiting, Looping, Deferred
<1>5. TimelyFor(r)'
  <2>1. Registered(owner[r])'
    <3>1. DOMAIN listeners = 1..Len(listeners)
      BY LenProperties DEF TInv, ListenersInv
    <3> QED BY <1>1, <3>1 DEF Registered, ToSet
  <2>2. resource_sequence_number'[r] = 0
    BY <1>1 DEF TInv, TimelyInv
  <2>3. owner[r] \in Recycler /\ last_finished_sequence_number'[owner[r]] \in Nat
    BY <1>1, OwnerAssumption DEF TInv, IInv, ResourceTypes
  <2>4. ~Deferred(r)'
    BY <1>1, <2>3 DEF Deferred, TInv, IInv, ResourceTypes
  <2> QED BY <2>1, <2>2, <2>3, <2>4 DEF TimelyFor
<1>6. \A x \in Resource \ created' : resource_sequence_number'[x] = 0
  BY <1>1 DEF TInv, TimelyInv
<1> QED BY <1>2, <1>3, <1>4, <1>5, <1>6 DEF TimelyInv

(* What commands refer to gets the number of a command buffer that is not  *)
(* finished, of which its owner will be told.                              *)
LEMMA KeepAliveTimely ==
  ASSUME TInv, NEW n \in 1..issued, NEW r \in Resource, KeepAlive(n, r)
  PROVE  ListenersInv' /\ TimelyInv'
<1>1. /\ r \in held /\ n \in recording
      /\ resource_sequence_number' = [resource_sequence_number EXCEPT ![r] = n]
      /\ UNCHANGED <<listeners, notifying, notified>>
      /\ announced' = announced
      /\ UNCHANGED <<last_finished_sequence_number, unused_resources, recycled, created>>
  BY DEF KeepAlive, resourceVars, notifyVars, commandVars
<1>2. Live' = Live
  BY <1>1 DEF Live
<1>3. ListenersInv'
  BY <1>1 DEF TInv, ListenersInv
<1>4. /\ resource_sequence_number'[r] = n
      /\ \A x \in Resource : x # r =>
           resource_sequence_number'[x] = resource_sequence_number[x]
  BY <1>1 DEF TInv, IInv, ResourceTypes
<1>5. r \in created
  BY <1>1 DEF TInv, IInv, ResourceTypes
<1>6. ASSUME NEW x \in Live PROVE TimelyFor(x)'
  <2>1. TimelyFor(x) /\ x \in Resource
    BY TypesOfLive DEF TInv, TimelyInv
  <2>2. CASE x # r
    BY <1>1, <1>4, <2>1, <2>2
    DEF TimelyFor, Registered, Awaiting, Looping, Deferred
  <2>3. CASE x = r
    <3>1. announced < n
      BY <1>1, PendingIsLater DEF TInv, IInv
    <3>2. ~Deferred(r)
      BY <1>1, <1>5 DEF TInv, IInv, PlaceInv, Placed, Referred
    <3> QED BY <1>1, <1>4, <2>1, <2>3, <3>1, <3>2 DEF TimelyFor, Registered, Deferred
  <2> QED BY <2>2, <2>3
<1>7. \A x \in Resource \ created' : resource_sequence_number'[x] = 0
  BY <1>1, <1>4, <1>5 DEF TInv, TimelyInv
<1> QED BY <1>2, <1>3, <1>6, <1>7 DEF TimelyInv

LEMMA RegisterTimely ==
  ASSUME TInv, NEW m \in Recycler, Register(m)
  PROVE  ListenersInv' /\ TimelyInv'
<1>1. /\ notifying = "none" /\ m \notin ToSet(listeners)
      /\ listeners' = Append(listeners, m)
      /\ last_finished_sequence_number' = [last_finished_sequence_number EXCEPT ![m] = 0]
      /\ UNCHANGED <<notifying, notified>>
      /\ announced' = announced
      /\ UNCHANGED <<unused_resources, recycled, created, resource_sequence_number>>
  BY DEF Register, Quiet, notifyVars, commandVars
<1>2. listeners \in Seq(Recycler) /\ Len(listeners) \in Nat
  BY LenProperties DEF TInv, ListenersInv
<1>3. /\ listeners' \in Seq(Recycler) /\ Len(listeners') = Len(listeners) + 1
      /\ \A i \in 1..Len(listeners) : listeners'[i] = listeners[i]
      /\ listeners'[Len(listeners) + 1] = m
  BY <1>1, <1>2, AppendProperties
<1>4. \A i \in 1..Len(listeners) : listeners[i] # m
  BY <1>1, <1>2, LenProperties DEF ToSet
<1>5. ListenersInv'
  <2>1. ASSUME NEW i \in 1..Len(listeners'), NEW j \in 1..Len(listeners'),
               listeners'[i] = listeners'[j]
        PROVE  i = j
    <3>1. CASE i \in 1..Len(listeners) /\ j \in 1..Len(listeners)
      BY <1>3, <2>1, <3>1 DEF TInv, ListenersInv
    <3>2. CASE i \notin 1..Len(listeners) \/ j \notin 1..Len(listeners)
      BY <1>2, <1>3, <1>4, <2>1, <3>2
    <3> QED BY <3>1, <3>2
  <2> QED BY <1>1, <1>3, <2>1 DEF TInv, ListenersInv
<1>6. Live' = Live
  BY <1>1 DEF Live
<1>7. ASSUME NEW x \in Live PROVE TimelyFor(x)'
  <2>1. TimelyFor(x) /\ owner[x] \in Recycler
    BY TypesOfLive DEF TInv, TimelyInv
  <2>2. owner[x] # m
    BY <1>4, <2>1 DEF TimelyFor, Registered
  <2>3. last_finished_sequence_number'[owner[x]] = last_finished_sequence_number[owner[x]]
    BY <1>1, <2>1, <2>2 DEF TInv, IInv, ResourceTypes
  <2>4. Registered(owner[x])'
    BY <1>2, <1>3, <2>1 DEF TimelyFor, Registered
  <2>5. ~Awaiting(owner[x]) /\ ~Looping(owner[x])
    BY <1>1 DEF Awaiting, Looping
  <2> QED BY <1>1, <2>1, <2>3, <2>4, <2>5 DEF TimelyFor, Deferred
<1> QED BY <1>1, <1>5, <1>6, <1>7 DEF TInv, TimelyInv

LEMMA UnregisterTimely ==
  ASSUME TInv, NEW m \in Recycler, Unregister(m)
  PROVE  ListenersInv' /\ TimelyInv'
<1>1. /\ notifying = "none" /\ \A r \in Live : owner[r] # m
      /\ UNCHANGED <<notifying, notified>>
      /\ announced' = announced
      /\ UNCHANGED <<last_finished_sequence_number, unused_resources, recycled,
                     created, resource_sequence_number>>
  BY DEF Unregister, Quiet, notifyVars, commandVars, resourceVars
<1>2. /\ listeners \in Seq(Recycler) /\ Len(listeners) \in Nat
      /\ DOMAIN listeners = 1..Len(listeners)
  BY LenProperties DEF TInv, ListenersInv
<1>3. PICK p \in 1..Len(listeners) :
        listeners[p] = m /\ listeners' = RemoveAt(listeners, p)
  BY <1>2 DEF Unregister
<1>4. /\ listeners' \in Seq(Recycler)
      /\ Len(listeners') = Len(listeners) - 1
      /\ \A j \in 1..Len(listeners) - 1 :
           listeners'[j] = IF j < p THEN listeners[j] ELSE listeners[j + 1]
  BY <1>2, <1>3, RemoveAtProperties
<1>5. ListenersInv'
  <2>1. ASSUME NEW i \in 1..Len(listeners'), NEW j \in 1..Len(listeners'),
               listeners'[i] = listeners'[j]
        PROVE  i = j
    <3> DEFINE Old(k) == IF k < p THEN k ELSE k + 1
    <3>1. \A k \in 1..Len(listeners') :
            Old(k) \in 1..Len(listeners) /\ listeners'[k] = listeners[Old(k)]
      BY <1>2, <1>4
    <3>2. Old(i) = Old(j)
      <4> HIDE DEF Old
      <4> QED BY <2>1, <3>1 DEF TInv, ListenersInv
    <3> QED BY <1>2, <1>4, <3>2
  <2> QED BY <1>1, <1>4, <2>1 DEF TInv, ListenersInv
<1>6. Live' = Live
  BY <1>1 DEF Live
<1>7. ASSUME NEW x \in Live PROVE TimelyFor(x)'
  <2>1. TimelyFor(x) /\ owner[x] # m
    BY <1>1 DEF TInv, TimelyInv
  <2>2. PICK i \in 1..Len(listeners) : listeners[i] = owner[x]
    BY <2>1 DEF TimelyFor, Registered
  <2>3. Registered(owner[x])'
    <3>1. i # p
      BY <1>3, <2>1, <2>2
    <3>2. CASE i < p
      <4>1. i \in 1..Len(listeners') /\ listeners'[i] = owner[x]
        BY <1>2, <1>4, <2>2, <3>2
      <4> QED BY <4>1 DEF Registered
    <3>3. CASE i > p
      <4>1. i - 1 \in 1..Len(listeners') /\ listeners'[i - 1] = owner[x]
        BY <1>2, <1>4, <2>2, <3>3
      <4> QED BY <4>1 DEF Registered
    <3> QED BY <3>1, <3>2, <3>3
  <2>4. ~Awaiting(owner[x]) /\ ~Looping(owner[x])
    BY <1>1 DEF Awaiting, Looping
  <2> QED BY <1>1, <2>1, <2>3, <2>4 DEF TimelyFor, Deferred
<1> QED BY <1>1, <1>5, <1>6, <1>7 DEF TInv, TimelyInv

------------------------------------------------------------------------------
(* The sequencer's notification.                                           *)

LEMMA FinishTimely ==
  ASSUME TInv, NEW n \in 1..issued, Finish(n)
  PROVE  ListenersInv' /\ TimelyInv'
<1>1. /\ notifying = "none" /\ notified' = 0
      /\ notifying' = IF announced' = announced THEN "none" ELSE "next"
      /\ UNCHANGED <<listeners, last_finished_sequence_number, unused_resources,
                     recycled, created, resource_sequence_number>>
  BY DEF Finish, Quiet, resourceVars, clientVars
<1>2. Len(listeners) \in Nat
  BY LenProperties DEF TInv, ListenersInv
<1>3. ListenersInv'
  BY <1>1, <1>2 DEF TInv, ListenersInv
<1>4. Live' = Live
  BY <1>1 DEF Live
<1>5. ASSUME NEW x \in Live PROVE TimelyFor(x)'
  <2>1. TimelyFor(x)
    BY DEF TInv, TimelyInv
  <2>2. ~Awaiting(owner[x]) /\ ~Looping(owner[x])
    BY <1>1 DEF Awaiting, Looping
  <2>3. CASE announced' = announced
    BY <1>1, <2>1, <2>2, <2>3 DEF TimelyFor, Registered, Deferred
  <2>4. CASE announced' # announced
    <3>1. Awaiting(owner[x])'
      BY <1>1, <1>2, <2>1, <2>4 DEF TimelyFor, Registered, Awaiting
    <3> QED BY <1>1, <2>1, <2>2, <3>1 DEF TimelyFor, Registered, Deferred
  <2> QED BY <2>3, <2>4
<1> QED BY <1>1, <1>3, <1>4, <1>5 DEF TInv, TimelyInv

LEMMA EnterListenerTimely ==
  ASSUME TInv, EnterListener
  PROVE  ListenersInv' /\ TimelyInv'
<1> DEFINE m == listeners[notified + 1]
<1>1. /\ notifying = "next" /\ notified < Len(listeners) /\ notifying' = "loop"
      /\ last_finished_sequence_number' =
           [last_finished_sequence_number EXCEPT ![m] = announced]
      /\ announced' = announced
      /\ UNCHANGED <<listeners, notified, unused_resources,
                     recycled, created, resource_sequence_number>>
  BY DEF EnterListener, clientVars, commandVars
<1>2. Len(listeners) \in Nat /\ notified + 1 \in 1..Len(listeners)
  BY <1>1, LenProperties DEF TInv, ListenersInv
<1>3. ListenersInv'
  BY <1>1 DEF TInv, ListenersInv
<1>4. Live' = Live
  BY <1>1 DEF Live
<1> HIDE DEF m
<1>5. ASSUME NEW x \in Live PROVE TimelyFor(x)'
  <2>1. /\ TimelyFor(x) /\ owner[x] \in Recycler
        /\ announced \in Nat /\ resource_sequence_number[x] \in Nat
    BY TypesOfLive DEF TInv, TimelyInv
  <2>2. Registered(owner[x])'
    BY <1>1, <2>1 DEF TimelyFor, Registered
  <2>3. CASE owner[x] = m
    <3>1. last_finished_sequence_number'[owner[x]] = announced
      BY <1>1, <2>1, <2>3 DEF TInv, IInv, ResourceTypes
    <3>2. Looping(owner[x])'
      BY <1>1, <2>3 DEF Looping, m
    <3>3. \/ announced' < resource_sequence_number'[x]
          \/ resource_sequence_number'[x] <= last_finished_sequence_number'[owner[x]]
      BY <1>1, <2>1, <3>1
    <3> QED BY <2>2, <3>2, <3>3 DEF TimelyFor
  <2>4. CASE owner[x] # m
    <3>1. last_finished_sequence_number'[owner[x]] = last_finished_sequence_number[owner[x]]
      BY <1>1, <2>1, <2>4 DEF TInv, IInv, ResourceTypes
    <3>2. Awaiting(owner[x]) => Awaiting(owner[x])'
      <4> SUFFICES ASSUME NEW i \in 1..Len(listeners), listeners[i] = owner[x],
                          notified < i
                   PROVE  Awaiting(owner[x])'
        BY <1>1 DEF Awaiting
      <4>1. i # notified + 1
        BY <2>4 DEF m
      <4>2. notified + 1 < i
        BY <1>2, <4>1 DEF TInv, ListenersInv
      <4> QED BY <1>1, <4>2 DEF Awaiting
    <3>3. ~Looping(owner[x])
      BY <1>1 DEF Looping
    <3> QED BY <1>1, <2>1, <2>2, <3>1, <3>2, <3>3 DEF TimelyFor, Deferred
  <2> QED BY <2>3, <2>4
<1> QED BY <1>1, <1>3, <1>4, <1>5 DEF TInv, TimelyInv

(* The loop is left when nothing is ready any more. *)
LEMMA LeaveListenerTimely ==
  ASSUME TInv, LeaveListener
  PROVE  ListenersInv' /\ TimelyInv'
<1>1. /\ notifying = "loop" /\ Ready(listeners[notified + 1]) = {}
      /\ notifying' = "next" /\ notified' = notified + 1
      /\ announced' = announced
      /\ UNCHANGED <<listeners, last_finished_sequence_number, unused_resources,
                     recycled, created, resource_sequence_number>>
  BY DEF LeaveListener, clientVars, commandVars, resourceVars
<1>2. Len(listeners) \in Nat /\ notified \in Nat /\ notified < Len(listeners)
  BY <1>1, LenProperties DEF TInv, ListenersInv
<1>3. ListenersInv'
  BY <1>1, <1>2 DEF TInv, ListenersInv
<1>4. Live' = Live
  BY <1>1 DEF Live
<1>5. ASSUME NEW x \in Live PROVE TimelyFor(x)'
  <2>1. /\ TimelyFor(x) /\ resource_sequence_number[x] \in Nat
        /\ last_finished_sequence_number[owner[x]] \in Nat
    BY TypesOfLive DEF TInv, TimelyInv
  <2>2. Awaiting(owner[x]) => Awaiting(owner[x])'
    BY <1>1 DEF Awaiting
  <2>3. Deferred(x) => last_finished_sequence_number[owner[x]] < resource_sequence_number[x]
    <3> SUFFICES ASSUME Deferred(x), Looping(owner[x])
                 PROVE  last_finished_sequence_number[owner[x]] < resource_sequence_number[x]
      BY <2>1 DEF TimelyFor
    <3>1. x \notin Ready(owner[x])
      BY <1>1 DEF Looping
    <3>2. ~MayRecycle(x)
      BY <3>1 DEF Ready, Deferred
    <3> QED BY <2>1, <3>2 DEF MayRecycle
  <2> QED BY <1>1, <2>1, <2>2, <2>3 DEF TimelyFor, Registered, Deferred
<1> QED BY <1>1, <1>3, <1>4, <1>5 DEF TInv, TimelyInv

LEMMA LeaveNotificationTimely ==
  ASSUME TInv, LeaveNotification
  PROVE  ListenersInv' /\ TimelyInv'
<1>1. /\ notifying = "next" /\ notified = Len(listeners) /\ notifying' = "none"
      /\ announced' = announced
      /\ UNCHANGED <<listeners, notified, last_finished_sequence_number,
                     unused_resources, recycled, created, resource_sequence_number>>
  BY DEF LeaveNotification, clientVars, commandVars, resourceVars
<1>2. ListenersInv'
  BY <1>1 DEF TInv, ListenersInv
<1>3. Live' = Live
  BY <1>1 DEF Live
<1>4. ASSUME NEW x \in Live PROVE TimelyFor(x)'
  <2>1. TimelyFor(x)
    BY DEF TInv, TimelyInv
  <2>2. ~Awaiting(owner[x]) /\ ~Looping(owner[x])
    BY <1>1, LenProperties DEF Awaiting, Looping, TInv, ListenersInv
  <2> QED BY <1>1, <2>1, <2>2 DEF TimelyFor, Registered, Deferred
<1> QED BY <1>1, <1>2, <1>3, <1>4 DEF TInv, TimelyInv

------------------------------------------------------------------------------
(* What is given back while it may not be recycled is later than the copy. *)
LEMMA OnReceiveOwnableTimely ==
  ASSUME TInv, NEW r \in Resource, OnReceiveOwnable(r)
  PROVE  ListenersInv' /\ TimelyInv'
<1>1. /\ announced' = announced
      /\ UNCHANGED <<listeners, notifying, notified, last_finished_sequence_number,
                     created, resource_sequence_number>>
  BY DEF OnReceiveOwnable, clientVars, commandVars, notifyVars
<1>2. Live' \subseteq Live
  BY <1>1 DEF OnReceiveOwnable, RecycleResource, Live
<1>3. ASSUME NEW x \in Live', Deferred(x)'
      PROVE  \/ Deferred(x)
             \/ last_finished_sequence_number[owner[x]] < resource_sequence_number[x]
  <2>1. /\ resource_sequence_number[x] \in Nat /\ owner[x] \in Recycler
        /\ last_finished_sequence_number[owner[x]] \in Nat
    BY <1>2, TypesOfLive DEF TInv
  <2>2. CASE MayRecycle(r)
    BY <1>3, <2>2 DEF OnReceiveOwnable, Deferred
  <2>3. CASE ~MayRecycle(r)
    <3>1. unused_resources' = [unused_resources EXCEPT ![owner[r]] = @ \cup {r}]
      BY <2>3 DEF OnReceiveOwnable
    <3>2. x = r \/ Deferred(x)
      BY <1>3, <2>1, <3>1 DEF Deferred, TInv, IInv, ResourceTypes
    <3> QED BY <2>1, <2>3, <3>2 DEF MayRecycle
  <2> QED BY <2>2, <2>3
<1> QED BY <1>1, <1>2, <1>3, SameNumbersTimely

LEMMA RecycleUnusedTimely ==
  ASSUME TInv, RecycleUnused
  PROVE  ListenersInv' /\ TimelyInv'
<1>1. /\ announced' = announced
      /\ UNCHANGED <<listeners, notifying, notified, last_finished_sequence_number,
                     created, resource_sequence_number>>
  BY DEF RecycleUnused, clientVars, commandVars, notifyVars
<1>2. PICK m \in Recycler : \E r \in Ready(m) :
        /\ unused_resources' = [unused_resources EXCEPT ![m] = @ \ {r}]
        /\ RecycleResource(r, {})
  BY DEF RecycleUnused
<1>3. Live' \subseteq Live
  BY <1>1, <1>2 DEF RecycleResource, Live
<1>4. ASSUME NEW x \in Live', Deferred(x)' PROVE Deferred(x)
  <2>1. owner[x] \in Recycler
    BY <1>3, TypesOfLive DEF TInv
  <2> QED BY <1>2, <1>4, <2>1 DEF Deferred, TInv, IInv, ResourceTypes
<1> QED BY <1>1, <1>3, <1>4, SameNumbersTimely

LEMMA OtherTimely ==
  ASSUME TInv, announced' = announced,
         UNCHANGED <<listeners, notifying, notified>>,
         UNCHANGED <<created, resource_sequence_number, recycled, unused_resources,
                     last_finished_sequence_number>>
  PROVE  ListenersInv' /\ TimelyInv'
<1>1. Live' = Live /\ \A x \in Live' : Deferred(x)' <=> Deferred(x)
  BY DEF Live, Deferred
<1> QED BY <1>1, SameNumbersTimely

LEMMA NextTInv == TInv /\ [ResourceNext]_allVars => TInv'
<1> SUFFICES ASSUME TInv, [ResourceNext]_allVars PROVE ListenersInv' /\ TimelyInv'
  BY NextIInv DEF TInv
<1>1. ASSUME NEW m \in Recycler, Register(m) \/ Unregister(m)
      PROVE  ListenersInv' /\ TimelyInv'
  BY <1>1, RegisterTimely, UnregisterTimely
<1>2. ASSUME NEW r \in Resource, NewResource(r) \/ TakePart(r) \/ Release(r)
      PROVE  ListenersInv' /\ TimelyInv'
  <2>1. CASE TakePart(r) \/ Release(r)
    BY <2>1, OtherTimely DEF TakePart, Release, commandVars, resourceVars, notifyVars
  <2> QED BY <1>2, <2>1, NewResourceTimely
<1>3. ASSUME NEW n \in 1..issued, NEW r \in Resource, KeepAlive(n, r)
      PROVE  ListenersInv' /\ TimelyInv'
  BY <1>3, KeepAliveTimely
<1>4. ASSUME NEW n \in 1..issued, Finish(n)
      PROVE  ListenersInv' /\ TimelyInv'
  BY <1>4, FinishTimely
<1>5. ASSUME RecyclerStep PROVE ListenersInv' /\ TimelyInv'
  BY <1>5, OnReceiveOwnableTimely, EnterListenerTimely, RecycleUnusedTimely,
     LeaveListenerTimely, LeaveNotificationTimely DEF RecyclerStep
<1>6. ASSUME Commands PROVE ListenersInv' /\ TimelyInv'
  <2>1. HandOut \/ \E n \in 1..issued : SubmitNumber(n) \/ Execute(n)
    BY <1>6 DEF Commands
  <2>2. announced' = announced
    BY <2>1, HandOutCommandInv, SubmitCommandInv DEF TInv, IInv
  <2> QED BY <1>6, <2>2, OtherTimely DEF Commands, resourceVars, clientVars, notifyVars
<1>7. CASE UNCHANGED allVars
  BY <1>7, OtherTimely DEF allVars, commandVars, resourceVars, clientVars, notifyVars
<1> QED BY <1>1, <1>2, <1>3, <1>4, <1>5, <1>6, <1>7 DEF ResourceNext

------------------------------------------------------------------------------
(* OnReceiveOwnable() and OnCommandBufferFinished() (resource_recycler.cc): *)
(* nothing leaks or is recycled twice, and between calls nothing is kept    *)
(* that is not still needed by a command buffer that is not announced,      *)
(* whenever its recycler registered.                                        *)
THEOREM NothingLeaksOrIsKeptTooLong == ResourceSpec => []NothingLeaksOrOutstays
<1>1. TInv => DeferredOnlyWhenNeeded
  <2> SUFFICES ASSUME TInv, notifying = "none",
                      NEW m \in Recycler, NEW r \in unused_resources[m]
               PROVE  resource_sequence_number[r] > announced
    BY DEF DeferredOnlyWhenNeeded, Quiet
  <2>1. r \in created /\ owner[r] = m /\ Deferred(r)
    BY DEF TInv, IInv, ResourceTypes, PlaceInv, Deferred
  <2>2. r \in Live
    BY <2>1 DEF TInv, IInv, PlaceInv, Placed, Live
  <2>3. TimelyFor(r) /\ ~Awaiting(owner[r]) /\ ~Looping(owner[r])
    BY <2>2 DEF TInv, TimelyInv, Awaiting, Looping
  <2>4. /\ announced \in Nat /\ resource_sequence_number[r] \in Nat
        /\ last_finished_sequence_number[owner[r]] \in Nat
    BY <2>2, TypesOfLive DEF TInv
  <2> QED BY <2>1, <2>3, <2>4 DEF TimelyFor
<1>2. ResourceSpec => []TInv
  BY InitTInv, NextTInv, PTL DEF ResourceSpec
<1> QED BY <1>1, <1>2, EachResourceInOnePlace, PTL DEF NothingLeaksOrOutstays
==============================================================================
