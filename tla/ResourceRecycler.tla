--------------------------- MODULE ResourceRecycler ---------------------------
(***************************************************************************)
(* resources/resource_recycler.{h,cc} together with what it depends on:    *)
(* KeepAlive() (impl/command_buffer.cc), the reference counts that hand a  *)
(* Resource to its owner (base/reffable.h, base/ownable.h, base/owner.h),  *)
(* and the notifications of the sequencer.  The command buffers are those  *)
(* of CommandBuffers, which CommandBufferPool implements.                  *)
(*                                                                         *)
(* Several recyclers are listeners of the one sequencer: those that Escher *)
(* creates, and those (BufferFactory, RoundedRectFactory) that a client    *)
(* creates at any time.  A Resource may hold references to others (a Mesh  *)
(* to its Buffers, a Texture or Framebuffer to its Images), which it drops *)
(* when it is destroyed.                                                   *)
(***************************************************************************)
EXTENDS CommandBuffers, Sequences, SequencesExt

CONSTANTS
  Recycler,     \* the ResourceRecyclers
  Resource,     \* bound: the Resources that are ever created
  owner         \* Resource -> the recycler that becomes its owner

ASSUME OwnerAssumption == owner \in [Resource -> Recycler]

VARIABLES
  listeners,    \* the sequencer's vector listeners_
  last_finished_sequence_number,  \* recycler -> its own copy
  unused_resources,   \* recycler -> the resources whose recycling it deferred
  resource_sequence_number,       \* resource -> its sequence_number_
  created,      \* the resources that were created
  held,         \* the resources some RefPtr of the client refers to
  contents,     \* resource -> the resources it holds references to
  recycled,     \* the resources that were destroyed (or put on a free list)
  unreffed,     \* those whose OnReceiveOwnable() is under way
  notified,     \* how many listeners the notification on the stack has reached
  notifying,    \* "none", "next" (to be called), "loop" (in the listener)
  uses          \* history: number -> the resources its commands refer to

resourceVars == <<last_finished_sequence_number, unused_resources, recycled,
                  unreffed>>
clientVars == <<listeners, resource_sequence_number, created, held, contents,
                uses>>
notifyVars == <<notified, notifying>>
allVars == <<commandVars, resourceVars, clientVars, notifyVars>>

ResourceInit ==
  /\ Init
  /\ listeners = <<>>
  /\ last_finished_sequence_number = [m \in Recycler |-> 0]
  /\ unused_resources = [m \in Recycler |-> {}]
  /\ resource_sequence_number = [r \in Resource |-> 0]
  /\ created = {}
  /\ held = {}
  /\ contents = [r \in Resource |-> {}]
  /\ recycled = {}
  /\ unreffed = {}
  /\ notified = 0
  /\ notifying = "none"
  /\ uses = [n \in 1..MaxSequence |-> {}]

(* Nothing of the recyclers is on the stack of the one host thread. *)
Quiet == unreffed = {} /\ notifying = "none"

Live == created \ recycled

(* The resources that lose their last reference when the client goes from  *)
(* held to h and the resources in gone are destroyed.                      *)
LosesLastRef(h, gone) ==
  {r \in Live \ gone :
     /\ r \in held \/ \E c \in gone : r \in contents[c]
     /\ r \notin h
     /\ \A c \in Live \ gone : r \notin contents[c]}

------------------------------------------------------------------------------
(* The client.                                                             *)

Register(m) ==
  /\ Quiet
  /\ m \notin ToSet(listeners)
  /\ listeners' = Append(listeners, m)
  /\ last_finished_sequence_number' =
       [last_finished_sequence_number EXCEPT ![m] = 0]
  /\ UNCHANGED <<commandVars, unused_resources, recycled, unreffed,
                 resource_sequence_number, created, held, contents, uses,
                 notifyVars>>

(* ~ResourceRecycler() insists that nothing is left to be recycled, ~Owner *)
(* that nothing it owns is left at all.                                    *)
Unregister(m) ==
  /\ Quiet
  /\ \A r \in Live : owner[r] # m
  /\ \E i \in DOMAIN listeners :
       /\ listeners[i] = m
       /\ listeners' = RemoveAt(listeners, i)
  /\ UNCHANGED <<commandVars, resourceVars, resource_sequence_number, created,
                 held, contents, uses, notifyVars>>

NewResource(r) ==
  /\ Quiet
  /\ r \notin created
  /\ owner[r] \in ToSet(listeners)
  /\ created' = created \cup {r}
  /\ held' = held \cup {r}
  /\ \E parts \in SUBSET held : contents' = [contents EXCEPT ![r] = parts]
  /\ UNCHANGED <<commandVars, resourceVars, listeners,
                 resource_sequence_number, uses, notifyVars>>

(* The client takes a RefPtr to a part of a resource it refers to. *)
TakePart(r) ==
  /\ Quiet
  /\ r \notin held
  /\ \E c \in held : r \in contents[c]
  /\ held' = held \cup {r}
  /\ UNCHANGED <<commandVars, resourceVars, listeners,
                 resource_sequence_number, created, contents, uses, notifyVars>>

(* Commands that refer to r are recorded into buffer n.                    *)
(* FTL_DCHECK(resource->sequence_number() <= sequence_number_) is what the *)
(* client must see to.                                                     *)
KeepAlive(n, r) ==
  /\ Quiet
  /\ n \in recording
  /\ r \in held
  /\ resource_sequence_number[r] <= n
  /\ resource_sequence_number' = [resource_sequence_number EXCEPT ![r] = n]
  /\ uses' = [uses EXCEPT ![n] = @ \cup {r}]
  /\ UNCHANGED <<commandVars, resourceVars, listeners, created, held, contents,
                 notifyVars>>

(* The client drops its last RefPtr to r. *)
Release(r) ==
  /\ Quiet
  /\ r \in held
  /\ held' = held \ {r}
  /\ unreffed' = LosesLastRef(held', {})
  /\ UNCHANGED <<commandVars, listeners, last_finished_sequence_number,
                 unused_resources, recycled, resource_sequence_number, created,
                 contents, uses, notifyVars>>

------------------------------------------------------------------------------
(* The recyclers.                                                          *)

(* A bug to be caught: off by one. *)
MayRecycleEarly(r) ==
  resource_sequence_number[r] <= last_finished_sequence_number[owner[r]] + 1

MayRecycle(r) ==
  resource_sequence_number[r] <= last_finished_sequence_number[owner[r]]

(* r is destroyed; whatever it was the last to refer to goes to its owner. *)
RecycleResource(r, left) ==
  /\ recycled' = recycled \cup {r}
  /\ unreffed' = left \cup LosesLastRef(held, {r})

OnReceiveOwnable(r) ==
  /\ r \in unreffed
  /\ IF MayRecycle(r)
     THEN RecycleResource(r, unreffed \ {r}) /\ UNCHANGED unused_resources
     ELSE /\ unused_resources' =
               [unused_resources EXCEPT ![owner[r]] = @ \cup {r}]
          /\ unreffed' = unreffed \ {r}
          /\ UNCHANGED recycled
  /\ UNCHANGED <<commandVars, last_finished_sequence_number, clientVars,
                 notifyVars>>

(* CommandBufferFinished(n) of the sequencer, up to its loop over the      *)
(* listeners, which it enters only if n was in sequence.                   *)
Finish(n) ==
  /\ Quiet
  /\ FinishNumber(n)
  /\ notifying' = IF announced' = announced THEN "none" ELSE "next"
  /\ notified' = 0
  /\ UNCHANGED <<resourceVars, clientVars>>

(* OnCommandBufferFinished() of the next listener. *)
EnterListener ==
  /\ notifying = "next"
  /\ notified < Len(listeners)
  /\ last_finished_sequence_number' =
       [last_finished_sequence_number EXCEPT
          ![listeners[notified + 1]] = announced]
  /\ notifying' = "loop"
  /\ UNCHANGED <<commandVars, unused_resources, recycled, unreffed, clientVars,
                 notified>>

Ready(m) == {r \in unused_resources[m] : MayRecycle(r)}

(* A bug to be caught: the recycled resource is not erased from the map. *)
RecycleWithoutErase ==
  /\ notifying = "loop"
  /\ unreffed = {}
  /\ \E r \in Ready(listeners[notified + 1]) : RecycleResource(r, {})
  /\ UNCHANGED <<commandVars, last_finished_sequence_number, unused_resources,
                 clientVars, notifyVars>>

(* An iteration of its loop that recycles.  The order is that of a hash    *)
(* map; what the destruction of r adds to the map is not ready.            *)
RecycleUnused ==
  /\ notifying = "loop"
  /\ unreffed = {}
  /\ \E m \in Recycler :
       /\ m = listeners[notified + 1]
       /\ \E r \in Ready(m) :
            /\ unused_resources' = [unused_resources EXCEPT ![m] = @ \ {r}]
            /\ RecycleResource(r, {})
  /\ UNCHANGED <<commandVars, last_finished_sequence_number, clientVars,
                 notifyVars>>

(* A bug to be caught: the loop stops before the end of the map. *)
LeaveListenerEarly ==
  /\ notifying = "loop"
  /\ unreffed = {}
  /\ notifying' = "next"
  /\ notified' = notified + 1
  /\ UNCHANGED <<commandVars, resourceVars, clientVars>>

LeaveListener ==
  /\ notifying = "loop"
  /\ unreffed = {}
  /\ Ready(listeners[notified + 1]) = {}
  /\ notifying' = "next"
  /\ notified' = notified + 1
  /\ UNCHANGED <<commandVars, resourceVars, clientVars>>

LeaveNotification ==
  /\ notifying = "next"
  /\ notified = Len(listeners)
  /\ notifying' = "none"
  /\ UNCHANGED <<commandVars, resourceVars, clientVars, notified>>

(* The other steps of the host, and of the GPU. *)
Commands ==
  /\ \/ Quiet /\ HandOut
     \/ Quiet /\ \E n \in 1..issued : SubmitNumber(n)
     \/ \E n \in 1..issued : Execute(n)
  /\ UNCHANGED <<resourceVars, clientVars, notifyVars>>

RecyclerStep ==
  \/ \E r \in Resource : OnReceiveOwnable(r)
  \/ EnterListener
  \/ RecycleUnused
  \/ LeaveListener
  \/ LeaveNotification

ResourceNext ==
  \/ \E m \in Recycler : Register(m) \/ Unregister(m)
  \/ \E r \in Resource : NewResource(r) \/ TakePart(r) \/ Release(r)
  \/ \E n \in 1..issued, r \in Resource : KeepAlive(n, r)
  \/ \E n \in 1..issued : Finish(n)
  \/ RecyclerStep
  \/ Commands

ResourceSpec == ResourceInit /\ [][ResourceNext]_allVars

(* The command buffers are submitted, executed and reported one day, and   *)
(* the host runs on.                                                       *)
Fairness ==
  /\ WF_allVars(RecyclerStep)
  /\ \A n \in 1..MaxSequence :
       /\ WF_allVars(Execute(n) /\ UNCHANGED <<resourceVars, clientVars, notifyVars>>)
       /\ SF_allVars(Quiet /\ SubmitNumber(n)
                      /\ UNCHANGED <<resourceVars, clientVars, notifyVars>>)
       /\ SF_allVars(Finish(n))

FairResourceSpec == ResourceSpec /\ Fairness
------------------------------------------------------------------------------
(* What resource_recycler.h:15 promises: a resource that the commands of a *)
(* buffer refer to is neither destroyed nor reused while they are recorded *)
(* or executed, and neither is a part of it, whoever owns what and however *)
(* early the client lets go of it.                                         *)
UsedIsNotRecycled ==
  /\ \A n \in recording \cup executing : uses[n] \cap recycled = {}
  /\ \A r \in Live : contents[r] \cap recycled = {}

(* A resource that nobody refers to waits only for command buffers that    *)
(* are not announced yet.  A recycler that registered late and has missed  *)
(* every announcement so far is no exception: otherwise it would hold on   *)
(* to the resource until some later buffer happens to finish, or for ever. *)
DeferredOnlyWhenNeeded ==
  Quiet => \A r \in UNION {unused_resources[m] : m \in Recycler} :
             resource_sequence_number[r] > announced

(* Every resource is referred to, or on its way to its owner, or deferred  *)
(* by its owner, or recycled, and only one of these: none leaks, none is   *)
(* recycled twice.                                                         *)
NoneLeaksOrRecycledTwice ==
  \A r \in created :
    LET referred == r \in held \/ \E c \in Live : r \in contents[c]
        deferred == r \in unused_resources[owner[r]]
    IN  CASE r \in recycled -> ~referred /\ ~deferred /\ r \notin unreffed
          [] r \in unreffed -> ~referred /\ ~deferred
          [] OTHER -> referred # deferred

(* What was let go of is recycled in the end.                              *)
DeferredIsRecycled ==
  \A r \in Resource :
    r \in unused_resources[owner[r]] ~> r \in recycled

(* Nothing is lost, and nothing kept for longer than the commands need it. *)
NothingLeaksOrOutstays == NoneLeaksOrRecycledTwice /\ DeferredOnlyWhenNeeded
==============================================================================
