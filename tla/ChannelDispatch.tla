--------------------------- MODULE ChannelDispatch ---------------------------
(***************************************************************************)
(* mini/net/Channel.cc, poller/ with its two backends and the dispatch     *)
(* part of EventLoop.cc: Channels register their interest, a poll collects *)
(* borrowed pointers to the active ones, and their callbacks may change,   *)
(* remove, create and destroy any Channel while the batch is being         *)
(* dispatched.  Everything runs on the owner thread of the loop.           *)
(***************************************************************************)
EXTENDS Naturals, Sequences, FiniteSets, Functions

CONSTANTS Channels,   \* addresses of Channel objects; an address may be used again
          Fds,        \* descriptors
          Null,       \* nullptr
          ReadySets   \* what the kernel reports of a descriptor: sets of Events

ASSUME ChannelAssumption == Null \notin Channels \cup Fds /\ IsFiniteSet(Fds)

Interest == {"read", "write"}
Events   == Interest \cup {"error", "close"}

VARIABLES
  pc,         \* tasks: outside dispatch.   dispatch: the for loop of EventLoop.cc:79.
              \* handling: in handleEventWithGuard.   callback: in a callback it called
  active,     \* activeChannels_, what is left of it
  current,    \* the Channel whose handleEvent is running, or Null
  callbacks,  \* the callbacks handleEventWithGuard has still to call, current one first
  fd,         \* fd_ of each Channel that exists, Null for the others
  events, revents, index, added,   \* events_, revents_, index_, addedToLoop_
  tied,       \* the Channel is tied to the object that owns it
  released,   \* the owner's last reference is gone, but handleEvent holds one
  backend,    \* the poller newDefaultPoller has made: "epoll" or "select"
  channels,   \* channels_ of the poller
  kernel,     \* what epoll holds for each descriptor
  fatal       \* epoll_ctl has failed, which ends the program

dispatchVars == <<pc, active, current, callbacks>>
channelVars  == <<fd, events, revents, index, added, tied, released>>
pollerVars   == <<backend, channels, kernel, fatal>>
vars == <<dispatchVars, channelVars, pollerVars>>

Unregistered == [channel |-> Null, mask |-> {}]

Exists(c) == fd[c] # Null

TypeOK ==
  /\ pc \in {"tasks", "dispatch", "handling", "callback"}
  /\ active \in Seq(Channels \cup {Null}) /\ current \in Channels \cup {Null}
  /\ callbacks \in Seq(Events)
  /\ fd \in [Channels -> Fds \cup {Null}]
  /\ events \in [Channels -> SUBSET Interest] /\ revents \in [Channels -> SUBSET Events]
  /\ index \in [Channels -> {"kNew", "kAdded", "kDeleted"}]
  /\ added \in [Channels -> BOOLEAN] /\ tied \in [Channels -> BOOLEAN]
  /\ released \subseteq Channels
  /\ backend \in {"epoll", "select"}
  /\ channels \in [Fds -> Channels \cup {Null}]
  /\ kernel \in [Fds -> [channel : Channels \cup {Null}, mask : SUBSET Interest]]
  /\ fatal \in BOOLEAN

Init ==
  /\ pc = "tasks" /\ active = <<>> /\ current = Null /\ callbacks = <<>>
  /\ fd = [c \in Channels |-> Null]
  /\ events = [c \in Channels |-> {}] /\ revents = [c \in Channels |-> {}]
  /\ index = [c \in Channels |-> "kNew"]
  /\ added = [c \in Channels |-> FALSE] /\ tied = [c \in Channels |-> FALSE]
  /\ released = {} /\ backend \in {"epoll", "select"}
  /\ channels = [f \in Fds |-> Null] /\ kernel = [f \in Fds |-> Unregistered]
  /\ fatal = FALSE

-----------------------------------------------------------------------------
(* EPollPoller *)

\* update(): epoll_ctl(op) for c with interest ev.  Adding a registered descriptor, or
\* changing or deleting one that is not, fails.
EpollCtl(op, c, ev) ==
  LET ok == (op = "ADD") <=> (kernel[fd[c]] = Unregistered)
  IN  /\ fatal' = (fatal \/ ~ok)
      /\ kernel' = [kernel EXCEPT ![fd[c]] =
                      IF ~ok THEN @
                      ELSE IF op = "DEL" THEN Unregistered
                      ELSE [channel |-> c, mask |-> ev]]

\* An updateChannel that drops a Channel without interest from the kernel whatever its
\* index is.
EPollUpdateChannelNaive(c, ev) ==
  /\ EpollCtl(IF ev = {} THEN "DEL" ELSE IF index[c] = "kAdded" THEN "MOD" ELSE "ADD", c, ev)
  /\ index' = [index EXCEPT ![c] = IF ev = {} THEN "kDeleted" ELSE "kAdded"]
  /\ channels' = [channels EXCEPT ![fd[c]] = IF index[c] = "kNew" THEN c ELSE @]

\* EPollPoller::updateChannel(): a Channel that is new or deleted is added, with or without interest.
EPollUpdateChannel(c, ev) ==
  \/ /\ index[c] \in {"kNew", "kDeleted"}
     /\ channels' = [channels EXCEPT ![fd[c]] = IF index[c] = "kNew" THEN c ELSE @]
     /\ index' = [index EXCEPT ![c] = "kAdded"]
     /\ EpollCtl("ADD", c, ev)
  \/ /\ index[c] = "kAdded" /\ ev = {}
     /\ EpollCtl("DEL", c, ev)
     /\ index' = [index EXCEPT ![c] = "kDeleted"]
     /\ UNCHANGED channels
  \/ /\ index[c] = "kAdded" /\ ev # {}
     /\ EpollCtl("MOD", c, ev)
     /\ UNCHANGED <<index, channels>>

EPollRemoveChannel(c) ==
  /\ channels' = [channels EXCEPT ![fd[c]] = Null]
  /\ IF index[c] = "kAdded" THEN EpollCtl("DEL", c, {}) ELSE UNCHANGED <<kernel, fatal>>
  /\ index' = [index EXCEPT ![c] = "kNew"]

-----------------------------------------------------------------------------
(* SelectPoller, and the choice between the two *)

SelectUpdateChannel(c, ev) ==
  /\ channels' = [channels EXCEPT ![fd[c]] = IF index[c] = "kNew" THEN c ELSE @]
  /\ index' = [index EXCEPT ![c] = IF ev = {} THEN "kDeleted" ELSE "kAdded"]
  /\ UNCHANGED <<kernel, fatal>>

SelectRemoveChannel(c) ==
  /\ channels' = [channels EXCEPT ![fd[c]] = Null]
  /\ index' = [index EXCEPT ![c] = "kNew"]
  /\ UNCHANGED <<kernel, fatal>>

UpdateChannel(c, ev) ==
  /\ \/ backend = "epoll" /\ EPollUpdateChannel(c, ev)
     \/ backend = "select" /\ SelectUpdateChannel(c, ev)
  /\ UNCHANGED backend

RemoveChannel(c) ==
  /\ \/ backend = "epoll" /\ EPollRemoveChannel(c)
     \/ backend = "select" /\ SelectRemoveChannel(c)
  /\ UNCHANGED backend

\* What a poll asks of f: what epoll holds, or the sets that select is given.
SelectSets(f) ==
  IF channels[f] # Null /\ index[channels[f]] = "kAdded" /\ events[channels[f]] # {}
  THEN [channel |-> channels[f], mask |-> events[channels[f]]] ELSE Unregistered

Asked(f) == IF backend = "epoll" THEN kernel[f] ELSE SelectSets(f)

-----------------------------------------------------------------------------
(* What callbacks, timers and functors do to Channels *)

UserCode == pc \in {"tasks", "callback"} /\ ~fatal

\* A Channel is constructed for a descriptor that nobody else has open.
Construct(c, f, tie) ==
  /\ UserCode /\ ~Exists(c) /\ \A d \in Channels : fd[d] # f
  /\ fd' = [fd EXCEPT ![c] = f] /\ tied' = [tied EXCEPT ![c] = tie]
  /\ events' = [events EXCEPT ![c] = {}] /\ revents' = [revents EXCEPT ![c] = {}]
  /\ index' = [index EXCEPT ![c] = "kNew"] /\ added' = [added EXCEPT ![c] = FALSE]
  /\ UNCHANGED <<dispatchVars, released, pollerVars>>

\* enableReading, disableReading, enableWriting, disableWriting and disableAll.  An
\* owner that has let go of its Channel does not touch it any more.
Update(c, ev) ==
  /\ UserCode /\ Exists(c) /\ c \notin released
  /\ \/ \E e \in Interest : ev \in {events[c] \cup {e}, events[c] \ {e}}
     \/ ev = {}
  /\ events' = [events EXCEPT ![c] = ev]
  /\ added' = [added EXCEPT ![c] = TRUE]
  /\ UpdateChannel(c, ev)
  /\ UNCHANGED <<dispatchVars, fd, revents, tied, released>>

\* An EventLoop::removeChannel that leaves the active batch alone.
RemoveOnly(c) ==
  /\ UserCode /\ Exists(c) /\ c \notin released /\ events[c] = {}
  /\ added' = [added EXCEPT ![c] = FALSE]
  /\ RemoveChannel(c)
  /\ UNCHANGED <<dispatchVars, fd, events, revents, tied, released>>

\* Channel::remove, which requires disableAll() first, and EventLoop::removeChannel.
LoopRemoveChannel(c) ==
  /\ UserCode /\ Exists(c) /\ c \notin released /\ events[c] = {}
  /\ added' = [added EXCEPT ![c] = FALSE]
  /\ RemoveChannel(c)
  /\ active' = [k \in DOMAIN active |-> IF active[k] = c THEN Null ELSE active[k]]
  /\ UNCHANGED <<pc, current, callbacks, fd, events, revents, tied, released>>

\* Destruction of c closes its descriptor.
DestroyChannel(c) == fd' = [fd EXCEPT ![c] = Null]

\* The owner lets go of c, removed before (remove-before-destroy).  An object that
\* handleEvent keeps alive through the tie is destroyed when handleEvent ends; an
\* untied Channel is not released from its own callbacks (its owner queues that).
Release(c) ==
  /\ UserCode /\ Exists(c) /\ ~added[c] /\ c \notin released
  /\ \/ c # current /\ DestroyChannel(c) /\ UNCHANGED released
     \/ c = current /\ tied[c] /\ released' = released \cup {c} /\ UNCHANGED fd
  /\ UNCHANGED <<dispatchVars, events, revents, index, added, tied, pollerVars>>

-----------------------------------------------------------------------------
(* The loop *)

\* What a poll may say of a descriptor: what the mask asks for, and without being asked
\* errors and, with epoll, hangups.
Reports(f) ==
  {r \cap (Asked(f).mask \cup (IF backend = "epoll" THEN {"error", "close"} ELSE {"error"})) :
     r \in ReadySets} \ {{}}

\* poll() fills activeChannels_ with the Channels of the descriptors that are ready.
Poll ==
  /\ pc = "tasks" /\ ~fatal
  /\ \E ready \in SUBSET {f \in Fds : Asked(f) # Unregistered} :
     \E r \in [ready -> UNION {Reports(f) : f \in ready}] :
       /\ \A f \in ready : r[f] \in Reports(f)
       /\ \E s \in Bijection(1..Cardinality(ready), ready) :
            active' = [k \in DOMAIN s |-> Asked(s[k]).channel]
       /\ revents' = [c \in Channels |->
                        IF \E f \in ready : Asked(f).channel = c
                        THEN r[CHOOSE f \in ready : Asked(f).channel = c] ELSE revents[c]]
  /\ pc' = "dispatch"
  /\ UNCHANGED <<current, callbacks, fd, events, index, added, tied, released, pollerVars>>

\* The order in which handleEventWithGuard calls back.
CallbacksOf(r) ==
  LET OnlyIf(cond, e) == IF cond THEN <<e>> ELSE <<>>
  IN  OnlyIf("close" \in r /\ "read" \notin r, "close") \o OnlyIf("error" \in r, "error")
        \o OnlyIf("read" \in r, "read") \o OnlyIf("write" \in r, "write")

SkipNull ==
  /\ pc = "dispatch" /\ active # <<>> /\ Head(active) = Null
  /\ active' = Tail(active)
  /\ UNCHANGED <<pc, current, callbacks, channelVars, pollerVars>>

HandleEvent ==
  /\ pc = "dispatch" /\ active # <<>> /\ Head(active) # Null
  /\ current' = Head(active) /\ active' = Tail(active)
  /\ callbacks' = CallbacksOf(revents[Head(active)])
  /\ pc' = "handling"
  /\ UNCHANGED <<channelVars, pollerVars>>

RunCallback ==
  /\ pc = "handling" /\ callbacks # <<>>
  /\ pc' = "callback"
  /\ UNCHANGED <<active, current, callbacks, channelVars, pollerVars>>

CallbackReturns ==
  /\ pc = "callback"
  /\ callbacks' = Tail(callbacks) /\ pc' = "handling"
  /\ UNCHANGED <<active, current, channelVars, pollerVars>>

\* handleEvent returns and drops its reference.
HandleEventDone ==
  /\ pc = "handling" /\ callbacks = <<>>
  /\ current' = Null /\ pc' = "dispatch"
  /\ released' = {}
  /\ fd' = [c \in Channels |-> IF c \in released THEN Null ELSE fd[c]]
  /\ UNCHANGED <<active, callbacks, events, revents, index, added, tied, pollerVars>>

DispatchDone ==
  /\ pc = "dispatch" /\ active = <<>>
  /\ pc' = "tasks"
  /\ UNCHANGED <<active, current, callbacks, channelVars, pollerVars>>

-----------------------------------------------------------------------------

LoopStep ==
  SkipNull \/ HandleEvent \/ RunCallback \/ CallbackReturns \/ HandleEventDone \/ DispatchDone

Next ==
  \/ LoopStep \/ Poll
  \/ \E c \in Channels :
       \/ LoopRemoveChannel(c) \/ Release(c)
       \/ \E f \in Fds, tie \in BOOLEAN : Construct(c, f, tie)
       \/ \E ev \in SUBSET Interest : Update(c, ev)

Spec == Init /\ [][Next]_vars

-----------------------------------------------------------------------------
(* Properties *)

\* Every pointer the loop will still dereference in this batch, and the one it is in,
\* points to a Channel that exists (EventLoop.cc:79-85, 194-206; Channel.cc:31-41).
NoDanglingDispatch ==
  /\ \A k \in DOMAIN active : active[k] # Null => Exists(active[k])
  /\ current # Null => Exists(current)

\* Whichever backend, what the next poll asks, channels_ and index_ tell the same story: a
\* Channel is asked for iff its index is kAdded, with its present interest, under its own
\* descriptor, and one that is gone is not.  So epoll_ctl never fails, which would end the
\* program, and select looks at no dead Channel, whatever sequence of enable, disable and
\* remove the owners produce (EPollPoller.cc:77-124; SelectPoller.cc:55-66, 82-100).
BackendConsistent ==
  /\ TypeOK
  /\ ~fatal
  /\ \A c \in Channels :
       /\ Exists(c) =>
            /\ Asked(fd[c]) = IF index[c] = "kAdded" THEN [channel |-> c, mask |-> events[c]]
                              ELSE Unregistered
            /\ channels[fd[c]] = IF index[c] = "kNew" THEN Null ELSE c
       /\ ~Exists(c) => \A f \in Fds : kernel[f].channel # c /\ channels[f] # c
=============================================================================
