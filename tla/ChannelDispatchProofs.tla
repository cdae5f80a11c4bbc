----------------------- MODULE ChannelDispatchProofs -----------------------
(***************************************************************************)
(* Proofs about ChannelDispatch, for any Channels, any finite set of       *)
(* descriptors and either backend.                                         *)
(***************************************************************************)
EXTENDS ChannelDispatch, FiniteSetTheorems, TLAPS

-----------------------------------------------------------------------------
(* The inductive invariant *)

\* Two Channels do not share a descriptor, and what the poller and the kernel hold for a
\* descriptor is the Channel that has it.
DescriptorInv ==
  /\ \A c, d \in Channels : Exists(c) /\ fd[c] = fd[d] => c = d
  /\ \A f \in Fds : channels[f] # Null => fd[channels[f]] = f /\ index[channels[f]] # "kNew"
  /\ \A f \in Fds : kernel[f] # Unregistered =>
       backend = "epoll" /\ kernel[f].channel # Null /\ fd[kernel[f].channel] = f

\* The registration of one Channel: addedToLoop_, index_, channels_ and the backend agree.
Registration(c) ==
  /\ added[c] <=> index[c] # "kNew"
  /\ index[c] # "kNew" => channels[fd[c]] = c
  /\ backend = "epoll" =>
       kernel[fd[c]] = IF index[c] = "kAdded" THEN [channel |-> c, mask |-> events[c]]
                      ELSE Unregistered
  /\ backend = "select" /\ index[c] = "kAdded" => events[c] # {}

PollerInv == ~fatal /\ DescriptorInv /\ \A c \in Channels : Exists(c) => Registration(c)

\* What is left of the batch is registered, and only the Channel that handleEvent is in may
\* outlive its owner.
DispatchInv ==
  /\ \A k \in DOMAIN active : active[k] # Null => Exists(active[k]) /\ added[active[k]]
  /\ current # Null => Exists(current)
  /\ \A c \in released : c = current /\ ~added[c]
  /\ pc \in {"tasks", "dispatch"} => current = Null
  /\ pc = "callback" => callbacks # <<>>

IInv == TypeOK /\ PollerInv /\ DispatchInv

-----------------------------------------------------------------------------

\* A function on 1..n is a sequence.
LEMMA FunctionIsSeq ==
  ASSUME NEW S, NEW n \in Nat, NEW s \in [1..n -> S]
  PROVE  s \in Seq(S)
OBVIOUS

-----------------------------------------------------------------------------
(* The two properties follow *)

\* The invariant implies what the poller promises: a descriptor's Channel is found by the
\* descriptor alone.
LEMMA PollerAgrees == IInv => BackendConsistent
<1> SUFFICES ASSUME IInv PROVE BackendConsistent
  OBVIOUS
<1> USE ChannelAssumption
<1>1. ASSUME NEW c \in Channels, Exists(c)
      PROVE  /\ Asked(fd[c]) = IF index[c] = "kAdded" THEN [channel |-> c, mask |-> events[c]]
                               ELSE Unregistered
             /\ channels[fd[c]] = IF index[c] = "kNew" THEN Null ELSE c
  <2>1. fd[c] \in Fds /\ Registration(c) /\ backend \in {"epoll", "select"}
    BY <1>1 DEF IInv, TypeOK, PollerInv, Exists
  <2>2. channels[fd[c]] = IF index[c] = "kNew" THEN Null ELSE c
    <3>1. CASE index[c] = "kNew"
      <4>1. SUFFICES ASSUME channels[fd[c]] # Null PROVE FALSE
        BY <3>1
      <4>2. channels[fd[c]] \in Channels
        BY <2>1, <4>1 DEF IInv, TypeOK
      <4>3. fd[channels[fd[c]]] = fd[c] /\ index[channels[fd[c]]] # "kNew"
        BY <2>1, <4>1 DEF IInv, PollerInv, DescriptorInv
      <4>4. channels[fd[c]] = c
        BY <1>1, <4>2, <4>3 DEF IInv, PollerInv, DescriptorInv
      <4> QED BY <3>1, <4>3, <4>4
    <3>2. CASE index[c] # "kNew"
      BY <2>1, <3>2 DEF Registration
    <3> QED BY <3>1, <3>2
  <2>3. CASE backend = "epoll"
    BY <2>1, <2>2, <2>3 DEF Asked, Registration
  <2>4. CASE backend = "select"
    BY <2>1, <2>2, <2>4 DEF Asked, SelectSets, Registration
  <2> QED BY <2>1, <2>2, <2>3, <2>4
<1>2. ASSUME NEW c \in Channels, ~Exists(c), NEW f \in Fds
      PROVE  kernel[f].channel # c /\ channels[f] # c
  <2>1. kernel[f] = Unregistered => kernel[f].channel = Null
    BY DEF Unregistered
  <2>2. kernel[f] # Unregistered => fd[kernel[f].channel] = f
    BY DEF IInv, PollerInv, DescriptorInv
  <2>3. channels[f] # Null => fd[channels[f]] = f
    BY DEF IInv, PollerInv, DescriptorInv
  <2> QED BY <1>2, <2>1, <2>2, <2>3 DEF Exists
<1> QED BY <1>1, <1>2 DEF BackendConsistent, IInv, PollerInv

\* A Channel a poll asks about exists and is registered.
LEMMA AskedIsRegistered ==
  ASSUME IInv, NEW f \in Fds, Asked(f) # Unregistered
  PROVE  /\ Asked(f).channel \in Channels /\ fd[Asked(f).channel] = f
         /\ added[Asked(f).channel]
<1> USE ChannelAssumption
<1> DEFINE c == Asked(f).channel
<1>1. c \in Channels /\ fd[c] = f
  <2>1. CASE backend = "epoll"
    BY <2>1 DEF Asked, IInv, TypeOK, PollerInv, DescriptorInv
  <2>2. CASE backend = "select"
    <3>1. channels[f] # Null /\ c = channels[f]
      BY <2>2 DEF Asked, SelectSets
    <3> QED BY <3>1 DEF IInv, TypeOK, PollerInv, DescriptorInv
  <2> QED BY <2>1, <2>2 DEF IInv, TypeOK
<1>2. Exists(c) /\ Registration(c)
  BY <1>1 DEF Exists, IInv, PollerInv
<1>3. index[c] # "kNew"
  <2>1. CASE backend = "epoll"
    BY <1>1, <1>2, <2>1 DEF Asked, Registration
  <2>2. CASE backend = "select"
    <3>1. channels[f] # Null /\ c = channels[f]
      BY <2>2 DEF Asked, SelectSets
    <3> QED BY <3>1 DEF IInv, PollerInv, DescriptorInv
  <2> QED BY <2>1, <2>2 DEF IInv, TypeOK
<1> QED BY <1>1, <1>2, <1>3 DEF Registration

-----------------------------------------------------------------------------
(* Changes of a registration *)

\* What updateChannel and removeChannel come to in either backend: the Channel c ends with
\* the index ix and the interest ev.
Registers(c, ix, ev) ==
  /\ index' = [index EXCEPT ![c] = ix]
  /\ channels' = [channels EXCEPT ![fd[c]] = IF ix = "kNew" THEN Null ELSE c]
  /\ kernel' = IF backend = "epoll"
               THEN [kernel EXCEPT ![fd[c]] = IF ix = "kAdded" THEN [channel |-> c, mask |-> ev]
                                              ELSE Unregistered]
               ELSE kernel
  /\ fatal' = FALSE

\* updateChannel leaves the Channel registered, with select only if it has some interest.
LEMMA UpdateRegisters ==
  ASSUME IInv, NEW c \in Channels, Exists(c), NEW ev \in SUBSET Interest, UpdateChannel(c, ev)
  PROVE  \E ix \in {"kAdded", "kDeleted"} :
           Registers(c, ix, ev) /\ (backend = "select" /\ ix = "kAdded" => ev # {})
<1> USE ChannelAssumption
<1>1. /\ fd[c] \in Fds /\ Registration(c) /\ fatal = FALSE
      /\ index[c] \in {"kNew", "kAdded", "kDeleted"}
      /\ channels \in [Fds -> Channels \cup {Null}]
      /\ index \in [Channels -> {"kNew", "kAdded", "kDeleted"}]
  BY DEF IInv, TypeOK, PollerInv, Exists
<1>2. channels' = [channels EXCEPT ![fd[c]] = IF index[c] = "kNew" THEN c ELSE @]
      => channels' = [channels EXCEPT ![fd[c]] = c]
  BY <1>1 DEF Registration
<1>3. CASE backend = "epoll" /\ EPollUpdateChannel(c, ev)
  <2>0. kernel[fd[c]] = IF index[c] = "kAdded" THEN [channel |-> c, mask |-> events[c]]
                        ELSE Unregistered
    BY <1>1, <1>3 DEF Registration
  <2>1. index[c] = "kAdded" => kernel[fd[c]] # Unregistered
    BY <2>0 DEF Unregistered
  <2>2. CASE index[c] \in {"kNew", "kDeleted"}
    <3>1. EpollCtl("ADD", c, ev) /\ index' = [index EXCEPT ![c] = "kAdded"]
          /\ channels' = [channels EXCEPT ![fd[c]] = IF index[c] = "kNew" THEN c ELSE @]
      BY <1>3, <2>2 DEF EPollUpdateChannel
    <3>2. fatal' = FALSE /\ kernel' = [kernel EXCEPT ![fd[c]] = [channel |-> c, mask |-> ev]]
      BY <1>1, <2>0, <2>2, <3>1 DEF EpollCtl
    <3> QED BY <1>2, <1>3, <3>1, <3>2 DEF Registers
  <2>3. CASE index[c] = "kAdded" /\ ev = {}
    <3>1. EpollCtl("DEL", c, ev) /\ index' = [index EXCEPT ![c] = "kDeleted"] /\ channels' = channels
      BY <1>3, <2>3 DEF EPollUpdateChannel
    <3>2. fatal' = FALSE /\ kernel' = [kernel EXCEPT ![fd[c]] = Unregistered]
      BY <1>1, <2>1, <2>3, <3>1 DEF EpollCtl
    <3>3. channels' = [channels EXCEPT ![fd[c]] = c]
      BY <1>1, <2>3, <3>1 DEF Registration
    <3> QED BY <1>3, <3>1, <3>2, <3>3 DEF Registers
  <2>4. CASE index[c] = "kAdded" /\ ev # {}
    <3>1. EpollCtl("MOD", c, ev) /\ index' = index /\ channels' = channels
      BY <1>3, <2>4 DEF EPollUpdateChannel
    <3>2. fatal' = FALSE /\ kernel' = [kernel EXCEPT ![fd[c]] = [channel |-> c, mask |-> ev]]
      BY <1>1, <2>1, <2>4, <3>1 DEF EpollCtl
    <3>3. channels' = [channels EXCEPT ![fd[c]] = c] /\ index' = [index EXCEPT ![c] = "kAdded"]
      BY <1>1, <2>4, <3>1 DEF Registration
    <3> QED BY <1>3, <3>2, <3>3 DEF Registers
  <2> QED BY <1>1, <2>2, <2>3, <2>4
<1>4. CASE backend = "select" /\ SelectUpdateChannel(c, ev)
  BY <1>1, <1>2, <1>4 DEF SelectUpdateChannel, Registers
<1> QED BY <1>3, <1>4 DEF UpdateChannel

\* removeChannel leaves nothing registered.
LEMMA RemoveUnregisters ==
  ASSUME IInv, NEW c \in Channels, Exists(c), RemoveChannel(c)
  PROVE  Registers(c, "kNew", {})
<1> USE ChannelAssumption
<1>1. /\ fd[c] \in Fds /\ Registration(c) /\ fatal = FALSE
      /\ kernel \in [Fds -> [channel : Channels \cup {Null}, mask : SUBSET Interest]]
  BY DEF IInv, TypeOK, PollerInv, Exists
<1>2. CASE backend = "epoll" /\ EPollRemoveChannel(c)
  <2>0. kernel[fd[c]] = IF index[c] = "kAdded" THEN [channel |-> c, mask |-> events[c]]
                        ELSE Unregistered
    BY <1>1, <1>2 DEF Registration
  <2>1. CASE index[c] = "kAdded"
    <3>1. kernel[fd[c]] # Unregistered
      BY <2>0, <2>1 DEF Unregistered
    <3>2. EpollCtl("DEL", c, {})
      BY <1>2, <2>1 DEF EPollRemoveChannel
    <3>3. fatal' = FALSE /\ kernel' = [kernel EXCEPT ![fd[c]] = Unregistered]
      BY <1>1, <3>1, <3>2 DEF EpollCtl
    <3> QED BY <1>2, <3>3 DEF EPollRemoveChannel, Registers
  <2>2. CASE index[c] # "kAdded"
    BY <1>1, <1>2, <2>0, <2>2 DEF EPollRemoveChannel, Registers
  <2> QED BY <2>1, <2>2
<1>3. CASE backend = "select" /\ SelectRemoveChannel(c)
  BY <1>1, <1>3 DEF SelectRemoveChannel, Registers
<1> QED BY <1>2, <1>3 DEF RemoveChannel

\* A change of the registration of one Channel keeps the poller's invariant.
LEMMA RegistersKeeps ==
  ASSUME IInv, NEW c \in Channels, Exists(c), NEW ix \in {"kNew", "kAdded", "kDeleted"},
         NEW ev \in SUBSET Interest, Registers(c, ix, ev),
         backend = "select" /\ ix = "kAdded" => ev # {},
         events' = [events EXCEPT ![c] = ev],
         added' = [added EXCEPT ![c] = (ix # "kNew")],
         UNCHANGED <<fd, backend>>
  PROVE  PollerInv'
<1> USE ChannelAssumption
<1>1. /\ fd[c] \in Fds /\ fd \in [Channels -> Fds \cup {Null}]
      /\ index \in [Channels -> {"kNew", "kAdded", "kDeleted"}] /\ added \in [Channels -> BOOLEAN]
      /\ events \in [Channels -> SUBSET Interest] /\ channels \in [Fds -> Channels \cup {Null}]
      /\ kernel \in [Fds -> [channel : Channels \cup {Null}, mask : SUBSET Interest]]
      /\ backend \in {"epoll", "select"}
  BY DEF IInv, TypeOK, Exists
<1>2. \A d \in Channels : Exists(d) /\ fd[d] = fd[c] => d = c
  BY DEF IInv, PollerInv, DescriptorInv
<1>3. ~fatal'
  BY DEF Registers
<1>4. DescriptorInv'
  <2>1. (\A d, e \in Channels : Exists(d) /\ fd[d] = fd[e] => d = e)'
    BY DEF IInv, PollerInv, DescriptorInv, Exists
  <2>2. ASSUME NEW f \in Fds, channels'[f] # Null
        PROVE  fd'[channels'[f]] = f /\ index'[channels'[f]] # "kNew"
    <3>1. CASE f = fd[c]
      BY <1>1, <2>2, <3>1 DEF Registers
    <3>2. CASE f # fd[c]
      <4>1. channels'[f] = channels[f] /\ channels[f] \in Channels
        BY <1>1, <2>2, <3>2 DEF Registers
      <4>2. fd[channels[f]] = f /\ index[channels[f]] # "kNew"
        BY <2>2, <4>1 DEF IInv, PollerInv, DescriptorInv
      <4> QED BY <1>1, <3>2, <4>1, <4>2 DEF Registers
    <3> QED BY <3>1, <3>2
  <2>3. ASSUME NEW f \in Fds, kernel'[f] # Unregistered
        PROVE  backend' = "epoll" /\ kernel'[f].channel # Null /\ fd'[kernel'[f].channel] = f
    <3>1. CASE f = fd[c] /\ backend = "epoll"
      BY <1>1, <2>3, <3>1 DEF Registers
    <3>2. CASE f # fd[c] \/ backend # "epoll"
      <4>1. kernel'[f] = kernel[f]
        BY <1>1, <3>2 DEF Registers
      <4> QED BY <2>3, <4>1 DEF IInv, PollerInv, DescriptorInv
    <3> QED BY <3>1, <3>2
  <2> QED BY <2>1, <2>2, <2>3 DEF DescriptorInv, Unregistered
<1>5. ASSUME NEW d \in Channels, fd[d] # Null PROVE Registration(d)'
  <2>1. fd[d] \in Fds /\ Registration(d)
    BY <1>1, <1>5 DEF IInv, PollerInv, Exists
  <2>2. CASE d = c
    <3>1. /\ index'[c] = ix /\ events'[c] = ev /\ added'[c] = (ix # "kNew")
          /\ channels'[fd[c]] = (IF ix = "kNew" THEN Null ELSE c)
      BY <1>1 DEF Registers
    <3>2. backend = "epoll" =>
            kernel'[fd[c]] = IF ix = "kAdded" THEN [channel |-> c, mask |-> ev] ELSE Unregistered
      BY <1>1 DEF Registers
    <3> QED BY <2>2, <3>1, <3>2 DEF Registration, Unregistered
  <2>3. CASE d # c
    <3>1. fd[d] # fd[c]
      BY <1>2, <1>5, <2>3 DEF Exists
    <3>2. index'[d] = index[d] /\ events'[d] = events[d] /\ added'[d] = added[d]
          /\ channels'[fd[d]] = channels[fd[d]] /\ kernel'[fd[d]] = kernel[fd[d]]
      BY <1>1, <2>1, <2>3, <3>1 DEF Registers
    <3> QED BY <2>1, <3>2 DEF Registration, Unregistered
  <2> QED BY <2>2, <2>3
<1> QED BY <1>3, <1>4, <1>5 DEF PollerInv, Exists

\* A change of interest registers the Channel; the batch keeps what it has.
LEMMA UpdateKeeps ==
  ASSUME IInv, NEW c \in Channels, NEW ev \in SUBSET Interest, Update(c, ev)
  PROVE  IInv'
<1> USE ChannelAssumption
<1>1. PICK ix \in {"kAdded", "kDeleted"} :
        Registers(c, ix, ev) /\ (backend = "select" /\ ix = "kAdded" => ev # {})
  BY UpdateRegisters DEF Update
<1>2. /\ Exists(c) /\ c \notin released
      /\ events' = [events EXCEPT ![c] = ev] /\ added' = [added EXCEPT ![c] = TRUE]
      /\ UNCHANGED <<dispatchVars, fd, revents, tied, released, backend>>
  BY DEF Update, UpdateChannel
<1>3. PollerInv'
  BY <1>1, <1>2, RegistersKeeps
<1>4. TypeOK'
  BY <1>1, <1>2 DEF IInv, TypeOK, Registers, dispatchVars, Unregistered, Exists
<1>5. DispatchInv'
  BY <1>2 DEF IInv, TypeOK, DispatchInv, dispatchVars, Exists
<1> QED BY <1>3, <1>4, <1>5 DEF IInv

\* remove() takes the Channel out of the poller and out of the batch.
LEMMA RemoveKeeps ==
  ASSUME IInv, NEW c \in Channels, LoopRemoveChannel(c)
  PROVE  IInv'
<1> USE ChannelAssumption
<1>1. /\ Exists(c) /\ c \notin released /\ events[c] = {} /\ added' = [added EXCEPT ![c] = FALSE]
      /\ RemoveChannel(c)
      /\ UNCHANGED <<pc, current, callbacks, fd, events, revents, tied, released, backend>>
      /\ active' = [k \in DOMAIN active |-> IF active[k] = c THEN Null ELSE active[k]]
  BY DEF LoopRemoveChannel, RemoveChannel
<1>2. Registers(c, "kNew", {})
  BY <1>1, RemoveUnregisters
<1>3. events' = [events EXCEPT ![c] = {}]
  BY <1>1 DEF IInv, TypeOK
<1>4. PollerInv'
  BY <1>1, <1>2, <1>3, RegistersKeeps
<1>5. active' \in Seq(Channels \cup {Null})
  <2>1. Len(active) \in Nat /\ active \in [1..Len(active) -> Channels \cup {Null}]
    BY DEF IInv, TypeOK
  <2>2. active' \in [1..Len(active) -> Channels \cup {Null}]
    BY <1>1, <2>1
  <2> QED BY <2>1, <2>2, FunctionIsSeq
<1>6. TypeOK'
  BY <1>1, <1>2, <1>5 DEF IInv, TypeOK, Registers, Unregistered, Exists
<1>7. DispatchInv'
  <2>1. ASSUME NEW k \in DOMAIN active', active'[k] # Null
        PROVE  fd'[active'[k]] # Null /\ added'[active'[k]]
    <3>1. k \in DOMAIN active /\ active'[k] = active[k] /\ active[k] # c /\ active[k] # Null
      BY <1>1, <2>1
    <3>2. active[k] \in Channels
      BY <3>1 DEF IInv, TypeOK
    <3> QED BY <1>1, <3>1, <3>2 DEF IInv, TypeOK, DispatchInv, Exists
  <2> QED BY <1>1, <2>1 DEF IInv, TypeOK, DispatchInv, Exists
<1> QED BY <1>4, <1>6, <1>7 DEF IInv

-----------------------------------------------------------------------------
(* Construction and destruction *)

\* A new Channel meets neither registrations of its descriptor nor pointers to its address.
LEMMA ConstructKeeps ==
  ASSUME IInv, NEW c \in Channels, NEW f \in Fds, NEW tie \in BOOLEAN, Construct(c, f, tie)
  PROVE  IInv'
<1> USE ChannelAssumption
<1>1. /\ fd[c] = Null /\ (\A d \in Channels : fd[d] # f)
      /\ fd' = [fd EXCEPT ![c] = f] /\ tied' = [tied EXCEPT ![c] = tie]
      /\ events' = [events EXCEPT ![c] = {}] /\ revents' = [revents EXCEPT ![c] = {}]
      /\ index' = [index EXCEPT ![c] = "kNew"] /\ added' = [added EXCEPT ![c] = FALSE]
      /\ UNCHANGED <<dispatchVars, released, pollerVars>>
  BY DEF Construct, Exists
<1>2. BackendConsistent
  BY PollerAgrees
<1>3. \A g \in Fds : channels[g] # c /\ kernel[g].channel # c
  BY <1>1, <1>2 DEF BackendConsistent, Exists
<1>4. kernel[f] = Unregistered
  <2>1. SUFFICES ASSUME kernel[f] # Unregistered PROVE FALSE
    OBVIOUS
  <2>2. kernel[f].channel # Null /\ fd[kernel[f].channel] = f
    BY <2>1 DEF IInv, PollerInv, DescriptorInv
  <2>3. kernel[f].channel \in Channels
    BY <2>2 DEF IInv, TypeOK
  <2> QED BY <1>1, <2>2, <2>3
<1>5. TypeOK'
  BY <1>1 DEF IInv, TypeOK, dispatchVars, pollerVars
<1>6. PollerInv'
  <2>1. (\A d, e \in Channels : Exists(d) /\ fd[d] = fd[e] => d = e)'
    BY <1>1 DEF IInv, TypeOK, PollerInv, DescriptorInv, Exists
  <2>2. ASSUME NEW g \in Fds, channels[g] # Null
        PROVE  fd'[channels[g]] = g /\ index'[channels[g]] # "kNew"
    <3>1. channels[g] \in Channels \ {c} /\ fd[channels[g]] = g /\ index[channels[g]] # "kNew"
      BY <1>3, <2>2 DEF IInv, TypeOK, PollerInv, DescriptorInv
    <3> QED BY <1>1, <3>1 DEF IInv, TypeOK
  <2>3. ASSUME NEW g \in Fds, kernel[g] # Unregistered
        PROVE  backend = "epoll" /\ kernel[g].channel # Null /\ fd'[kernel[g].channel] = g
    <3>1. /\ backend = "epoll" /\ kernel[g].channel # Null /\ fd[kernel[g].channel] = g
      BY <2>3 DEF IInv, PollerInv, DescriptorInv
    <3>2. kernel[g].channel \in Channels \ {c}
      BY <1>3, <3>1 DEF IInv, TypeOK
    <3> QED BY <1>1, <3>1, <3>2 DEF IInv, TypeOK
  <2>4. DescriptorInv'
    BY <1>1, <2>1, <2>2, <2>3 DEF DescriptorInv, pollerVars, Unregistered
  <2>5. ASSUME NEW d \in Channels, fd'[d] # Null PROVE Registration(d)'
    <3>1. CASE d = c
      BY <1>1, <1>4, <3>1 DEF IInv, TypeOK, Registration, pollerVars, Unregistered
    <3>2. CASE d # c
      <4>1. /\ fd'[d] = fd[d] /\ index'[d] = index[d]
            /\ events'[d] = events[d] /\ added'[d] = added[d]
        BY <1>1, <3>2 DEF IInv, TypeOK
      <4>2. Registration(d)
        BY <2>5, <4>1 DEF IInv, PollerInv, Exists
      <4> QED BY <1>1, <4>1, <4>2 DEF Registration, pollerVars, Unregistered
    <3> QED BY <3>1, <3>2
  <2> QED BY <1>1, <2>4, <2>5 DEF IInv, PollerInv, Exists, pollerVars
<1>7. DispatchInv'
  <2>1. ASSUME NEW k \in DOMAIN active, active[k] # Null
        PROVE  fd'[active[k]] # Null /\ added'[active[k]]
    <3>1. active[k] \in Channels /\ fd[active[k]] # Null /\ added[active[k]]
      BY <2>1 DEF IInv, TypeOK, DispatchInv, Exists
    <3> QED BY <1>1, <3>1 DEF IInv, TypeOK
  <2>2. current # Null => fd'[current] # Null
    BY <1>1 DEF IInv, TypeOK, DispatchInv, Exists
  <2>3. \A d \in released : d = current /\ ~added'[d]
    BY <1>1 DEF IInv, TypeOK, DispatchInv
  <2> QED BY <1>1, <2>1, <2>2, <2>3 DEF IInv, DispatchInv, Exists, dispatchVars
<1> QED BY <1>5, <1>6, <1>7 DEF IInv

\* Destroying Channels that were removed before keeps the poller's invariant.
LEMMA DestroyKeeps ==
  ASSUME IInv, NEW gone \in SUBSET Channels, \A c \in gone : ~added[c],
         fd' = [c \in Channels |-> IF c \in gone THEN Null ELSE fd[c]],
         UNCHANGED <<events, index, added, pollerVars>>
  PROVE  PollerInv'
<1> USE ChannelAssumption
<1>1. \A c \in gone : Exists(c) => index[c] = "kNew"
  BY DEF IInv, PollerInv, Registration
<1>2. \A c \in gone, f \in Fds : channels[f] # c
  <2> SUFFICES ASSUME NEW c \in gone, NEW f \in Fds, channels[f] = c PROVE FALSE
    OBVIOUS
  <2>1. c # Null /\ fd[c] = f /\ index[c] # "kNew"
    BY DEF IInv, PollerInv, DescriptorInv
  <2> QED BY <1>1, <2>1 DEF Exists
<1>3. \A c \in gone, f \in Fds : kernel[f].channel # c
  <2> SUFFICES ASSUME NEW c \in gone, NEW f \in Fds, kernel[f].channel = c PROVE FALSE
    OBVIOUS
  <2>1. kernel[f] # Unregistered
    BY DEF Unregistered
  <2>2. backend = "epoll" /\ fd[c] = f
    BY <2>1 DEF IInv, PollerInv, DescriptorInv
  <2>3. Registration(c) /\ index[c] = "kNew"
    BY <1>1, <2>2 DEF IInv, PollerInv, Exists
  <2> QED BY <2>1, <2>2, <2>3 DEF Registration
<1>4. DescriptorInv'
  <2>1. (\A d, e \in Channels : Exists(d) /\ fd[d] = fd[e] => d = e)'
    BY DEF IInv, TypeOK, PollerInv, DescriptorInv, Exists
  <2>2. ASSUME NEW f \in Fds, channels[f] # Null
        PROVE  fd'[channels[f]] = f /\ index[channels[f]] # "kNew"
    BY <1>2, <2>2 DEF IInv, TypeOK, PollerInv, DescriptorInv
  <2>3. ASSUME NEW f \in Fds, kernel[f] # Unregistered
        PROVE  backend = "epoll" /\ kernel[f].channel # Null /\ fd'[kernel[f].channel] = f
    <3>1. backend = "epoll" /\ kernel[f].channel # Null /\ fd[kernel[f].channel] = f
      BY <2>3 DEF IInv, PollerInv, DescriptorInv
    <3>2. kernel[f].channel \in Channels \ gone
      BY <1>3, <3>1 DEF IInv, TypeOK
    <3> QED BY <3>1, <3>2
  <2> QED BY <2>1, <2>2, <2>3 DEF DescriptorInv, pollerVars, Unregistered
<1>5. ASSUME NEW d \in Channels, fd'[d] # Null PROVE Registration(d)'
  <2>1. fd'[d] = fd[d] /\ Registration(d)
    BY <1>5 DEF IInv, PollerInv, Exists
  <2> QED BY <2>1 DEF Registration, pollerVars, Unregistered
<1> QED BY <1>4, <1>5 DEF IInv, PollerInv, Exists, pollerVars

\* A Channel is released after its removal, so that it is in no batch; the one that
\* handleEvent is in is only marked.
LEMMA ReleaseKeeps ==
  ASSUME IInv, NEW c \in Channels, Release(c)
  PROVE  IInv'
<1> USE ChannelAssumption
<1>1. /\ fd[c] # Null /\ ~added[c] /\ c \notin released
      /\ UNCHANGED <<dispatchVars, events, revents, index, added, tied, pollerVars>>
  BY DEF Release, Exists
<1>2. CASE c # current /\ DestroyChannel(c) /\ UNCHANGED released
  <2>1. fd' = [d \in Channels |-> IF d \in {c} THEN Null ELSE fd[d]]
    BY <1>2 DEF DestroyChannel, IInv, TypeOK
  <2>2. PollerInv'
    <3> DEFINE gone == {c}
    <3>1. gone \in SUBSET Channels /\ (\A d \in gone : ~added[d])
          /\ fd' = [d \in Channels |-> IF d \in gone THEN Null ELSE fd[d]]
      BY <1>1, <2>1
    <3> HIDE DEF gone
    <3> QED BY <1>1, <3>1, DestroyKeeps
  <2>3. TypeOK'
    BY <1>1, <1>2, <2>1 DEF IInv, TypeOK, dispatchVars, pollerVars
  <2>4. ASSUME NEW k \in DOMAIN active, active[k] # Null PROVE fd'[active[k]] # Null
    BY <1>1, <2>1, <2>4 DEF IInv, TypeOK, DispatchInv, Exists
  <2>5. current # Null => fd'[current] # Null
    BY <1>2, <2>1 DEF IInv, TypeOK, DispatchInv, Exists
  <2>6. DispatchInv'
    BY <1>1, <1>2, <2>4, <2>5 DEF IInv, DispatchInv, Exists, dispatchVars
  <2> QED BY <2>2, <2>3, <2>6 DEF IInv
<1>3. CASE c = current /\ released' = released \cup {c} /\ UNCHANGED fd
  <2>1. TypeOK'
    BY <1>1, <1>3 DEF IInv, TypeOK, dispatchVars, pollerVars
  <2>2. PollerInv'
    BY <1>1, <1>3 DEF IInv, PollerInv, DescriptorInv, Registration, Exists, Unregistered, pollerVars
  <2>3. DispatchInv'
    BY <1>1, <1>3 DEF IInv, DispatchInv, Exists, dispatchVars
  <2> QED BY <2>1, <2>2, <2>3 DEF IInv
<1> QED BY <1>2, <1>3 DEF Release

-----------------------------------------------------------------------------
(* The loop *)

\* A step that leaves the registrations alone keeps the poller's invariant.
LEMMA PollerUntouched ==
  ASSUME IInv, UNCHANGED <<fd, events, index, added, pollerVars>>
  PROVE  PollerInv'
BY DEF IInv, PollerInv, DescriptorInv, Registration, Exists, Unregistered, pollerVars

\* handleEventWithGuard calls one callback per event.
LEMMA CallbacksType ==
  ASSUME NEW r
  PROVE  CallbacksOf(r) \in Seq(Events)
<1> DEFINE OnlyIf(cond, e) == IF cond THEN <<e>> ELSE <<>>
           a == OnlyIf("close" \in r /\ "read" \notin r, "close")
           b == OnlyIf("error" \in r, "error")
           c == OnlyIf("read" \in r, "read")
           d == OnlyIf("write" \in r, "write")
<1>1. a \in Seq(Events) /\ b \in Seq(Events) /\ c \in Seq(Events) /\ d \in Seq(Events)
  <2>1. "close" \in Events /\ "error" \in Events /\ "read" \in Events /\ "write" \in Events
    BY DEF Events, Interest
  <2>2. ASSUME NEW cond, NEW e \in Events PROVE OnlyIf(cond, e) \in Seq(Events)
    <3>1. <<e>> \in Seq(Events) /\ <<>> \in Seq(Events)
      OBVIOUS
    <3> QED BY <3>1
  <2> HIDE DEF OnlyIf
  <2> QED BY <2>1, <2>2
<1>2. CallbacksOf(r) = a \o b \o c \o d
  BY DEF CallbacksOf
<1> HIDE DEF a, b, c, d
<1>3. a \o b \in Seq(Events)
  BY <1>1
<1>4. a \o b \o c \in Seq(Events)
  BY <1>1, <1>3
<1> QED BY <1>1, <1>2, <1>4

\* The batch that a poll collects consists of Channels that are registered.
LEMMA PollKeeps == IInv /\ Poll => IInv'
<1> SUFFICES ASSUME IInv, Poll PROVE IInv'
  OBVIOUS
<1> USE ChannelAssumption
<1>1. PICK ready \in SUBSET {f \in Fds : Asked(f) # Unregistered} :
      \E r \in [ready -> UNION {Reports(f) : f \in ready}] :
       /\ \A f \in ready : r[f] \in Reports(f)
       /\ \E s \in Bijection(1..Cardinality(ready), ready) :
            active' = [k \in DOMAIN s |-> Asked(s[k]).channel]
       /\ revents' = [c \in Channels |->
                        IF \E f \in ready : Asked(f).channel = c
                        THEN r[CHOOSE f \in ready : Asked(f).channel = c] ELSE revents[c]]
  BY DEF Poll
<1>2. PICK r \in [ready -> UNION {Reports(f) : f \in ready}] :
       /\ \A f \in ready : r[f] \in Reports(f)
       /\ \E s \in Bijection(1..Cardinality(ready), ready) :
            active' = [k \in DOMAIN s |-> Asked(s[k]).channel]
       /\ revents' = [c \in Channels |->
                        IF \E f \in ready : Asked(f).channel = c
                        THEN r[CHOOSE f \in ready : Asked(f).channel = c] ELSE revents[c]]
  BY <1>1
<1>3. PICK s \in Bijection(1..Cardinality(ready), ready) :
        active' = [k \in DOMAIN s |-> Asked(s[k]).channel]
  BY <1>2
<1>4. Cardinality(ready) \in Nat /\ s \in [1..Cardinality(ready) -> ready]
  <2>1. IsFiniteSet(ready)
    BY FS_Subset
  <2> QED BY <2>1, FS_CardinalityType, <1>3 DEF Bijection, Injection
<1>5. \A f \in ready : f \in Fds /\ Asked(f).channel \in Channels
                       /\ fd[Asked(f).channel] = f /\ added[Asked(f).channel]
  BY AskedIsRegistered
<1>6. active' \in Seq(Channels \cup {Null})
  <2>1. active' \in [1..Cardinality(ready) -> Channels \cup {Null}]
    BY <1>3, <1>4, <1>5
  <2> QED BY <1>4, <2>1, FunctionIsSeq
<1>7. revents' \in [Channels -> SUBSET Events]
  <2>1. \A f \in ready : Reports(f) \subseteq SUBSET Events
    <3>1. \A f \in ready : Asked(f).mask \subseteq Interest
      BY <1>5 DEF IInv, TypeOK, Asked, SelectSets, Unregistered
    <3> QED BY <3>1 DEF Reports, Events
  <2>2. \A f \in ready : r[f] \in SUBSET Events
    BY <1>2, <2>1
  <2>3. \A c \in Channels : revents'[c] \in SUBSET Events
    <3> SUFFICES ASSUME NEW c \in Channels PROVE revents'[c] \in SUBSET Events
      OBVIOUS
    <3>1. CASE \E f \in ready : Asked(f).channel = c
      <4> DEFINE g == CHOOSE f \in ready : Asked(f).channel = c
      <4>1. g \in ready
        BY <3>1
      <4>2. revents'[c] = r[g]
        BY <1>2, <3>1
      <4> HIDE DEF g
      <4> QED BY <2>2, <4>1, <4>2
    <3>2. CASE ~ \E f \in ready : Asked(f).channel = c
      BY <1>2, <3>2 DEF IInv, TypeOK
    <3> QED BY <3>1, <3>2
  <2> QED BY <1>2, <2>3
<1>8. /\ pc = "tasks" /\ pc' = "dispatch"
      /\ UNCHANGED <<current, callbacks, fd, events, index, added, tied, released, pollerVars>>
  BY DEF Poll
<1>9. TypeOK'
  BY <1>6, <1>7, <1>8 DEF IInv, TypeOK, pollerVars
<1>10. PollerInv'
  BY <1>8, PollerUntouched
<1>11. ASSUME NEW k \in DOMAIN active' PROVE fd[active'[k]] # Null /\ added[active'[k]]
  <2>1. k \in DOMAIN s /\ s[k] \in ready /\ active'[k] = Asked(s[k]).channel
    BY <1>3, <1>4, <1>11
  <2> QED BY <1>5, <2>1
<1>12. DispatchInv'
  BY <1>8, <1>11 DEF IInv, DispatchInv, Exists
<1> QED BY <1>9, <1>10, <1>12 DEF IInv

\* Dispatching changes no registration, and destroys only what was released.
LEMMA LoopStepKeeps == IInv /\ LoopStep => IInv'
<1> SUFFICES ASSUME IInv, LoopStep PROVE IInv'
  OBVIOUS
<1> USE ChannelAssumption
<1>1. CASE SkipNull
  <2>1. /\ active # <<>> /\ active' = Tail(active)
        /\ UNCHANGED <<pc, current, callbacks, channelVars, pollerVars>>
    BY <1>1 DEF SkipNull
  <2>2. /\ active' \in Seq(Channels \cup {Null})
        /\ \A k \in DOMAIN active' : k + 1 \in DOMAIN active /\ active'[k] = active[k + 1]
    BY <2>1 DEF IInv, TypeOK
  <2>3. TypeOK' /\ PollerInv'
    BY <2>1, <2>2, PollerUntouched DEF IInv, TypeOK, channelVars, pollerVars
  <2>4. DispatchInv'
    BY <2>1, <2>2 DEF IInv, DispatchInv, Exists, channelVars
  <2> QED BY <2>3, <2>4 DEF IInv
<1>2. CASE HandleEvent
  <2>1. /\ pc = "dispatch" /\ active # <<>> /\ Head(active) # Null /\ active' = Tail(active)
        /\ current' = Head(active) /\ callbacks' = CallbacksOf(revents[Head(active)])
        /\ pc' = "handling" /\ UNCHANGED <<channelVars, pollerVars>>
    BY <1>2 DEF HandleEvent
  <2>2. /\ active' \in Seq(Channels \cup {Null})
        /\ \A k \in DOMAIN active' : k + 1 \in DOMAIN active /\ active'[k] = active[k + 1]
        /\ 1 \in DOMAIN active /\ Head(active) = active[1] /\ active[1] \in Channels
    BY <2>1 DEF IInv, TypeOK
  <2>3. callbacks' \in Seq(Events)
    BY <2>1, CallbacksType
  <2>4. TypeOK' /\ PollerInv'
    BY <2>1, <2>2, <2>3, PollerUntouched DEF IInv, TypeOK, channelVars, pollerVars
  <2>5. released = {}
    BY <2>1 DEF IInv, TypeOK, DispatchInv
  <2>6. DispatchInv'
    BY <2>1, <2>2, <2>5 DEF IInv, DispatchInv, Exists, channelVars
  <2> QED BY <2>4, <2>6 DEF IInv
<1>3. CASE RunCallback
  <2>1. TypeOK' /\ PollerInv'
    BY <1>3, PollerUntouched DEF RunCallback, IInv, TypeOK, channelVars, pollerVars
  <2>2. DispatchInv'
    BY <1>3 DEF RunCallback, IInv, DispatchInv, Exists, channelVars
  <2> QED BY <2>1, <2>2 DEF IInv
<1>4. CASE CallbackReturns
  <2>1. callbacks' \in Seq(Events)
    BY <1>4 DEF CallbackReturns, IInv, TypeOK, DispatchInv
  <2>2. TypeOK' /\ PollerInv'
    BY <1>4, <2>1, PollerUntouched DEF CallbackReturns, IInv, TypeOK, channelVars, pollerVars
  <2>3. DispatchInv'
    BY <1>4 DEF CallbackReturns, IInv, DispatchInv, Exists, channelVars
  <2> QED BY <2>2, <2>3 DEF IInv
<1>5. CASE HandleEventDone
  <2>1. /\ current' = Null /\ pc' = "dispatch" /\ released' = {}
        /\ fd' = [c \in Channels |-> IF c \in released THEN Null ELSE fd[c]]
        /\ UNCHANGED <<active, callbacks, events, revents, index, added, tied, pollerVars>>
    BY <1>5 DEF HandleEventDone
  <2>2. PollerInv'
    <3>1. released \in SUBSET Channels /\ \A c \in released : ~added[c]
      BY DEF IInv, TypeOK, DispatchInv
    <3> QED BY <2>1, <3>1, DestroyKeeps
  <2>3. TypeOK'
    BY <2>1 DEF IInv, TypeOK, pollerVars
  <2>4. ASSUME NEW k \in DOMAIN active, active[k] # Null PROVE fd'[active[k]] # Null
    BY <2>1, <2>4 DEF IInv, TypeOK, DispatchInv, Exists
  <2>5. DispatchInv'
    BY <2>1, <2>4 DEF IInv, DispatchInv, Exists
  <2> QED BY <2>2, <2>3, <2>5 DEF IInv
<1>6. CASE DispatchDone
  <2>1. TypeOK' /\ PollerInv'
    BY <1>6, PollerUntouched DEF DispatchDone, IInv, TypeOK, channelVars, pollerVars
  <2>2. DispatchInv'
    BY <1>6 DEF DispatchDone, IInv, DispatchInv, Exists, channelVars
  <2> QED BY <2>1, <2>2 DEF IInv
<1> QED BY <1>1, <1>2, <1>3, <1>4, <1>5, <1>6 DEF LoopStep

-----------------------------------------------------------------------------
(* The theorems *)

\* A loop starts without Channels.
LEMMA InitInv == Init => IInv
<1> SUFFICES ASSUME Init PROVE IInv
  OBVIOUS
<1> USE ChannelAssumption
<1>1. TypeOK
  <2>1. kernel \in [Fds -> [channel : Channels \cup {Null}, mask : SUBSET Interest]]
    BY DEF Init, Unregistered
  <2>2. active \in Seq(Channels \cup {Null}) /\ callbacks \in Seq(Events)
    BY DEF Init
  <2> QED BY <2>1, <2>2 DEF Init, TypeOK
<1>2. PollerInv
  BY DEF Init, PollerInv, DescriptorInv, Exists
<1>3. DispatchInv
  BY DEF Init, DispatchInv
<1> QED BY <1>1, <1>2, <1>3 DEF IInv

\* Every step keeps the invariant.
LEMMA NextInv == IInv /\ [Next]_vars => IInv'
<1> SUFFICES ASSUME IInv, [Next]_vars PROVE IInv'
  OBVIOUS
<1>1. CASE LoopStep
  BY <1>1, LoopStepKeeps
<1>2. CASE Poll
  BY <1>2, PollKeeps
<1>3. ASSUME NEW c \in Channels, LoopRemoveChannel(c) PROVE IInv'
  BY <1>3, RemoveKeeps
<1>4. ASSUME NEW c \in Channels, Release(c) PROVE IInv'
  BY <1>4, ReleaseKeeps
<1>5. ASSUME NEW c \in Channels, NEW f \in Fds, NEW tie \in BOOLEAN, Construct(c, f, tie) PROVE IInv'
  BY <1>5, ConstructKeeps
<1>6. ASSUME NEW c \in Channels, NEW ev \in SUBSET Interest, Update(c, ev) PROVE IInv'
  BY <1>6, UpdateKeeps
<1>7. CASE UNCHANGED vars
  <2>1. TypeOK' /\ PollerInv'
    BY <1>7, PollerUntouched DEF IInv, TypeOK, vars, dispatchVars, channelVars, pollerVars
  <2>2. DispatchInv'
    BY <1>7 DEF IInv, DispatchInv, Exists, vars, dispatchVars, channelVars
  <2> QED BY <2>1, <2>2 DEF IInv
<1> QED BY <1>1, <1>2, <1>3, <1>4, <1>5, <1>6, <1>7 DEF Next

\* The registrations, the batch and the life of the Channels agree at all times.
THEOREM Invariance == Spec => []IInv
BY InitInv, NextInv, PTL DEF Spec

\* Whatever callbacks change, remove or destroy, the loop dereferences only Channels that
\* exist, in the batch and in handleEvent (EventLoop.cc:79-85, 194-206; Channel.cc:31-41).
THEOREM DispatchIsSafe == Spec => []NoDanglingDispatch
<1>1. IInv => NoDanglingDispatch
  BY DEF IInv, DispatchInv, NoDanglingDispatch
<1> QED BY <1>1, Invariance, PTL

\* With epoll and with select, what a poll asks, channels_ and index_ agree, so that
\* epoll_ctl never fails and select looks at no dead Channel (EPollPoller.cc:77-124;
\* SelectPoller.cc:55-66, 82-100).
THEOREM BackendAgrees == Spec => []BackendConsistent
BY Invariance, PollerAgrees, PTL
============================================================================
