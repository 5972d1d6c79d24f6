---- MODULE Traffic ----
(***************************************************************************)
(* The parts that pass items, packets and settings on, side by side: the   *)
(* queue, the kernels' queues, poll contexts, control messages, socket     *)
(* options, the calls on sockets and addresses, and what is promised of    *)
(* each.  They share items and no state; part says which of them runs.     *)
(***************************************************************************)
EXTENDS Queue, Integers

CONSTANTS Sockets, EventSets, MaxPoll, MaxDoubtful,             \* PollContext
          Datagrams, MaxControl,                                \* Ancillary
          SocketPorts, Indexes, IndexArgs, LinkAddresses, OptionValues,  \* SocketOptions
          CallPorts, CallSockets, MaxWaiting, MaxAddresses,     \* SocketCalls
          KernelPorts, Threads, Isrs,                           \* KernelQueue
          ScopeIds, ScopeLimit, Ips, PortNumbers, MaskLengths, Macs,  \* InetLaws
          Vectors, LongVectors, Cids, Datas, MaxPdus,           \* AcnRlp
          Uuids, Digests, Generated, Strings, Numbers           \* Uuid

VARIABLES part,
          poll_port, valid, tree, slots, interest, udata, count, max_fd, waiting, open,
          asked, doubtful, disturbed, reply,
          stack, arrived, memory, controllen, flags, cmsg, received,
          option_port, address, focus, options, joined, looped, last_set, option_asked, got,
          call_port, initialized, startups, opened, held, blocking, answer, inbox,
          delivery, list, pd, addrs,
          kernel, created, kernel_ring, pending, in_kernel, kernel_pc, kernel_data, timeout_ms, ok,
          question, uuid_question,
          block, packer, packed, used, acn_buflen, parser, last_pdu, parsed, over

Poll == INSTANCE PollContext WITH Data <- Items, port <- poll_port

Message == INSTANCE Ancillary WITH port <- stack

Options == INSTANCE SocketOptions WITH
  Ports <- SocketPorts, Values <- OptionValues, Addresses <- LinkAddresses,
  port <- option_port, last <- last_set, asked <- option_asked

Calls == INSTANCE SocketCalls WITH
  Ports <- CallPorts, Sockets <- CallSockets, port <- call_port, open <- opened

Kernel == INSTANCE KernelQueue WITH
  Ports <- KernelPorts,
  port <- kernel, ring <- kernel_ring, waiting <- pending, pc <- kernel_pc, data <- kernel_data

Laws == INSTANCE InetLaws WITH
  Hosts <- [port : SocketPorts, little : BOOLEAN], Lengths <- MaskLengths

Acn == INSTANCE AcnRlp WITH buflen <- acn_buflen, last <- last_pdu

Ids == INSTANCE Uuid WITH question <- uuid_question
----
(* The properties of the modules that are instantiated, stated and         *)
(* explained there, each with the types of its part's variables.           *)
\* The system watches each socket for what the application asked of the poll context last,
\* and the tree or the array, the counts and a wait under way agree with it.
OsWatchesWhatWasAsked ==
  part = "poll" => Poll!OsWatchesWhatWasAsked /\ Poll!PollInv /\ Poll!FiltersHaveData

\* Each port's poll context does what socket.dox promises of the calls.
ImplementsApi == Poll!ImplementsApi

\* A walk finds each control message of the datagram that fits, once and in order.
WalkFindsEach == [](part = "messages" => Message!ControlInv) /\ Message!WalkFindsEach

\* The control messages that a walk finds are of the datagram received last.
ControlIsOfMessage == part = "messages" => Message!ControlIsOfMessage

\* A setsockopt that succeeds sets what was asked, and getsockopt tells it.
OptionsAreKept == [](part = "options" => Options!OptionsInv) /\ Options!OptionsAreKept

\* A socket that has left a group is no member of it.
LeftIsLeft == part = "options" => Options!LeftIsLeft

\* What the system made for a call that fails is closed, freed or reported: no socket stays
\* open that nobody has, no address is left out, and the mode is the one that was set.
HandsOver == part = "calls" => Calls!CallsInv /\ Calls!HandsOver

\* The queues of FreeRTOS and Zephyr are bounded FIFOs.
KernelImplementsFifo == [](part = "kernel" => Kernel!KernelInv) /\ Kernel!KernelImplementsFifo

\* A block of PDUs fits the buffer that is asked for, and what comes back is what was packed.
BlockRoundTrips == part = "acn" => Acn!AcnInv /\ Acn!BlockRoundTrips

\* Addresses come back from the system and from text as they went, but for scope ids that
\* the system has no room for, and name the same to both in between.
AddressesSurvive == part = "addresses" => Laws!AddressesSurvive

\* Addresses, MAC addresses and interfaces are totally ordered by their operators, masks have
\* as many bits as they should, and an address is of one kind.
AddressesCompare == part = "addresses" => Laws!AddressesCompare

\* UUIDs come back from text and from the system's own form as they went, have the version
\* that was asked for, are made of another name for each device, and are totally ordered.
UuidsKeepIdentity == part = "uuids" => Ids!UuidsKeepIdentity
====
