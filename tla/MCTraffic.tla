------------------------------- MODULE MCTraffic -------------------------------
(***************************************************************************)
(* The parts of Traffic, packets of ACN and questions about addresses,     *)
(* UUIDs and error codes, in one instance for TLC: part says which of them *)
(* runs, from every one of its initial states, while the others stay in    *)
(* one of theirs.  The queue has two senders, two receivers of which r2    *)
(* also resets, and s2 asks for its length; i1 and i2 are what is queued,  *)
(* and what the application tells a poll context about a socket.           *)
(***************************************************************************)
EXTENDS Traffic, TLC

CONSTANTS part_names, i1, i2, c1, c2

VARIABLE condition

ItemSymmetry == Permutations({i1, i2})
----
\* A short and a long datagram with no control message, a usable one, one behind
\* another kind, and more.
MCDatagrams ==
  [len : 1 .. 2,
   controls : {<< >>, <<"v4">>, <<"other", "v6">>, <<"v6", "other", "v4">>}]

\* No data, two kinds of one byte, and as much as makes a PDU of 4095 bytes and more.
MCDatas ==
  {[len |-> 0, bytes |-> "x"], [len |-> 1, bytes |-> "x"], [len |-> 1, bytes |-> "y"],
   [len |-> 4075, bytes |-> "x"]}

\* Values of options: a count, what a byte cannot hold, and what is not a count.
MCOptionValues == {-1, 0, 1, 256, 1500}

ASSUME ControlConstants == Message!ControlAssumption
ASSUME OptionsConstants == Options!OptionsAssumption
ASSUME PollConstants == Poll!PollAssumption
ASSUME KernelConstants == Kernel!KernelAssumption
ASSUME InetConstants == Laws!InetAssumption
ASSUME AcnConstants == Acn!AcnAssumption
ASSUME UuidConstants == Ids!UuidAssumption
ASSUME CallsConstants == Calls!CallsAssumption

Codes == INSTANCE ErrorCodes
----
(* The addresses asked about: one or two of each kind.                     *)
Zero6 == [i \in 1 .. 16 |-> 0]
V4Address(bytes) == [type |-> "v4", bytes |-> bytes, scope |-> 0]
V6Address(bytes, scope) == [type |-> "v6", bytes |-> bytes, scope |-> scope]

LinkLocal == [Zero6 EXCEPT ![1] = 254, ![2] = 128, ![16] = 1]

Addresses4 == {<<0, 0, 0, 0>>, <<10, 0, 0, 1>>, <<10, 0, 1, 0>>, <<127, 0, 0, 1>>,
               <<169, 254, 0, 1>>, <<224, 0, 0, 1>>, <<240, 0, 255, 0>>,
               <<255, 255, 255, 255>>}
Addresses6 == {Zero6, [Zero6 EXCEPT ![16] = 1],
               [Zero6 EXCEPT ![1] = 255, ![2] = 2, ![16] = 1],
               [Zero6 EXCEPT ![1] = 255, ![2] = 255, ![16] = 1]}

\* With scope ids of three bits, 10 is wider than the system's.
MCScopeIds == <<7, 5>>

MCIps ==
  {V4Address(bytes) : bytes \in Addresses4}
    \cup {V6Address(bytes, 0) : bytes \in Addresses6}
    \cup {V6Address(LinkLocal, scope) : scope \in {1, 2, 3, 10}}
    \cup {[type |-> "invalid", bytes |-> << >>, scope |-> 0]}

MCPortNumbers == {<<0, 1>>, <<1, 0>>}

MCMacs == {<<0, 0, 0, 0, 0, 0>>, <<1, 35, 69, 103, 137, 171>>, <<255, 0, 255, 0, 16, 1>>}

Ramp == [i \in 1 .. 16 |-> (i * 23) % 256]

MCUuids == {Zero6, Ramp, [i \in 1 .. 16 |-> 255], [Ramp EXCEPT ![1] = 200], [Ramp EXCEPT ![16] = 0]}
MCDigests == {Zero6, Ramp, [i \in 1 .. 20 |-> 255]}

\* The generators at a time when uuid_generate has random numbers, and at one when it has none
MCGenerated ==
  LET v1 == [Ramp EXCEPT ![7] = 17, ![9] = 130]
      v4 == [Ramp EXCEPT ![7] = 65, ![9] = 191]
      Given(uuid) == [uuid_generate_time |-> v1, uuid_generate_random |-> v4,
                      uuid_generate |-> uuid, UuidCreateSequential |-> v1, UuidCreate |-> v4]
  IN {Given(v1), Given(v4)}

\* Device strings: none, short, as long as is counted, and longer
MCStrings == {<< >>, <<1>>, [i \in 1 .. 32 |-> 1], [i \in 1 .. 33 |-> 1 + i \div 33]}
MCNumbers == {<<0, 0, 0, 1>>, <<1, 0, 0, 0>>, <<0, 0, 0, 0>>}
----
poll_part == <<poll_port, valid, tree, slots, interest, udata, count, max_fd, waiting, open,
               asked, doubtful, disturbed, reply>>
message_part == <<stack, arrived, memory, controllen, flags, cmsg, received>>
acn_part == <<block, packer, packed, used, acn_buflen, parser, last_pdu, parsed, over>>
option_part == <<option_port, address, focus, options, joined, looped, last_set,
                 option_asked, got>>
call_part == <<call_port, initialized, startups, opened, held, blocking, answer, inbox,
               delivery, list, pd, addrs>>
kernel_part == <<kernel, created, kernel_ring, pending, in_kernel, kernel_pc, kernel_data,
                 timeout_ms, ok>>
law_part == <<question, uuid_question, condition>>

\* One state of a part that does not run.
AcnIdle ==
  /\ block = << >> /\ packer = "block" /\ parser = "block"
  /\ packed = << >> /\ used = 0 /\ acn_buflen = None
  /\ last_pdu = None /\ parsed = << >> /\ over = FALSE

OptionsIdle ==
  /\ option_port = "linux" /\ address = [i \in Indexes |-> 0]
  /\ focus = None /\ options = << >> /\ joined = {} /\ looped = FALSE
  /\ last_set = Options!NoCall /\ option_asked = None /\ got = None

\* While another part runs, this one has asked nothing.
Ask(name, init, asks) == IF part = name THEN init ELSE asks = None

TrafficInit ==
  /\ part \in part_names
  /\ Init
  /\ Poll!Init /\ (part # "poll" => poll_port = "linux")
  /\ Message!Init /\ (part # "messages" => stack = "linux")
  /\ IF part = "acn" THEN Acn!Init ELSE AcnIdle
  /\ IF part = "options" THEN Options!Init ELSE OptionsIdle
  /\ Calls!Init /\ (part # "calls" => call_port = "linux")
  /\ Kernel!Init /\ (part # "kernel" => kernel = "zephyr")
  /\ Ask("addresses", Laws!Init, question)
  /\ Ask("uuids", Ids!Init, uuid_question)
  /\ Ask("codes", Codes!Init, condition)

\* Bounds of the calls: one list of addresses is walked at a time, and by nobody who holds
\* a socket; a datagram is under way only between sockets that are not open for more.
OneAtATime ==
  /\ list # None => held = {}
  /\ inbox # << >> => answer = None /\ \A s \in held : opened[s] = {}

\* A bound of the queue: of its four threads three are in a call at a time.
ThreeAtATime == Cardinality({c \in Clients : pc[c] # "idle"}) <= 3

TrafficNext ==
  /\ UNCHANGED <<part, law_part>>
  /\ \/ part = "queue" /\ Next /\ ThreeAtATime'
     \/ part # "queue" /\ UNCHANGED vars
  /\ \/ part = "poll" /\ Poll!Next
     \/ part # "poll" /\ UNCHANGED poll_part
  /\ \/ part = "messages" /\ Message!Next
     \/ part # "messages" /\ UNCHANGED message_part
  /\ \/ part = "acn" /\ Acn!Next
     \/ part # "acn" /\ UNCHANGED acn_part
  /\ \/ part = "options" /\ Options!Next
     \/ part # "options" /\ UNCHANGED option_part
  /\ \/ part = "calls" /\ Calls!Next /\ OneAtATime'
     \/ part # "calls" /\ UNCHANGED call_part
  /\ \/ part = "kernel" /\ Kernel!Next
     \/ part # "kernel" /\ UNCHANGED kernel_part

TrafficSpec ==
  TrafficInit /\ [][TrafficNext]_<<part, vars, poll_part, message_part, acn_part, option_part,
                                   call_part, kernel_part, law_part>>

\* No step depends on what the last call on a poll context returned.
WithoutReply ==
  <<part, vars, poll_port, valid, tree, slots, interest, udata, count, max_fd, waiting, open,
    asked, doubtful, disturbed, message_part, acn_part, option_part, call_part, kernel_part,
    law_part>>
----
(* The properties of the modules that are instantiated, stated and         *)
(* explained there, each with the types of its part's variables.           *)
EveryBlockRoundTrips == part = "acn" => Acn!EveryBlockRoundTrips

PortsAgree == part = "codes" => Codes!PortsAgree
================================================================================
