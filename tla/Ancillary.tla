---- MODULE Ancillary ----
(***************************************************************************)
(* Ancillary data: etcpal_recvmsg and the walk through the control         *)
(* messages of what it received, on the ports that have them (MQX has      *)
(* none).  The system writes a datagram's control messages into the        *)
(* caller's memory and says how much it wrote; the code drops that length, *)
(* and the walk goes by the length of the memory and the zeroes in it.     *)
(*                                                                         *)
(* Control messages are of one size.  A datagram is [len, controls], its   *)
(* controls a sequence of kinds; a place in the memory is None (zeroes) or *)
(* [kind, current], current when the datagram received last put it there.  *)
(***************************************************************************)
EXTENDS Naturals, Sequences

CONSTANTS Datagrams,
          MaxControl,   \* places in the caller's control memory
          None

VARIABLES port,
          arrived,              \* the datagram on the socket, or None
          memory, controllen,   \* msg->control and its length
          flags,                \* msg->flags
          cmsg,                 \* [valid, pd]: an EtcPalCMsgHdr
          received              \* the datagram in msg, or None

vars == <<port, arrived, memory, controllen, flags, cmsg, received>>

Ports == {"linux", "macos", "windows", "lwip"}

Kinds == {"v4", "v6", "other"}
Messages == [kind : Kinds, current : BOOLEAN]

\* None is no datagram and no control message.
ControlAssumption ==
  /\ MaxControl \in Nat
  /\ \A d \in Datagrams : d.controls \in Seq(Kinds)
  /\ None \notin Datagrams /\ None \notin Messages

Zeroes == [i \in 1 .. MaxControl |-> None]
NoMessage == [valid |-> FALSE, pd |-> 0]

Init ==
  /\ port \in Ports
  /\ arrived = None /\ memory = Zeroes /\ controllen = MaxControl
  /\ flags = {} /\ cmsg = NoMessage /\ received = None

Smaller(a, b) == IF a < b THEN a ELSE b

----
Arrive ==
  /\ arrived = None
  /\ arrived' \in Datagrams
  /\ UNCHANGED <<port, memory, controllen, flags, cmsg, received>>

\* The caller gives the header to the next receive, with its memory cleared or
\* as it is, whole or in part.
Prepare ==
  /\ memory' \in {memory, Zeroes}
  /\ controllen' \in 0 .. MaxControl
  /\ cmsg' = NoMessage /\ received' = None
  /\ UNCHANGED <<port, arrived, flags>>

\* What the system leaves in the memory: the messages that fit, and behind them
\* what was there.
Written(controls) ==
  [i \in 1 .. MaxControl |->
     IF i <= Smaller(Len(controls), controllen) THEN [kind |-> controls[i], current |-> TRUE]
     ELSE IF memory[i] = None THEN None
     ELSE [memory[i] EXCEPT !.current = FALSE]]

\* rcvmsg_flags_os_to_etcpal.  A Windows call whose data or control messages
\* are cut off fails with WSAEMSGSIZE and is taken for a success.
FlagsOf(datagram, buflen) ==
  (IF datagram.len > buflen THEN {"trunc"} ELSE {})
    \cup (IF Len(datagram.controls) > controllen THEN {"ctrunc"} ELSE {})

RecvMsg(buflen, peek) ==
  /\ arrived # None
  /\ arrived' = IF peek THEN arrived ELSE None
  /\ memory' = Written(arrived.controls)
  /\ flags' = FlagsOf(arrived, buflen)
  /\ received' = arrived
  /\ cmsg' = NoMessage
  /\ UNCHANGED <<port, controllen>>

\* The system has nothing and changes nothing, so that the flags of the last
\* message are read back; Windows puts the flags of this call in their place.
RecvMsgFails(peek) ==
  /\ arrived = None
  /\ flags' = IF port # "windows" THEN flags ELSE IF peek THEN {"peek"} ELSE {}
  /\ received' = None /\ cmsg' = NoMessage
  /\ UNCHANGED <<port, arrived, memory, controllen>>

----
Compatible(kind) == kind \in (IF port = "lwip" THEN {"v4"} ELSE {"v4", "v6"})

OnlyTheFirst(start) ==
  LET found == start <= controllen /\ memory[start] # None /\ Compatible(memory[start].kind)
  IN [valid |-> found, pd |-> IF found THEN start ELSE 0]

\* get_first_compatible_cmsg: from start to the end of the memory or to zeroes,
\* whichever comes first.
FirstCompatible(start) ==
  LET stops == {i \in start .. controllen :
                  memory[i] = None \/ Compatible(memory[i].kind)}
      i == CHOOSE j \in stops : \A k \in stops : j <= k
  IN IF stops = {} \/ memory[i] = None THEN NoMessage ELSE [valid |-> TRUE, pd |-> i]

\* The caller looks at a message it has received.
FirstHdr ==
  /\ received # None /\ ~cmsg.valid
  /\ cmsg' = FirstCompatible(1)
  /\ UNCHANGED <<port, arrived, memory, controllen, flags, received>>

NxtHdr ==
  /\ cmsg.valid
  /\ cmsg' = FirstCompatible(cmsg.pd + 1)
  /\ UNCHANGED <<port, arrived, memory, controllen, flags, received>>

Next ==
  \/ Arrive \/ Prepare \/ FirstHdr \/ NxtHdr
  \/ \E peek \in BOOLEAN :
       \/ \E buflen \in 1 .. 2 : RecvMsg(buflen, peek)
       \/ RecvMsgFails(peek)

Spec == Init /\ [][Next]_vars

----
\* Every variable has its type; a walk is at a place of the memory the caller gave.
TypeOK ==
  /\ port \in Ports
  /\ {arrived, received} \subseteq Datagrams \cup {None}
  /\ controllen \in 0 .. MaxControl
  /\ memory \in [1 .. MaxControl -> Messages \cup {None}]
  /\ flags \subseteq {"trunc", "ctrunc", "peek"}
  /\ cmsg.pd \in (IF cmsg.valid THEN 1 .. controllen ELSE {0})

\* The caller cleared its memory before it received, or every place left over
\* from earlier datagrams has been written again.
NothingLeftOver == \A i \in 1 .. MaxControl : memory[i] = None \/ memory[i].current

\* The received control messages that the application can use and that fitted.
Usable ==
  IF received = None THEN {}
  ELSE {i \in DOMAIN received.controls : i <= controllen /\ Compatible(received.controls[i])}

\* Nothing but the next usable one: firsthdr and nxthdr skip what the
\* application cannot use, stop after the last, and what does not fit is missed
\* only where the flags say so.
WalkFindsEach ==
  [][/\ NothingLeftOver /\ (FirstHdr \/ NxtHdr) =>
          LET ahead == {i \in Usable : i > cmsg.pd} IN
          IF cmsg'.valid THEN cmsg'.pd \in ahead /\ \A i \in ahead : cmsg'.pd <= i
          ELSE ahead = {}
     /\ received' # None /\ "ctrunc" \notin flags' =>
          \A i \in DOMAIN received'.controls : memory'[i].kind = received'.controls[i]]_vars

\* The memory has the datagram's messages as far as they fit, and behind those none of
\* it; they all fit, or the flags say that they do not.
MemoryHas(controls) ==
  /\ \A i \in 1 .. MaxControl :
       IF i <= Smaller(Len(controls), controllen)
       THEN memory[i] = [kind |-> controls[i], current |-> TRUE]
       ELSE memory[i] = None \/ ~memory[i].current
  /\ Len(controls) > controllen => "ctrunc" \in flags

\* What WalkFindsEach rests on: a walk is over the memory of a datagram received.
ControlInv ==
  /\ TypeOK
  /\ received # None => MemoryHas(received.controls)
  /\ cmsg.valid => received # None

\* socket.dox:202 -- etcpal_cmsg_firsthdr gets "the first control (ancillary)
\* message associated with the passed in message", and nxthdr the next ones:
\* none is left over from another datagram.
ControlIsOfMessage == cmsg.valid => memory[cmsg.pd].current
====
