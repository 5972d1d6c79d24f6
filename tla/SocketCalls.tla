---- MODULE SocketCalls ----
(***************************************************************************)
(* The calls of a socket that hand something over between the application  *)
(* and the system (os/<port>/etcpal/os_socket.c): sockets themselves, the  *)
(* blocking mode, datagrams with their senders, and lists of addresses.    *)
(*                                                                         *)
(* Addresses are of the families that EtcPal converts, or of another one.  *)
(* The application's calls are right: it uses sockets it was given, and    *)
(* frees a list once.                                                      *)
(***************************************************************************)
EXTENDS Naturals, Sequences

CONSTANTS Ports, Sockets,
          MaxWaiting,   \* bounds for TLC: of datagrams on the way, of addresses in a list
          MaxAddresses,
          None

VARIABLES port,
          initialized,   \* etcpal_socket_init has succeeded
          startups,      \* Windows: the calls of WSAStartup not made up for
          open,          \* the system's sockets, with the directions that do not wait
          held,          \* those the application was given and has not closed
          blocking,      \* what it last asked of each, None after a failure
          answer,        \* of the last getblocking, [id, blocking]
          inbox,         \* senders of the datagrams that wait
          delivery,      \* the last datagram that recvfrom returned
          list,          \* the system's list of addresses, None if there is none
          pd,            \* pd[0] and pd[1] of the caller's EtcPalAddrinfo
          addrs          \* the addresses that the caller has seen

module_vars == <<port, initialized, startups>>
socket_vars == <<open, held, blocking, answer>>
data_vars == <<inbox, delivery>>
list_vars == <<list, pd, addrs>>
vars == <<module_vars, socket_vars, data_vars, list_vars>>

Addresses == {"v4", "v6", "other"}

NULL == 0

Lists == UNION {[1 .. n -> Addresses] : n \in 1 .. MaxAddresses}

Init ==
  /\ port \in Ports
  /\ initialized = FALSE /\ startups = 0
  /\ open = [s \in {} |-> {}] /\ held = {}
  /\ blocking = [s \in Sockets |-> None] /\ answer = None
  /\ inbox = << >> /\ delivery = None
  /\ list = None /\ pd = <<NULL, NULL>> /\ addrs = << >>

\* sockaddr_os_to_etcpal finds a family it knows.
Converts(a) == a \in {"v4", "v6"}

----
(***************************************************************************)
(* The module.  Windows starts Winsock and asks it for WSARecvMsg through  *)
(* a socket that it closes again.                                          *)
(***************************************************************************)
\* get_wsarecvmsg closes the socket whatever WSAIoctl says; without one it fails.
get_wsarecvmsg(found) == found => \E s \in Sockets : s \notin DOMAIN open

SocketInit ==
  /\ ~initialized
  /\ \/ port # "windows" /\ initialized' = TRUE /\ UNCHANGED startups
     \/ port = "windows" /\ get_wsarecvmsg(TRUE) /\ initialized' = TRUE /\ startups' = startups + 1
     \/ port = "windows" /\ get_wsarecvmsg(FALSE) /\ UNCHANGED <<initialized, startups>>
  /\ UNCHANGED <<port, socket_vars, data_vars, list_vars>>

SocketDeinit ==
  /\ initialized /\ held = {} /\ list = None
  /\ initialized' = FALSE
  /\ startups' = IF port = "windows" THEN startups - 1 ELSE startups
  /\ UNCHANGED <<port, socket_vars, data_vars, list_vars>>

----
(***************************************************************************)
(* Sockets.                                                                *)
(***************************************************************************)
Opened(s) == [t \in DOMAIN open \cup {s} |-> IF t = s THEN {} ELSE open[t]]

Closed(s) == [t \in DOMAIN open \ {s} |-> open[t]]

Receive(s) ==
  /\ s \notin DOMAIN open
  /\ open' = Opened(s) /\ held' = held \cup {s}
  /\ blocking' = [blocking EXCEPT ![s] = TRUE]
  /\ answer' = None
  /\ UNCHANGED <<module_vars, data_vars, list_vars>>

\* etcpal_socket; when it fails, there is nothing to hold.
NewSocket(s) == initialized /\ Receive(s)

AcceptKeeping(s, peer, want_address) ==
  /\ held # {} /\ s \notin DOMAIN open
  /\ open' = Opened(s)
  /\ held' = IF want_address => Converts(peer) THEN held \cup {s} ELSE held
  /\ blocking' = [blocking EXCEPT ![s] = TRUE]
  /\ answer' = None
  /\ UNCHANGED <<module_vars, data_vars, list_vars>>

\* etcpal_accept; a connection whose peer's address is asked for and cannot be had is
\* closed again.
Accept(s, peer, want_address) ==
  /\ held # {} /\ s \notin DOMAIN open
  /\ IF want_address => Converts(peer) THEN Receive(s) ELSE UNCHANGED vars

\* etcpal_close
Close(s) ==
  /\ s \in held
  /\ open' = Closed(s) /\ held' = held \ {s}
  /\ blocking' = [blocking EXCEPT ![s] = None] /\ answer' = None
  /\ UNCHANGED <<module_vars, data_vars, list_vars>>

----
(***************************************************************************)
(* The blocking mode: one flag of the system, or on MQX one for each       *)
(* direction, set one after the other.                                     *)
(***************************************************************************)
Directions == {"receive", "send"}

SetDirections(s, dirs, wait) ==
  open' = [open EXCEPT ![s] = IF wait THEN @ \ dirs ELSE @ \cup dirs]

\* etcpal_setblocking
SetBlocking(s, wait) ==
  /\ s \in held
  /\ SetDirections(s, Directions, wait)
  /\ blocking' = [blocking EXCEPT ![s] = wait]
  /\ answer' = None
  /\ UNCHANGED <<module_vars, held, data_vars, list_vars>>

\* The system refuses the first or, of MQX, the second direction.
SetBlockingFails(s, wait) ==
  /\ s \in held
  /\ \/ UNCHANGED <<open, blocking>>
     \/ /\ port = "mqx"
        /\ SetDirections(s, {"receive"}, wait)
        /\ blocking' = [blocking EXCEPT ![s] = IF @ = wait THEN wait ELSE None]
  /\ answer' = None
  /\ UNCHANGED <<module_vars, held, data_vars, list_vars>>

\* etcpal_getblocking, not there on Windows; MQX says a socket waits unless it does so
\* in neither direction.
IsBlocking(s) == open[s] # Directions

GetBlocking(s) ==
  /\ s \in held /\ port # "windows"
  /\ answer' = [id |-> s, blocking |-> IsBlocking(s)]
  /\ UNCHANGED <<module_vars, open, held, blocking, data_vars, list_vars>>

----
(***************************************************************************)
(* Datagrams, by their senders.                                            *)
(***************************************************************************)
Arrive(from) ==
  /\ held # {} /\ Len(inbox) < MaxWaiting
  /\ inbox' = Append(inbox, from) /\ delivery' = None
  /\ UNCHANGED <<module_vars, socket_vars, list_vars>>

\* etcpal_recvfrom: the system has taken the datagram, unless it is only looked at,
\* before the sender's address fails to convert.
RecvFrom(peek, want_address) ==
  /\ held # {} /\ inbox # << >>
  /\ inbox' = IF peek THEN inbox ELSE Tail(inbox)
  /\ delivery' = [from |-> inbox[1], peek |-> peek,
                  ok |-> want_address => Converts(inbox[1])]
  /\ UNCHANGED <<module_vars, socket_vars, list_vars>>

----
(***************************************************************************)
(* Lists of addresses.  pd[0] is the list, pd[1] the entry that is next;   *)
(* an entry is its index, from 1.                                          *)
(***************************************************************************)
After(entries, i) == IF i < Len(entries) THEN i + 1 ELSE NULL

\* etcpal_nextaddr of the entry pd[1]: one that cannot be converted stays next.
nextaddr(entries, i) ==
  IF Converts(entries[i]) THEN [found |-> TRUE, next |-> After(entries, i)]
  ELSE [found |-> FALSE, next |-> i]

Seen(entries, i) ==
  IF nextaddr(entries, i).found THEN Append(addrs, entries[i]) ELSE addrs

\* etcpal_getaddrinfo that the system answers: it succeeds if the first address converts.
GetAddrInfo(entries) ==
  /\ initialized /\ list = None
  /\ list' = entries
  /\ pd' = <<1, nextaddr(entries, 1).next>>
  /\ addrs' = IF nextaddr(entries, 1).found THEN <<entries[1]>> ELSE << >>
  /\ UNCHANGED <<module_vars, socket_vars, data_vars>>

NextAddr ==
  /\ list # None /\ pd[2] # NULL
  /\ pd' = <<pd[1], nextaddr(list, pd[2]).next>>
  /\ addrs' = Seen(list, pd[2])
  /\ UNCHANGED <<module_vars, socket_vars, data_vars, list>>

\* etcpal_freeaddrinfo; MQX leaves the pointers as they are.
FreeAddrInfo ==
  /\ list # None /\ pd[1] = 1
  /\ list' = None
  /\ pd' = IF port = "mqx" THEN pd ELSE <<NULL, NULL>>
  /\ addrs' = << >>
  /\ UNCHANGED <<module_vars, socket_vars, data_vars>>

Next ==
  \/ SocketInit \/ SocketDeinit
  \/ \E s \in Sockets :
       \/ NewSocket(s) \/ Close(s) \/ GetBlocking(s)
       \/ \E a \in Addresses, want \in BOOLEAN : Accept(s, a, want)
       \/ \E wait \in BOOLEAN : SetBlocking(s, wait) \/ SetBlockingFails(s, wait)
  \/ \E a \in Addresses : Arrive(a)
  \/ \E peek, want \in BOOLEAN : RecvFrom(peek, want)
  \/ \E entries \in Lists : GetAddrInfo(entries)
  \/ NextAddr \/ FreeAddrInfo

Spec == Init /\ [][Next]_vars

----
TypeOK ==
  /\ port \in Ports /\ initialized \in BOOLEAN /\ startups \in 0 .. 1
  /\ DOMAIN open \subseteq Sockets /\ \A s \in DOMAIN open : open[s] \subseteq Directions
  /\ held \subseteq Sockets /\ blocking \in [Sockets -> BOOLEAN \cup {None}]
  /\ answer \in {None} \cup [id : Sockets, blocking : BOOLEAN]
  /\ inbox \in Seq(Addresses) /\ Len(inbox) <= MaxWaiting
  /\ delivery \in {None} \cup [from : Addresses, peek : BOOLEAN, ok : BOOLEAN]
  /\ list \in {None} \cup Lists /\ pd \in (0 .. MaxAddresses) \X (0 .. MaxAddresses)
  /\ addrs \in Seq(Addresses)

(***************************************************************************)
(* The system has no open socket that the application was not given: what  *)
(* accept, and the initialization of the Windows port, cannot hand over    *)
(* they close.                                                             *)
(***************************************************************************)
EverySocketIsHeld == DOMAIN open = held

(***************************************************************************)
(* etcpal_getblocking returns what etcpal_setblocking was last asked for,  *)
(* unless that failed half-way, though MQX keeps two flags and is asked    *)
(* for both.                                                               *)
(***************************************************************************)
BlockingAsAsked ==
  answer # None /\ blocking[answer.id] # None => answer.blocking = blocking[answer.id]

(***************************************************************************)
(* The addresses that etcpal_getaddrinfo and etcpal_nextaddr return are    *)
(* the first ones of the list, in its order and with none left out, and    *)
(* nextaddr stops for good only when all were seen.                        *)
(***************************************************************************)
AddressesInOrder ==
  list # None =>
    /\ addrs = SubSeq(list, 1, Len(addrs))
    /\ pd[2] = IF addrs = list THEN NULL ELSE Len(addrs) + 1

(***************************************************************************)
(* What the calls hand over is what they were asked for: sockets, their    *)
(* mode, and addresses.                                                    *)
(***************************************************************************)
HandsOver == EverySocketIsHeld /\ BlockingAsAsked /\ AddressesInOrder

----
\* What the calls need of the constants.
CallsAssumption ==
  /\ MaxWaiting \in Nat /\ MaxAddresses \in Nat
  /\ None \notin BOOLEAN \cup Lists \cup [id : Sockets, blocking : BOOLEAN]

\* Winsock runs while the Windows port does.
WinsockRuns == startups = IF port = "windows" /\ initialized THEN 1 ELSE 0

\* The system's flags say what setblocking was last asked for, and an answer what
\* they say.
FlagsAsAsked ==
  /\ \A s \in held : /\ blocking[s] = TRUE => open[s] = {}
                     /\ blocking[s] = FALSE => open[s] = Directions
  /\ answer # None => answer.id \in held /\ answer.blocking = IsBlocking(answer.id)

\* The caller has seen the entries before pd[1].
EntriesSeen ==
  list # None =>
    /\ Len(addrs) <= Len(list)
    /\ \A i \in 1 .. Len(addrs) : addrs[i] = list[i]
    /\ pd[2] = IF Len(addrs) = Len(list) THEN NULL ELSE Len(addrs) + 1

CallsInv == TypeOK /\ WinsockRuns /\ EverySocketIsHeld /\ FlagsAsAsked /\ EntriesSeen
====
