---- MODULE ErrorCodes ----
(***************************************************************************)
(* What each port makes of its system's error codes                        *)
(* (os/<port>/etcpal/os_error.c, and os_socket.c of MQX).  A condition has *)
(* the name that POSIX gives it, whatever prefix a system puts before it;  *)
(* those of Windows and RTCS that POSIX does not name have their own.      *)
(***************************************************************************)
EXTENDS Sequences

VARIABLE condition  \* what an instance asks about

\* etcpal_error_t, from 0 downwards, and the strings of etcpal_strerror alike
Codes == <<"Ok", "NotFound", "NoMem", "Busy", "Exists", "Invalid", "WouldBlock", "NoData",
           "Protocol", "MsgSize", "AddrInUse", "AddrNotAvail", "Network", "ConnReset",
           "ConnClosed", "IsConn", "NotConn", "Shutdown", "TimedOut", "HostUnreach",
           "ConnAborted", "ConnRefused", "Already", "InProgress", "BufSize", "NotInit",
           "NoNetints", "NoSockets", "NotImpl", "Perm", "Sys">>

\* The cases of the switch statements; what a port does not name is Sys.
posix == [
  Perm |-> {"PERM", "ACCES"}, NotFound |-> {"NOENT", "BADF", "NOTSOCK"},
  Invalid |-> {"FAULT", "INVAL", "DESTADDRREQ", "PROTOTYPE", "OPNOTSUPP"},
  WouldBlock |-> {"WOULDBLOCK"}, Busy |-> {"BUSY"}, NoMem |-> {"NOMEM", "NOBUFS"},
  Exists |-> {"EXIST"}, NotImpl |-> {"NOSYS"}, Protocol |-> {"PROTO"}, MsgSize |-> {"MSGSIZE"},
  AddrInUse |-> {"ADDRINUSE"}, AddrNotAvail |-> {"ADDRNOTAVAIL"},
  Network |-> {"NETDOWN", "NETUNREACH", "NETRESET"}, ConnAborted |-> {"CONNABORTED"},
  ConnReset |-> {"CONNRESET"}, IsConn |-> {"ISCONN"}, NotConn |-> {"NOTCONN"},
  Shutdown |-> {"SHUTDOWN"}, TimedOut |-> {"TIMEDOUT"}, ConnRefused |-> {"CONNREFUSED"},
  Already |-> {"ALREADY"}, InProgress |-> {"INPROGRESS"}]

macos == posix
zephyr == posix
lwip == [posix EXCEPT !.Invalid = @ \cup {"NOPROTOOPT"}]

winsock == [
  NotFound |-> {"BADF", "NOTSOCK", "TYPE_NOT_FOUND", "HOST_NOT_FOUND", "STALE"},
  Invalid |-> {"INVALID_HANDLE", "INVALID_PARAMETER", "FAULT", "INVAL", "DESTADDRREQ", "NOPROTOOPT"},
  NoMem |-> {"NOMEM", "MFILE", "TOOMANYREFS", "PROCLIM", "USERS"},
  InProgress |-> {"IO_PENDING", "INPROGRESS"}, Already |-> {"IO_INCOMPLETE", "ALREADY"},
  WouldBlock |-> {"WOULDBLOCK"}, MsgSize |-> {"MSGSIZE"}, AddrInUse |-> {"ADDRINUSE"},
  AddrNotAvail |-> {"ADDRNOTAVAIL"},
  Network |-> {"NETDOWN", "NETUNREACH", "NETRESET", "HOSTDOWN", "HOSTUNREACH"},
  ConnReset |-> {"CONNRESET", "CONNABORTED"}, IsConn |-> {"ISCONN"}, NotConn |-> {"NOTCONN"},
  Shutdown |-> {"SHUTDOWN"}, TimedOut |-> {"TIMEDOUT"}, ConnRefused |-> {"CONNREFUSED"},
  BufSize |-> {"NOBUFS"}, NotInit |-> {"NOTINITIALISED", "SYSNOTREADY"}, Perm |-> {"ACCES"}]

\* The errors of Windows threads, by the numbers of C's errno
windows == [
  Perm |-> {"PERM", "ACCES"}, NotFound |-> {"NOENT", "SRCH", "NXIO", "NODEV"},
  Invalid |-> {"2BIG", "BADF", "NOTDIR", "ISDIR", "INVAL", "NAMETOOLONG"},
  WouldBlock |-> {"WOULDBLOCK"}, NoMem |-> {"NOMEM", "NOSPC"}, Busy |-> {"BUSY"},
  Exists |-> {"EXIST"}, NotImpl |-> {"NOSYS"}]

rtcs == [
  NoMem |-> {"NOMEM", "NOBUFS", "OUT_OF_SOCKETS"}, TimedOut |-> {"TIMEDOUT"},
  Invalid |-> {"INVALID_ADDRESS", "INVAL", "SOCK_INVALID", "SOCK_INVALID_AF", "SOCK_SHORT_ADDRESS",
               "SOCK_NOT_BOUND", "SOCK_NOT_LISTENING", "SOCK_NOT_OWNER", "SOCK_CLOSED",
               "NOPROTOOPT", "SOCK_SHORT_OPTION", "SOCK_ALLOC_GROUP", "SOCK_NOT_JOINED",
               "SOCK_INVALID_PARAMETER", "BADF", "SOCK_EINVAL", "SOCK_OPTION_IS_READ_ONLY"},
  NotImpl |-> {"FEATURE_NOT_ENABLED", "OPNOTSUPP"}, NotConn |-> {"NOTCONN"},
  Already |-> {"SOCK_IS_BOUND", "SOCK_IS_LISTENING"}, IsConn |-> {"ISCONN"},
  Shutdown |-> {"SHUTDOWN"}]

\* getaddrinfo of lwIP
gai == [NotFound |-> {"EAI_SERVICE", "EAI_FAIL", "EAI_NONAME"}, NoMem |-> {"EAI_MEMORY"},
        Invalid |-> {"EAI_FAMILY"}]

Tables == [linux |-> posix, macos |-> macos, zephyr |-> zephyr, lwip |-> lwip,
           winsock |-> winsock, windows |-> windows, rtcs |-> rtcs, gai |-> gai]

DefaultOk(table, cond) ==
  IF \E c \in DOMAIN table : cond \in table[c]
  THEN CHOOSE c \in DOMAIN table : cond \in table[c] ELSE "Ok"

to_etcpal(table, cond) ==
  IF \E c \in DOMAIN table : cond \in table[c]
  THEN CHOOSE c \in DOMAIN table : cond \in table[c] ELSE "Sys"

\* Whether etcpal_strerror has a text for the code
strerror(code) == \E i \in DOMAIN Codes : Codes[i] = code

Named(table) == UNION {table[c] : c \in DOMAIN table}

Conditions == UNION {Named(Tables[t]) : t \in DOMAIN Tables} \cup {"INTR"}

Init == condition \in Conditions

----
\* The conditions of which ports that name them make different codes.
Divergent == {"BADF", "OPNOTSUPP", "NOBUFS", "CONNABORTED"}

(***************************************************************************)
(* error.h:44-48 wants one set of codes for all platforms: a condition has *)
(* the same code on every port that names it, but for the divergent ones;  *)
(* a failure is never kEtcPalErrOk, always has a text, and looks like one  *)
(* that passes by itself only if it is one.                                *)
(***************************************************************************)
PortsAgree ==
  \A t \in DOMAIN Tables :
    LET code == to_etcpal(Tables[t], condition) IN
    /\ code # "Ok" /\ strerror(code)
    /\ code = "WouldBlock" => condition = "WOULDBLOCK"
    /\ code = "TimedOut" => condition = "TIMEDOUT"
    /\ code = "InProgress" => condition \in {"INPROGRESS", "IO_PENDING"}
    /\ \A u \in DOMAIN Tables :
         condition \in (Named(Tables[t]) \cap Named(Tables[u])) \ Divergent =>
           code = to_etcpal(Tables[u], condition)
====
