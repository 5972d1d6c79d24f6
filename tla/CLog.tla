---- MODULE CLog ----
(***************************************************************************)
(* The C logging functions (src/etcpal/log.c): any thread makes up to      *)
(* three strings of its message in three static buffers, under buf_lock,   *)
(* and hands them to the application's function before it lets go.         *)
(*                                                                         *)
(* A field of a header is its length and whether it is free of spaces and  *)
(* of characters that are not printable ASCII.  A string is the thread     *)
(* that made it, the fields of its header, how much of the message fits,   *)
(* whether the header is whole and whether all of it is inside the buffer. *)
(*                                                                         *)
(* Priorities are the eight of the interface: with another one an          *)
(* assertion of create_log_str fails, and logs that, with buf_lock held.   *)
(* The application's function does not log, as its documentation asks.     *)
(***************************************************************************)
EXTENDS Integers, Sequences, FiniteSets

CONSTANTS Threads,
          RawParams,     \* what an application fills in
          Priorities, Lengths,   \* of the messages
          None

VARIABLES initialized,
          buf_lock,
          buffers,       \* human_log_msg, syslog_msg, legacy_syslog_msg
          pc, call,      \* how far each thread got, with what
          strings        \* the EtcPalLogStrings of each call

vars == <<initialized, buf_lock, buffers, pc, call, strings>>

Kinds == {"human", "syslog", "legacy"}

----
(* Lengths (log.h). *)
TIMESTAMP_LEN == 30
HEADER_MAX_LEN == 17 + (TIMESTAMP_LEN - 1) + 255 + 48 + 128
LOG_STR_MIN_LEN == TIMESTAMP_LEN + 1 + 6 + 1
RAW_MSG_MAX_LEN == 480
TAG_MAX_LEN == 35

\* The size of each static buffer.
BufLen == [human  |-> 8 + (TIMESTAMP_LEN - 1) + RAW_MSG_MAX_LEN + 1,
           syslog |-> HEADER_MAX_LEN + RAW_MSG_MAX_LEN + 1,
           legacy |-> HEADER_MAX_LEN + RAW_MSG_MAX_LEN + 1]

\* The smallest buffer that log.h allows for a string of each kind.
MinLen == [human |-> LOG_STR_MIN_LEN, syslog |-> HEADER_MAX_LEN, legacy |-> HEADER_MAX_LEN]

Least(m, n) == IF m < n THEN m ELSE n

Field(len) == [len |-> len, clean |-> TRUE]

Digits(n) == IF n < 10 THEN 1 ELSE IF n < 100 THEN 2 ELSE IF n < 1000 THEN 3 ELSE 4

----
(***************************************************************************)
(* Parameters.                                                             *)
(***************************************************************************)
sanitize_str(field) == [field EXCEPT !.clean = TRUE]

LOG_FAC(facility) == (facility \div 8) % 128

etcpal_sanitize_syslog_params(p) ==
  [facility |-> IF LOG_FAC(p.facility) >= 24 THEN 17 * 8 ELSE p.facility,
   hostname |-> sanitize_str(p.hostname),
   app_name |-> sanitize_str(p.app_name),
   procid   |-> sanitize_str(p.procid)]

etcpal_validate_log_params(params) ==
  IF params.action \cap {"syslog", "legacy"} # {}
  THEN [params EXCEPT !.syslog_params = etcpal_sanitize_syslog_params(@)]
  ELSE params

\* What fits in the arrays of EtcPalLogParams, and a facility of the bits that
\* ETCPAL_LOG_FACMASK has for it.
Texts(max) == [len : 0 .. max, clean : BOOLEAN]

ParamTypes ==
  [action : SUBSET Kinds, log_fn : BOOLEAN, log_mask : SUBSET (0 .. 7), time_fn : BOOLEAN,
   syslog_params : [facility : {8 * n : n \in 0 .. 127}, hostname : Texts(255),
                    app_name : Texts(48), procid : Texts(128)]]

\* Parameters an application may log with.
Params == {etcpal_validate_log_params(p) : p \in {q \in RawParams : q.log_fn}}

etcpal_can_log(params, pri) == pri \in params.log_mask

----
(***************************************************************************)
(* Headers.  A timestamp is None without a time function, and otherwise    *)
(* whether it is valid and whether it is ahead of or behind UTC.           *)
(***************************************************************************)
Stamps == [valid : BOOLEAN, offset : BOOLEAN]

HasTime(stamp) == stamp # None /\ stamp.valid

make_iso_timestamp(stamp) == IF stamp.offset THEN Field(29) ELSE Field(24)

\* Mmm dd hh:mm:ss, and a space that is a part of it.
make_legacy_syslog_timestamp == [len |-> 16, clean |-> FALSE]

make_legacy_syslog_tag_str(p) ==
  LET app == p.app_name.len
      proc == p.procid.len
      len == IF app > 0 /\ proc > 0 THEN app + proc + 4
             ELSE IF app > 0 \/ proc > 0 THEN app + proc + 2
             ELSE 0
  IN [len |-> Least(len, TAG_MAX_LEN - 1), clean |-> p.app_name.clean /\ p.procid.clean]

OrNil(field) == IF field.len > 0 THEN field ELSE Field(1)

\* A facility has no bits in common with a priority.
Prival(p, pri) == Field(Digits(p.facility + pri) + 2)

\* A header has at most eight fields.
Size(fields, separators) ==
  LET len(i) == IF i \in DOMAIN fields THEN fields[i].len ELSE 0
  IN len(1) + len(2) + len(3) + len(4) + len(5) + len(6) + len(7) + len(8) + separators

\* snprintf gives the size of the whole header, also when it wrote less of it;
\* vsnprintf then writes where the header would have ended.
Formatted(t, fields, size, limit, buflen, len) ==
  [by |-> t, fields |-> fields, whole |-> size < limit,
   inside |-> size < buflen, message |-> Least(len, buflen - size - 1)]

\* Both forms are the brackets and the four letters of the priority, after a time or not.
create_log_str(t, c, buflen) ==
  LET fields == IF HasTime(c.stamp) THEN <<make_iso_timestamp(c.stamp), Field(6)>> ELSE <<Field(6)>>
  IN Formatted(t, fields, Size(fields, Len(fields)), LOG_STR_MIN_LEN + 1, buflen, c.len)

\* The version comes behind the priority without a space; no message id, no data.
create_syslog_str(t, c, buflen) ==
  LET p == c.params.syslog_params
      time == IF HasTime(c.stamp) THEN make_iso_timestamp(c.stamp) ELSE Field(1)
      fields == <<Prival(p, c.pri), Field(1), time, OrNil(p.hostname), OrNil(p.app_name),
                  OrNil(p.procid), Field(1), Field(1)>>
  IN Formatted(t, fields, Size(fields, 7), HEADER_MAX_LEN, buflen, c.len)

\* Without a time there is no host name either.
create_legacy_syslog_str(t, c, buflen) ==
  LET p == c.params.syslog_params
      tag == make_legacy_syslog_tag_str(p)
      fields == IF HasTime(c.stamp)
                THEN <<Prival(p, c.pri), make_legacy_syslog_timestamp, OrNil(p.hostname), tag>>
                ELSE <<Prival(p, c.pri), tag>>
      separators == IF HasTime(c.stamp) THEN 1 ELSE 0
  IN Formatted(t, fields, Size(fields, separators), HEADER_MAX_LEN, buflen, c.len)

Create(kind, t, c, buflen) ==
  CASE kind = "human"  -> create_log_str(t, c, buflen)
    [] kind = "syslog" -> create_syslog_str(t, c, buflen)
    [] kind = "legacy" -> create_legacy_syslog_str(t, c, buflen)

\* The functions that make one string in a buffer of the caller's refuse a small one.
etcpal_create_str(kind, t, c, buflen) ==
  IF buflen < (IF kind = "human" THEN TIMESTAMP_LEN + 1 ELSE HEADER_MAX_LEN) THEN None
  ELSE Create(kind, t, c, buflen)

----
(***************************************************************************)
(* Logging.                                                                *)
(***************************************************************************)
NoStrings == [set |-> {}, raw |-> None]

Idle == [params |-> None, pri |-> None, len |-> None, stamp |-> None]

Calls == [params : Params \cup {None}, pri : Priorities \cup {None},
          len : Lengths \cup {None}, stamp : Stamps \cup {None}]

\* None is no thread and no string.
CLogAssumption ==
  /\ RawParams \subseteq ParamTypes
  /\ Priorities \subseteq 0 .. 7 /\ Lengths \subseteq Nat
  /\ None \notin Threads
  /\ None \notin [by : Threads, fields : Seq([len : Nat, clean : BOOLEAN]), whole : BOOLEAN,
                 inside : BOOLEAN, message : Int]

Points == {"idle", "time", "lock", "human", "syslog", "legacy", "handler"}

TypeOK ==
  /\ initialized \in BOOLEAN /\ buf_lock \in Threads \cup {None}
  /\ DOMAIN buffers = Kinds
  /\ \A kind \in Kinds : buffers[kind] = None \/ buffers[kind].by \in Threads
  /\ pc \in [Threads -> Points] /\ call \in [Threads -> Calls]
  /\ strings \in [Threads -> [set : SUBSET Kinds, raw : Kinds \cup {None}]]

Init ==
  /\ initialized = FALSE /\ buf_lock = None
  /\ buffers = [kind \in Kinds |-> None]
  /\ pc = [t \in Threads |-> "idle"] /\ call = [t \in Threads |-> Idle]
  /\ strings = [t \in Threads |-> NoStrings]

Goto(t, from, to) == pc[t] = from /\ pc' = [pc EXCEPT ![t] = to]

NobodyLogs == \A t \in Threads : pc[t] = "idle"

etcpal_log_init ==
  /\ ~initialized /\ initialized' = TRUE
  /\ buf_lock' = None
  /\ UNCHANGED <<buffers, pc, call, strings>>

\* Not while a thread logs, which is for the application to see to.
etcpal_log_deinit ==
  /\ initialized /\ NobodyLogs /\ initialized' = FALSE
  /\ UNCHANGED <<buf_lock, buffers, pc, call, strings>>

\* Otherwise the call returns at once, which is no step.
etcpal_vlog(t, params, pri, len) ==
  /\ initialized /\ etcpal_can_log(params, pri)
  /\ Goto(t, "idle", "time")
  /\ call' = [call EXCEPT ![t] = [params |-> params, pri |-> pri, len |-> len, stamp |-> None]]
  /\ UNCHANGED <<initialized, buf_lock, buffers, strings>>

get_time(t) ==
  /\ Goto(t, "time", "lock")
  /\ \E stamp \in IF call[t].params.time_fn THEN Stamps ELSE {None} :
       call' = [call EXCEPT ![t].stamp = stamp]
  /\ UNCHANGED <<initialized, buf_lock, buffers, strings>>

\* The mutant goes on when the mutex is another thread's.
LockAnyway(t) ==
  /\ Goto(t, "lock", "human")
  /\ buf_lock' = t
  /\ UNCHANGED <<initialized, buffers, call, strings>>

LockBuffers(t) ==
  /\ Goto(t, "lock", "human")
  /\ buf_lock = None /\ buf_lock' = t
  /\ UNCHANGED <<initialized, buffers, call, strings>>

\* raw points behind the header of the string made last.
CreateString(t, kind) ==
  IF kind \in call[t].params.action
  THEN /\ buffers' = [buffers EXCEPT ![kind] = Create(kind, t, call[t], BufLen[kind])]
       /\ strings' = [strings EXCEPT ![t] = [set |-> @.set \cup {kind}, raw |-> kind]]
  ELSE UNCHANGED <<buffers, strings>>

CreateHuman(t) ==
  /\ Goto(t, "human", "syslog")
  /\ CreateString(t, "human") /\ UNCHANGED <<initialized, buf_lock, call>>

CreateSyslog(t) ==
  /\ Goto(t, "syslog", "legacy")
  /\ CreateString(t, "syslog") /\ UNCHANGED <<initialized, buf_lock, call>>

\* The application's function is then called.
CreateLegacy(t) ==
  /\ Goto(t, "legacy", "handler")
  /\ CreateString(t, "legacy") /\ UNCHANGED <<initialized, buf_lock, call>>

HandlerReturns(t) ==
  /\ Goto(t, "handler", "idle")
  /\ buf_lock' = None
  /\ call' = [call EXCEPT ![t] = Idle] /\ strings' = [strings EXCEPT ![t] = NoStrings]
  /\ UNCHANGED <<initialized, buffers>>

Next ==
  \/ etcpal_log_init
  \/ etcpal_log_deinit
  \/ \E t \in Threads :
       \/ \E params \in Params, pri \in Priorities, len \in Lengths : etcpal_vlog(t, params, pri, len)
       \/ get_time(t) \/ LockBuffers(t)
       \/ CreateHuman(t) \/ CreateSyslog(t) \/ CreateLegacy(t) \/ HandlerReturns(t)

Spec == Init /\ [][Next]_vars

----
\* A receiver finds the end of each field: nothing was cut off and no field has a
\* space in it but the old format's time.
IsWhole(text) ==
  /\ text # None /\ text.whole /\ text.inside
  /\ \A i \in DOMAIN text.fields :
       text.fields[i].clean \/ text.fields[i] = make_legacy_syslog_timestamp

(* As long as the application's function runs, the strings it was given are those it   *)
(* asked for, all of them are of this thread's message, whatever other threads log     *)
(* meanwhile, their headers are whole and so is a message of the documented length.    *)
(* The header fits too in the smallest buffer that a caller of its own may give.        *)
HandlerSeesItsMessage ==
  \A t \in Threads : pc[t] = "handler" =>
    LET c == call[t]
        made == strings[t].set
    IN /\ made = c.params.action
       /\ made # {} => strings[t].raw \in made
       /\ \A kind \in made :
            /\ buffers[kind] = Create(kind, t, c, BufLen[kind])
            /\ IsWhole(buffers[kind])
            /\ buffers[kind].message >= Least(c.len, RAW_MSG_MAX_LEN)
            /\ IsWhole(etcpal_create_str(kind, t, c, MinLen[kind]))

\* Where a thread has buf_lock, and what it has made there of what it was asked for.
Locked == {"human", "syslog", "legacy", "handler"}

MadeAt(point) ==
  CASE point = "syslog" -> {"human"}
    [] point = "legacy" -> {"human", "syslog"}
    [] point = "handler" -> Kinds
    [] OTHER -> {}

MessageIsKept(t) ==
  /\ pc[t] # "idle" =>
       call[t].params \in Params /\ call[t].pri \in Priorities /\ call[t].len \in Lengths
  /\ strings[t].set = IF pc[t] = "idle" THEN {} ELSE call[t].params.action \cap MadeAt(pc[t])
  /\ strings[t].set # {} => strings[t].raw \in strings[t].set
  /\ pc[t] \in Locked => buf_lock = t
  /\ \A kind \in strings[t].set : buffers[kind] = Create(kind, t, call[t], BufLen[kind])

\* What HandlerSeesItsMessage rests on: only who has the lock writes, and the lock is not
\* made anew while somebody has it.
CLogInv ==
  /\ TypeOK
  /\ buf_lock # None => pc[buf_lock] \in Locked
  /\ ~initialized => NobodyLogs
  /\ \A t \in Threads : MessageIsKept(t)
====
