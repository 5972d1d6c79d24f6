------------------------ MODULE KernelQueueProofs ------------------------
(***************************************************************************)
(* Proof that the queues of FreeRTOS and Zephyr implement BoundedFifo, for *)
(* any number of threads and interrupt handlers and any capacity.  The     *)
(* argument is KernelInv: those who wait in Zephyr's queue either all wait *)
(* for an item or all for room, and only while there is none, except       *)
(* between the two steps of a call that brings just one.                   *)
(***************************************************************************)
EXTENDS Traffic, SequencesExt, SequenceTheorems, TLAPS

\* What is left of a sequence without its k-th member.
LEMMA Removed ==
  ASSUME NEW S, NEW s \in Seq(S), NEW k \in DOMAIN s
  PROVE  /\ Kernel!RemoveAt(s, k) \in Seq(S)
         /\ Len(Kernel!RemoveAt(s, k)) = Len(s) - 1
         /\ \A i \in 1 .. Len(s) - 1 : Kernel!RemoveAt(s, k)[i] = IF i < k THEN s[i] ELSE s[i + 1]
<1> DEFINE before == SubSeq(s, 1, k - 1)
           after == SubSeq(s, k + 1, Len(s))
<1>1. Len(s) \in Nat /\ DOMAIN s = 1 .. Len(s) /\ \A i \in 1 .. Len(s) : s[i] \in S
  BY LenProperties, ElementOfSeq
<1>2. /\ before \in Seq(S) /\ Len(before) = k - 1
      /\ \A i \in 1 .. k - 1 : before[i] = s[i]
  <2>1. k - 1 \in Int /\ 1 \in Int /\ \A i \in 1 .. k - 1 : s[i] \in S
    BY <1>1
  <2> QED
    BY <1>1, <2>1, SubSeqProperties
<1>3. /\ after \in Seq(S) /\ Len(after) = Len(s) - k
      /\ \A i \in 1 .. Len(s) - k : after[i] = s[k + i]
  <2>1. k + 1 \in Int /\ Len(s) \in Int /\ \A i \in k + 1 .. Len(s) : s[i] \in S
    BY <1>1
  <2>2. /\ after \in Seq(S)
        /\ Len(after) = IF k + 1 <= Len(s) THEN Len(s) - (k + 1) + 1 ELSE 0
        /\ \A i \in 1 .. Len(s) - (k + 1) + 1 : after[i] = s[(k + 1) + i - 1]
    BY <2>1, SubSeqProperties
  <2>3. Len(s) - (k + 1) + 1 = Len(s) - k /\ \A i \in 1 .. Len(s) - k : (k + 1) + i - 1 = k + i
    BY <1>1
  <2> HIDE DEF after
  <2>4. Len(after) = Len(s) - k
    BY <1>1, <2>2
  <2> QED
    BY <2>2, <2>3, <2>4
<1>4. /\ before \o after \in Seq(S)
      /\ Len(before \o after) = Len(before) + Len(after)
      /\ \A i \in 1 .. Len(before) + Len(after) :
           (before \o after)[i] = IF i <= Len(before) THEN before[i] ELSE after[i - Len(before)]
  BY <1>2, <1>3, ConcatProperties
<1>5. Kernel!RemoveAt(s, k) = before \o after
  BY DEF Kernel!RemoveAt
<1> HIDE DEF before, after
<1>6. Len(before \o after) = Len(s) - 1
  BY <1>1, <1>2, <1>3, <1>4
<1>7. ASSUME NEW i \in 1 .. Len(s) - 1
      PROVE  (before \o after)[i] = IF i < k THEN s[i] ELSE s[i + 1]
  <2>1. i \in 1 .. Len(before) + Len(after) /\ i \in Nat /\ k \in Nat
    BY <1>1, <1>2, <1>3
  <2>2. CASE i < k
    <3>1. i <= Len(before) /\ i \in 1 .. k - 1
      BY <1>1, <1>2, <2>1, <2>2
    <3> QED
      BY <1>2, <1>4, <2>1, <2>2, <3>1
  <2>3. CASE ~(i < k)
    <3>1. ~(i <= Len(before)) /\ i - Len(before) \in 1 .. Len(s) - k /\ k + (i - Len(before)) = i + 1
      BY <1>1, <1>2, <2>1, <2>3
    <3> QED
      BY <1>3, <1>4, <2>1, <2>3, <3>1
  <2> QED
    BY <2>2, <2>3
<1> QED
  BY <1>4, <1>5, <1>6, <1>7

----
LEMMA InitInv ==
  ASSUME Kernel!KernelAssumption, Kernel!Init PROVE Kernel!KernelInv
<1>1. kernel_ring = << >> /\ pending = << >> /\ in_kernel = None
  BY DEF Kernel!Init
<1>2. /\ kernel_ring \in Seq(Items) /\ Len(kernel_ring) = 0
      /\ pending \in Seq(Threads) /\ DOMAIN pending = {}
  <2>1. DOMAIN pending = 1 .. 0
    BY <1>1, EmptySeq, LenProperties
  <2> QED
    BY <1>1, <2>1, EmptySeq
<1>3. Kernel!TypeOK
  <2>1. Len(kernel_ring) <= Capacity
    BY <1>2 DEF Kernel!KernelAssumption
  <2> QED
    BY <1>1, <1>2, <2>1 DEF Kernel!Init, Kernel!TypeOK, Kernel!Callers
<1>4. Kernel!ItemsOfCalls
  BY DEF Kernel!Init, Kernel!ItemsOfCalls, Kernel!Callers
<1>5. Kernel!WaitersCall /\ Kernel!WaitersMustWait
  BY <1>1, <1>2 DEF Kernel!Init, Kernel!WaitersCall, Kernel!WaitersMustWait
<1> QED
  BY <1>3, <1>4, <1>5 DEF Kernel!KernelInv

\* The FreeRTOS steps leave Zephyr's wait queue alone, which is empty.
LEMMA NobodyWaits ==
  ASSUME Kernel!KernelAssumption, Kernel!KernelInv, kernel = "freertos" \/ ~created
  PROVE  pending = << >> /\ in_kernel = None
<1>1. pending = << >>
  <2> SUFFICES ASSUME pending # << >> PROVE FALSE
    OBVIOUS
  <2>1. Len(pending) \in Nat \ {0} /\ DOMAIN pending = 1 .. Len(pending) /\ pending[1] \in Threads
    BY EmptySeq, LenProperties, ElementOfSeq DEF Kernel!KernelInv, Kernel!TypeOK
  <2> QED
    BY <2>1 DEF Kernel!KernelInv, Kernel!WaitersCall, Kernel!Callers
<1> QED
  BY <1>1 DEF Kernel!KernelInv, Kernel!WaitersMustWait

\* The wait queue as a sequence of threads.
LEMMA Waiters ==
  ASSUME Kernel!KernelInv
  PROVE  /\ DOMAIN pending = 1 .. Len(pending) /\ Len(pending) \in Nat
         /\ pending # << >> => 1 \in DOMAIN pending
         /\ Len(pending) = 0 => pending = << >>
         /\ \A i \in DOMAIN pending : pending[i] \in Threads /\ pending[i] \in Kernel!Callers
BY EmptySeq, LenProperties, ElementOfSeq DEF Kernel!KernelInv, Kernel!TypeOK, Kernel!Callers

\* A step of a caller that does not wait leaves the wait queue as it should be.
LEMMA OthersKeepWaiting ==
  ASSUME Kernel!KernelInv, NEW c \in Kernel!Callers, \A i \in DOMAIN pending : pending[i] # c,
         \A d \in Kernel!Callers \ {c} : kernel_pc'[d] = kernel_pc[d],
         created, UNCHANGED <<kernel, created, pending>>
  PROVE  /\ Kernel!WaitersCall'
         /\ \A i \in DOMAIN pending : kernel_pc'[pending[i]] = kernel_pc[pending[i]]
         /\ UNCHANGED <<kernel_ring, in_kernel>> => Kernel!WaitersMustWait'
<1>1. \A i \in DOMAIN pending : kernel_pc'[pending[i]] = kernel_pc[pending[i]]
  BY Waiters
<1>2. Kernel!WaitersCall'
  BY <1>1 DEF Kernel!KernelInv, Kernel!WaitersCall
<1>3. UNCHANGED <<kernel_ring, in_kernel>> => Kernel!WaitersMustWait'
  BY <1>1 DEF Kernel!KernelInv, Kernel!WaitersMustWait, Kernel!Blocked
<1> QED
  BY <1>1, <1>2, <1>3

\* Only who is in a call waits.
LEMMA CallerIsIn ==
  ASSUME Kernel!KernelInv, NEW c \in Kernel!Callers
  PROVE  /\ kernel_pc[c] \in {"idle", "returned"} => \A i \in DOMAIN pending : pending[i] # c
         /\ kernel_pc[c] # "idle" => created
         /\ kernel_pc[c] \in {"idle", "send", "receive", "returned"}
BY DEF Kernel!KernelInv, Kernel!WaitersCall, Kernel!TypeOK

LEMMA CallInv ==
  ASSUME Kernel!KernelAssumption, Kernel!KernelInv, NEW c \in Kernel!Callers,
         NEW t \in Kernel!Timeouts(c), Kernel!Receive(c, t) \/ \E item \in Items : Kernel!Send(c, item, t)
  PROVE  Kernel!KernelInv'
<1>1. PICK does \in {"send", "receive"}, item \in Items \cup {None} :
        /\ Kernel!Call(c, does, item, t)
        /\ does = "send" => item # None
        /\ does = "receive" => item = None
  BY DEF Kernel!KernelAssumption, Kernel!Receive, Kernel!Send
<1>2. \A d \in Kernel!Callers \ {c} : kernel_pc'[d] = kernel_pc[d] /\ kernel_data'[d] = kernel_data[d] /\ timeout_ms'[d] = timeout_ms[d]
  BY <1>1 DEF Kernel!Call, Kernel!KernelInv, Kernel!TypeOK
<1>3. kernel_pc'[c] = does /\ kernel_data'[c] = item /\ timeout_ms'[c] = t /\ ok' = ok /\ kernel_pc[c] = "idle" /\ created
  BY <1>1 DEF Kernel!Call, Kernel!KernelInv, Kernel!TypeOK
<1>4. Kernel!TypeOK'
  BY <1>1 DEF Kernel!Call, Kernel!KernelInv, Kernel!TypeOK, Kernel!Timeouts
<1>5. Kernel!ItemsOfCalls'
  BY <1>1, <1>2, <1>3 DEF Kernel!KernelInv, Kernel!ItemsOfCalls, Kernel!Timeouts,
     Kernel!Callers
<1>6. Kernel!WaitersCall' /\ Kernel!WaitersMustWait'
  BY <1>1, <1>2, <1>3, CallerIsIn, OthersKeepWaiting DEF Kernel!Call
<1> QED
  BY <1>4, <1>5, <1>6 DEF Kernel!KernelInv

LEMMA ReturnInv ==
  ASSUME Kernel!KernelAssumption, Kernel!KernelInv, NEW c \in Kernel!Callers, Kernel!Return(c)
  PROVE  Kernel!KernelInv'
<1>2. \A d \in Kernel!Callers \ {c} : kernel_pc'[d] = kernel_pc[d] /\ kernel_data'[d] = kernel_data[d] /\ timeout_ms'[d] = timeout_ms[d] /\ ok'[d] = ok[d]
  BY DEF Kernel!Return, Kernel!KernelInv, Kernel!TypeOK
<1>3. kernel_pc'[c] = "idle" /\ kernel_data'[c] = None /\ timeout_ms'[c] = "no" /\ ok'[c] = FALSE /\ kernel_pc[c] = "returned"
  BY DEF Kernel!Return, Kernel!KernelInv, Kernel!TypeOK
<1>4. Kernel!TypeOK'
  BY DEF Kernel!Return, Kernel!KernelInv, Kernel!TypeOK
<1>5. Kernel!ItemsOfCalls'
  BY <1>2, <1>3 DEF Kernel!KernelInv, Kernel!ItemsOfCalls, Kernel!Callers
<1>6. Kernel!WaitersCall' /\ Kernel!WaitersMustWait'
  BY <1>2, <1>3, CallerIsIn, OthersKeepWaiting DEF Kernel!Return
<1> QED
  BY <1>4, <1>5, <1>6 DEF Kernel!KernelInv

\* What an answer leaves alone.
LEMMA OnlyOneAnswered ==
  ASSUME Kernel!TypeOK, NEW c \in Kernel!Callers, NEW success \in BOOLEAN, Kernel!Answers(c, success)
  PROVE  /\ \A d \in Kernel!Callers \ {c} : kernel_pc'[d] = kernel_pc[d] /\ ok'[d] = ok[d]
         /\ kernel_pc'[c] = "returned" /\ ok'[c] = success
         /\ kernel_pc' \in [Kernel!Callers -> {"idle", "send", "receive", "returned"}] /\ ok' \in [Kernel!Callers -> BOOLEAN]
BY DEF Kernel!Answers, Kernel!TypeOK

\* The whole FreeRTOS side and the first half of Zephyr's, but for the wait queue.
LEMMA PutTypes ==
  ASSUME Kernel!KernelInv, NEW c \in Kernel!Callers, kernel_pc[c] = "send", Len(kernel_ring) < Capacity, Capacity \in Nat,
         kernel_ring' = Append(kernel_ring, kernel_data[c]), kernel_data' = [kernel_data EXCEPT ![c] = None], Kernel!Answers(c, TRUE),
         UNCHANGED <<kernel, created, timeout_ms>>,
         pending' \in Seq(Threads), in_kernel' \in Kernel!Callers \cup {None}
  PROVE  /\ Kernel!TypeOK' /\ Kernel!ItemsOfCalls'
         /\ Len(kernel_ring') = Len(kernel_ring) + 1
         /\ \A d \in Kernel!Callers \ {c} : kernel_pc'[d] = kernel_pc[d]
<1>1. kernel_data[c] \in Items
  BY DEF Kernel!KernelInv, Kernel!TypeOK, Kernel!ItemsOfCalls
<1>2. kernel_ring' \in Seq(Items) /\ Len(kernel_ring') = Len(kernel_ring) + 1 /\ Len(kernel_ring) \in Nat
  BY <1>1, AppendProperties, LenProperties DEF Kernel!KernelInv, Kernel!TypeOK
<1>3. /\ \A d \in Kernel!Callers \ {c} : kernel_pc'[d] = kernel_pc[d] /\ ok'[d] = ok[d] /\ kernel_data'[d] = kernel_data[d]
      /\ kernel_pc'[c] = "returned" /\ ok'[c] = TRUE /\ kernel_data'[c] = None
      /\ kernel_pc' \in [Kernel!Callers -> {"idle", "send", "receive", "returned"}] /\ ok' \in [Kernel!Callers -> BOOLEAN]
  BY OnlyOneAnswered DEF Kernel!KernelInv, Kernel!TypeOK
<1>4. Kernel!TypeOK'
  <2>1. kernel_data' \in [Kernel!Callers -> Items \cup {None}]
    BY <1>2 DEF Kernel!KernelInv, Kernel!TypeOK
  <2>2. Len(kernel_ring') <= Capacity
    BY <1>2 DEF Kernel!KernelInv, Kernel!TypeOK
  <2> QED
    BY <1>2, <1>3, <2>1, <2>2 DEF Kernel!KernelInv, Kernel!TypeOK
<1>5. Kernel!ItemsOfCalls'
  BY <1>3 DEF Kernel!KernelInv, Kernel!ItemsOfCalls
<1> QED
  BY <1>2, <1>3, <1>4, <1>5

LEMMA GetTypes ==
  ASSUME Kernel!KernelInv, NEW c \in Kernel!Callers, kernel_pc[c] = "receive", kernel_ring # << >>, Capacity \in Nat,
         kernel_ring' = Tail(kernel_ring), kernel_data' = [kernel_data EXCEPT ![c] = Head(kernel_ring)], Kernel!Answers(c, TRUE),
         UNCHANGED <<kernel, created, timeout_ms>>,
         pending' \in Seq(Threads), in_kernel' \in Kernel!Callers \cup {None}
  PROVE  /\ Kernel!TypeOK' /\ Kernel!ItemsOfCalls'
         /\ Len(kernel_ring') = Len(kernel_ring) - 1 /\ Head(kernel_ring) \in Items
         /\ \A d \in Kernel!Callers \ {c} : kernel_pc'[d] = kernel_pc[d]
<1>2. kernel_ring' \in Seq(Items) /\ Len(kernel_ring') = Len(kernel_ring) - 1 /\ Len(kernel_ring) \in Nat /\ Head(kernel_ring) \in Items
  BY HeadTailProperties, LenProperties DEF Kernel!KernelInv, Kernel!TypeOK
<1>3. /\ \A d \in Kernel!Callers \ {c} : kernel_pc'[d] = kernel_pc[d] /\ ok'[d] = ok[d] /\ kernel_data'[d] = kernel_data[d]
      /\ kernel_pc'[c] = "returned" /\ ok'[c] = TRUE
      /\ kernel_pc' \in [Kernel!Callers -> {"idle", "send", "receive", "returned"}] /\ ok' \in [Kernel!Callers -> BOOLEAN]
  BY OnlyOneAnswered DEF Kernel!KernelInv, Kernel!TypeOK
<1>4. Kernel!TypeOK'
  <2>1. kernel_data' \in [Kernel!Callers -> Items \cup {None}]
    BY <1>2 DEF Kernel!KernelInv, Kernel!TypeOK
  <2>2. Len(kernel_ring') <= Capacity
    BY <1>2 DEF Kernel!KernelInv, Kernel!TypeOK
  <2> QED
    BY <1>2, <1>3, <2>1, <2>2 DEF Kernel!KernelInv, Kernel!TypeOK
<1>5. Kernel!ItemsOfCalls'
  BY <1>3 DEF Kernel!KernelInv, Kernel!ItemsOfCalls
<1> QED
  BY <1>2, <1>3, <1>4, <1>5

LEMMA FreeRtosInv ==
  ASSUME Kernel!KernelAssumption, Kernel!KernelInv, NEW c \in Kernel!Callers,
         Kernel!FreeRtosSend(c) \/ Kernel!FreeRtosReceive(c) \/ Kernel!FreeRtosGivesUp(c)
  PROVE  Kernel!KernelInv'
<1>1. /\ kernel = "freertos" /\ kernel_pc[c] \in {"send", "receive"}
      /\ UNCHANGED <<kernel, created, pending, in_kernel, timeout_ms>>
  BY DEF Kernel!FreeRtosSend, Kernel!FreeRtosReceive, Kernel!FreeRtosGivesUp
<1>2. pending = << >> /\ in_kernel = None /\ created /\ DOMAIN pending = {}
  BY <1>1, NobodyWaits, CallerIsIn, Waiters
<1>3. Capacity \in Nat /\ pending' \in Seq(Threads) /\ in_kernel' \in Kernel!Callers \cup {None}
  BY <1>1 DEF Kernel!KernelAssumption, Kernel!KernelInv, Kernel!TypeOK
<1>4. Kernel!TypeOK' /\ Kernel!ItemsOfCalls' /\ \A d \in Kernel!Callers \ {c} : kernel_pc'[d] = kernel_pc[d]
  <2>1. CASE Kernel!FreeRtosSend(c)
    BY <1>3, <2>1, PutTypes DEF Kernel!FreeRtosSend, Kernel!xQueueSendToBack
  <2>2. CASE Kernel!FreeRtosReceive(c)
    BY <1>3, <2>2, GetTypes DEF Kernel!FreeRtosReceive
  <2>3. CASE Kernel!FreeRtosGivesUp(c)
    <3>1. Kernel!Answers(c, FALSE) /\ UNCHANGED <<kernel_ring, kernel_data>>
      BY <2>3 DEF Kernel!FreeRtosGivesUp
    <3>2. /\ \A d \in Kernel!Callers \ {c} : kernel_pc'[d] = kernel_pc[d] /\ ok'[d] = ok[d]
          /\ kernel_pc'[c] = "returned" /\ ok'[c] = FALSE
          /\ kernel_pc' \in [Kernel!Callers -> {"idle", "send", "receive", "returned"}] /\ ok' \in [Kernel!Callers -> BOOLEAN]
      BY <3>1, OnlyOneAnswered DEF Kernel!KernelInv
    <3>3. Kernel!TypeOK'
      BY <1>1, <3>1, <3>2 DEF Kernel!KernelInv, Kernel!TypeOK
    <3>4. Kernel!ItemsOfCalls'
      BY <1>1, <3>1, <3>2 DEF Kernel!KernelInv, Kernel!ItemsOfCalls
    <3> QED
      BY <3>2, <3>3, <3>4
  <2> QED
    BY <2>1, <2>2, <2>3
<1>5. Kernel!WaitersCall'
  BY <1>1, <1>2, <1>4, OthersKeepWaiting
<1>6. Kernel!WaitersMustWait'
  BY <1>1, <1>2 DEF Kernel!WaitersMustWait
<1> QED
  BY <1>4, <1>5, <1>6 DEF Kernel!KernelInv

\* Zephyr: an item or a place is news to those who wait, and to all of them alike.
LEMMA NewsForWaiters ==
  ASSUME Kernel!KernelAssumption, Kernel!KernelInv, NEW c \in Kernel!Callers, Kernel!ZephyrSend(c) \/ Kernel!ZephyrReceive(c)
  PROVE  Kernel!KernelInv'
<1>1. /\ kernel = "zephyr" /\ in_kernel = None /\ kernel_pc[c] \in {"send", "receive"} /\ ~Kernel!Waits(c)
      /\ UNCHANGED <<kernel, created, pending, timeout_ms>> /\ Kernel!HoldLock(c)
  BY DEF Kernel!ZephyrSend, Kernel!ZephyrReceive, Kernel!Asks
<1>2. /\ created /\ \A i \in DOMAIN pending : pending[i] # c
      /\ Capacity \in Nat \ {0} /\ Capacity \in Nat /\ c # None
      /\ pending' \in Seq(Threads) /\ in_kernel' \in Kernel!Callers \cup {None}
      /\ Len(kernel_ring) \in Nat /\ Len(kernel_ring) <= Capacity
  BY <1>1, CallerIsIn, LenProperties DEF Kernel!KernelAssumption, Kernel!KernelInv,
     Kernel!TypeOK, Kernel!Waits,
     Kernel!HoldLock, Kernel!Callers
<1>3. CASE Kernel!ZephyrSend(c)
  <2>1. /\ Kernel!TypeOK' /\ Kernel!ItemsOfCalls' /\ Len(kernel_ring') = Len(kernel_ring) + 1
        /\ \A d \in Kernel!Callers \ {c} : kernel_pc'[d] = kernel_pc[d]
    BY <1>2, <1>3, PutTypes DEF Kernel!ZephyrSend, Kernel!Asks
  <2>2. Kernel!WaitersCall' /\ \A i \in DOMAIN pending : kernel_pc'[pending[i]] = kernel_pc[pending[i]]
    BY <1>1, <1>2, <2>1, OthersKeepWaiting
  <2>3. \A i \in DOMAIN pending : kernel_pc[pending[i]] = "receive" /\ kernel_ring = << >>
    BY <1>1, <1>2, <1>3, Waiters DEF Kernel!KernelInv, Kernel!WaitersCall,
       Kernel!WaitersMustWait, Kernel!Blocked,
       Kernel!ZephyrSend
  <2>4. Kernel!WaitersMustWait'
    <3>1. CASE pending = << >>
      <4>1. in_kernel' = None /\ DOMAIN pending' = {}
        BY <1>1, <3>1, Waiters, NobodyWaits DEF Kernel!HoldLock
      <4> QED
        BY <4>1 DEF Kernel!WaitersMustWait
    <3>2. CASE pending # << >>
      <4>1. in_kernel' # None /\ kernel_ring = << >> /\ pending' # << >>
        BY <1>1, <1>2, <2>3, <3>2, Waiters DEF Kernel!HoldLock
      <4>2. Len(kernel_ring') = 1
        BY <2>1, <4>1, EmptySeq
      <4> QED
        BY <1>1, <2>2, <2>3, <4>1, <4>2 DEF Kernel!WaitersMustWait
    <3> QED
      BY <3>1, <3>2
  <2> QED
    BY <2>1, <2>2, <2>4 DEF Kernel!KernelInv
<1>4. CASE Kernel!ZephyrReceive(c)
  <2>1. /\ Kernel!TypeOK' /\ Kernel!ItemsOfCalls' /\ Len(kernel_ring') = Len(kernel_ring) - 1
        /\ \A d \in Kernel!Callers \ {c} : kernel_pc'[d] = kernel_pc[d]
    BY <1>2, <1>4, GetTypes DEF Kernel!ZephyrReceive, Kernel!Asks
  <2>2. Kernel!WaitersCall' /\ \A i \in DOMAIN pending : kernel_pc'[pending[i]] = kernel_pc[pending[i]]
    BY <1>1, <1>2, <2>1, OthersKeepWaiting
  <2>3. \A i \in DOMAIN pending : kernel_pc[pending[i]] = "send" /\ Len(kernel_ring) = Capacity
    BY <1>1, <1>2, <1>4, Waiters DEF Kernel!KernelInv, Kernel!WaitersCall,
       Kernel!WaitersMustWait, Kernel!Blocked,
       Kernel!ZephyrReceive
  <2>4. Kernel!WaitersMustWait'
    <3>1. CASE pending = << >>
      <4>1. in_kernel' = None /\ DOMAIN pending' = {}
        BY <1>1, <3>1, Waiters, NobodyWaits DEF Kernel!HoldLock
      <4> QED
        BY <4>1 DEF Kernel!WaitersMustWait
    <3>2. CASE pending # << >>
      <4>1. in_kernel' # None /\ Len(kernel_ring) = Capacity /\ pending' # << >>
        BY <1>1, <1>2, <2>3, <3>2, Waiters DEF Kernel!HoldLock
      <4>2. Len(kernel_ring') = Capacity - 1
        BY <2>1, <4>1
      <4> QED
        BY <1>1, <2>2, <2>3, <4>1, <4>2 DEF Kernel!WaitersMustWait
    <3> QED
      BY <3>1, <3>2
  <2> QED
    BY <2>1, <2>2, <2>4 DEF Kernel!KernelInv
<1> QED
  BY <1>3, <1>4

\* A thread that cannot go on goes to the end of the wait queue.
LEMMA WaitsInv ==
  ASSUME Kernel!KernelAssumption, Kernel!KernelInv, NEW c \in Kernel!Callers, Kernel!ZephyrWaits(c)
  PROVE  Kernel!KernelInv'
<1>1. /\ kernel = "zephyr" /\ in_kernel = None /\ ~Kernel!Waits(c) /\ Kernel!Blocked(c) /\ timeout_ms[c] # "no"
      /\ pending' = Append(pending, c) /\ kernel_pc[c] \in {"send", "receive"} /\ created
      /\ UNCHANGED <<kernel, created, kernel_ring, in_kernel, kernel_pc, kernel_data, timeout_ms, ok>>
  BY CallerIsIn DEF Kernel!ZephyrWaits, Kernel!Asks, Kernel!Blocked
<1>2. c \in Threads
  BY <1>1 DEF Kernel!KernelInv, Kernel!ItemsOfCalls, Kernel!Callers
<1>3. /\ pending' \in Seq(Threads) /\ Len(pending') = Len(pending) + 1
      /\ \A i \in 1 .. Len(pending) : pending'[i] = pending[i]
      /\ pending'[Len(pending) + 1] = c
  BY <1>1, <1>2, AppendProperties DEF Kernel!KernelInv, Kernel!TypeOK
<1>4. /\ DOMAIN pending' = 1 .. Len(pending) + 1 /\ DOMAIN pending = 1 .. Len(pending)
      /\ Len(pending) \in Nat
  BY <1>3, LenProperties, Waiters
<1>5. Kernel!TypeOK' /\ Kernel!ItemsOfCalls'
  BY <1>1, <1>3 DEF Kernel!KernelInv, Kernel!TypeOK, Kernel!ItemsOfCalls
<1>6. \A i \in DOMAIN pending : pending[i] # c
  BY <1>1 DEF Kernel!Waits
<1>7. Kernel!WaitersCall'
  <2>1. \A i, j \in DOMAIN pending' : pending'[i] = pending'[j] => i = j
    BY <1>3, <1>4, <1>6 DEF Kernel!KernelInv, Kernel!WaitersCall
  <2>2. \A i \in DOMAIN pending' : kernel_pc'[pending'[i]] \in {"send", "receive"}
    BY <1>1, <1>3, <1>4 DEF Kernel!KernelInv, Kernel!WaitersCall
  <2> QED
    BY <1>1, <2>1, <2>2 DEF Kernel!WaitersCall
<1>8. Kernel!WaitersMustWait'
  <2>1. \A i \in DOMAIN pending' : Kernel!Blocked(pending'[i])
    BY <1>1, <1>3, <1>4 DEF Kernel!KernelInv, Kernel!WaitersMustWait
  <2> QED
    BY <1>1, <2>1 DEF Kernel!WaitersMustWait, Kernel!Blocked
<1> QED
  BY <1>5, <1>7, <1>8 DEF Kernel!KernelInv

\* Who gives up leaves the wait queue from the middle.
LEMMA GivesUpInv ==
  ASSUME Kernel!KernelAssumption, Kernel!KernelInv, NEW c \in Kernel!Callers, Kernel!ZephyrGivesUp(c)
  PROVE  Kernel!KernelInv'
<1>1. /\ kernel = "zephyr" /\ in_kernel = None /\ Kernel!Answers(c, FALSE)
      /\ UNCHANGED <<kernel, created, kernel_ring, in_kernel, kernel_data, timeout_ms>>
  BY DEF Kernel!ZephyrGivesUp
<1>2. /\ \A d \in Kernel!Callers \ {c} : kernel_pc'[d] = kernel_pc[d] /\ ok'[d] = ok[d]
      /\ kernel_pc'[c] = "returned" /\ ok'[c] = FALSE
      /\ kernel_pc' \in [Kernel!Callers -> {"idle", "send", "receive", "returned"}] /\ ok' \in [Kernel!Callers -> BOOLEAN]
  BY <1>1, OnlyOneAnswered DEF Kernel!KernelInv
<1>3. Kernel!ItemsOfCalls'
  BY <1>1, <1>2 DEF Kernel!KernelInv, Kernel!ItemsOfCalls
<1>4. CASE Kernel!Asks(c, kernel_pc[c]) /\ Kernel!Blocked(c) /\ UNCHANGED pending
  <2>1. Kernel!TypeOK'
    BY <1>1, <1>2, <1>4 DEF Kernel!KernelInv, Kernel!TypeOK
  <2>2. \A i \in DOMAIN pending : pending[i] # c
    BY <1>4 DEF Kernel!Asks, Kernel!Waits
  <2>3. created
    BY <1>4, CallerIsIn DEF Kernel!Blocked
  <2> QED
    BY <1>1, <1>2, <1>3, <1>4, <2>1, <2>2, <2>3, OthersKeepWaiting DEF Kernel!KernelInv
<1>5. ASSUME NEW k \in DOMAIN pending, pending[k] = c, pending' = Kernel!RemoveAt(pending, k)
      PROVE  Kernel!KernelInv'
  <2>1. DOMAIN pending = 1 .. Len(pending) /\ Len(pending) \in Nat /\ pending \in Seq(Threads)
    BY Waiters DEF Kernel!KernelInv, Kernel!TypeOK
  <2>2. /\ pending' \in Seq(Threads) /\ Len(pending') = Len(pending) - 1
        /\ \A i \in 1 .. Len(pending) - 1 : pending'[i] = IF i < k THEN pending[i] ELSE pending[i + 1]
    BY <1>5, <2>1, Removed
  <2>3. DOMAIN pending' = 1 .. Len(pending) - 1
    BY <2>2, LenProperties
  <2>4. \A i \in DOMAIN pending' : \E j \in DOMAIN pending \ {k} :
          pending'[i] = pending[j] /\ (i < k => j = i) /\ (i >= k => j = i + 1)
    <3> SUFFICES ASSUME NEW i \in DOMAIN pending'
                 PROVE  \E j \in DOMAIN pending \ {k} :
                          pending'[i] = pending[j] /\ (i < k => j = i) /\ (i >= k => j = i + 1)
      OBVIOUS
    <3>1. CASE i < k
      BY <2>1, <2>2, <2>3, <3>1
    <3>2. CASE i >= k
      <4>1. i + 1 \in DOMAIN pending \ {k} /\ pending'[i] = pending[i + 1] /\ ~(i < k)
        BY <2>1, <2>2, <2>3, <3>2
      <4> QED
        BY <4>1
    <3> QED
      BY <2>1, <2>3, <3>1, <3>2
  <2>5. \A j \in DOMAIN pending \ {k} : pending[j] # c /\ kernel_pc'[pending[j]] = kernel_pc[pending[j]]
    BY <1>2, <1>5, Waiters DEF Kernel!KernelInv, Kernel!WaitersCall
  <2>6. Kernel!TypeOK'
    BY <1>1, <1>2, <2>2 DEF Kernel!KernelInv, Kernel!TypeOK
  <2>7. Kernel!WaitersCall'
    <3>1. \A i, j \in DOMAIN pending' : pending'[i] = pending'[j] => i = j
      <4> SUFFICES ASSUME NEW i \in DOMAIN pending', NEW j \in DOMAIN pending', pending'[i] = pending'[j]
                   PROVE  i = j
        OBVIOUS
      <4>1. PICK a \in DOMAIN pending \ {k} :
              pending'[i] = pending[a] /\ (i < k => a = i) /\ (i >= k => a = i + 1)
        BY <2>4
      <4>2. PICK b \in DOMAIN pending \ {k} :
              pending'[j] = pending[b] /\ (j < k => b = j) /\ (j >= k => b = j + 1)
        BY <2>4
      <4>3. a = b
        BY <4>1, <4>2 DEF Kernel!KernelInv, Kernel!WaitersCall
      <4> QED
        BY <2>1, <2>3, <4>1, <4>2, <4>3
    <3>2. \A i \in DOMAIN pending' : kernel_pc'[pending'[i]] \in {"send", "receive"}
      BY <2>4, <2>5 DEF Kernel!KernelInv, Kernel!WaitersCall
    <3>3. created
      BY <1>5, CallerIsIn DEF Kernel!KernelInv, Kernel!WaitersCall
    <3> QED
      BY <1>1, <3>1, <3>2, <3>3 DEF Kernel!WaitersCall
  <2>8. Kernel!WaitersMustWait'
    <3>1. \A i \in DOMAIN pending' :
            Kernel!Blocked(pending'[i]) /\ kernel_pc'[pending'[i]] = kernel_pc[pending'[i]]
      BY <1>1, <2>4, <2>5 DEF Kernel!KernelInv, Kernel!WaitersMustWait
    <3> QED
      BY <1>1, <3>1 DEF Kernel!WaitersMustWait, Kernel!Blocked
  <2> QED
    BY <1>3, <2>6, <2>7, <2>8 DEF Kernel!KernelInv
<1> QED
  BY <1>4, <1>5 DEF Kernel!ZephyrGivesUp

\* The first that waits is served, and the others wait for what is not there.
LEMMA HandsOverInv ==
  ASSUME Kernel!KernelAssumption, Kernel!KernelInv, Kernel!ZephyrHandsOver
  PROVE  Kernel!KernelInv'
<1> DEFINE t == Head(pending)
<1>1. /\ pending # << >> /\ in_kernel' = None /\ pending' = Tail(pending)
      /\ UNCHANGED <<kernel, created, timeout_ms>> /\ Kernel!Answers(t, TRUE)
  BY DEF Kernel!ZephyrHandsOver, Kernel!KernelInv, Kernel!WaitersMustWait
<1>2. /\ pending' \in Seq(Threads) /\ Len(pending') = Len(pending) - 1
      /\ \A i \in 1 .. Len(pending) - 1 : pending'[i] = pending[i + 1]
      /\ DOMAIN pending' = 1 .. Len(pending) - 1
      /\ DOMAIN pending = 1 .. Len(pending) /\ Len(pending) \in Nat /\ 1 \in DOMAIN pending
      /\ t = pending[1] /\ t \in Threads /\ t \in Kernel!Callers
  <2>1. pending \in Seq(Threads)
    BY DEF Kernel!KernelInv, Kernel!TypeOK
  <2>2. /\ pending' \in Seq(Threads) /\ Len(pending') = Len(pending) - 1
        /\ \A i \in 1 .. Len(pending') : pending'[i] = pending[i + 1]
    BY <1>1, <2>1, HeadTailProperties
  <2>3. t = pending[1]
    BY <1>1, <2>1
  <2> QED
    BY <1>1, <2>1, <2>2, <2>3, LenProperties, Waiters
<1> HIDE DEF t
<1>3. \A i \in DOMAIN pending' :
        pending'[i] # t /\ i + 1 \in DOMAIN pending /\ pending'[i] = pending[i + 1] /\ pending'[i] \in Kernel!Callers
  BY <1>2, Waiters DEF Kernel!KernelInv, Kernel!WaitersCall
<1>4. /\ Capacity \in Nat \ {0} /\ Capacity \in Nat /\ in_kernel # None
      /\ pending' \in Seq(Threads) /\ in_kernel' \in Kernel!Callers \cup {None}
      /\ Len(kernel_ring) \in Nat /\ kernel_ring \in Seq(Items)
  BY <1>1, <1>2, LenProperties DEF Kernel!KernelAssumption, Kernel!KernelInv, Kernel!TypeOK,
     Kernel!ZephyrHandsOver
<1>5. CASE kernel_pc[t] = "receive"
  <2>1. Len(kernel_ring) = 1 /\ \A i \in DOMAIN pending : kernel_pc[pending[i]] = "receive"
    BY <1>2, <1>4, <1>5 DEF Kernel!KernelInv, Kernel!WaitersMustWait
  <2>2. kernel_ring # << >>
    BY <2>1, EmptySeq
  <2>3. kernel_ring' = Tail(kernel_ring) /\ kernel_data' = [kernel_data EXCEPT ![t] = Head(kernel_ring)]
    BY <1>5 DEF Kernel!ZephyrHandsOver, t
  <2>4. Kernel!TypeOK' /\ Kernel!ItemsOfCalls' /\ Len(kernel_ring') = Len(kernel_ring) - 1 /\ \A d \in Kernel!Callers \ {t} : kernel_pc'[d] = kernel_pc[d]
    BY <1>1, <1>2, <1>4, <1>5, <2>2, <2>3, GetTypes
  <2>5. kernel_ring' = << >>
    BY <2>1, <2>4, EmptySeq DEF Kernel!TypeOK
  <2>6. \A i \in DOMAIN pending' : kernel_pc'[pending'[i]] = "receive"
    BY <1>3, <2>1, <2>4
  <2>7. Kernel!WaitersMustWait'
    BY <1>1, <2>5, <2>6 DEF Kernel!WaitersMustWait, Kernel!Blocked
  <2>8. Kernel!WaitersCall'
    <3>1. \A i, j \in DOMAIN pending' : pending'[i] = pending'[j] => i = j
      BY <1>2, <1>3 DEF Kernel!KernelInv, Kernel!WaitersCall
    <3>2. kernel = "zephyr" /\ created
      BY <1>1, <1>2, <1>5, CallerIsIn DEF Kernel!KernelInv, Kernel!WaitersCall
    <3> QED
      BY <1>1, <2>6, <3>1, <3>2 DEF Kernel!WaitersCall
  <2> QED
    BY <2>4, <2>7, <2>8 DEF Kernel!KernelInv
<1>6. CASE kernel_pc[t] # "receive"
  <2>1. Len(kernel_ring) = Capacity - 1 /\ \A i \in DOMAIN pending : kernel_pc[pending[i]] = "send"
    BY <1>2, <1>4, <1>6 DEF Kernel!KernelInv, Kernel!WaitersMustWait
  <2>2. Len(kernel_ring) < Capacity /\ kernel_pc[t] = "send"
    BY <1>2, <1>4, <2>1
  <2>3. kernel_ring' = Append(kernel_ring, kernel_data[t]) /\ kernel_data' = [kernel_data EXCEPT ![t] = None]
    BY <1>6 DEF Kernel!ZephyrHandsOver, t
  <2>4. Kernel!TypeOK' /\ Kernel!ItemsOfCalls' /\ Len(kernel_ring') = Len(kernel_ring) + 1 /\ \A d \in Kernel!Callers \ {t} : kernel_pc'[d] = kernel_pc[d]
    BY <1>1, <1>2, <1>4, <2>2, <2>3, PutTypes
  <2>5. Len(kernel_ring') = Capacity
    BY <1>4, <2>1, <2>4
  <2>6. \A i \in DOMAIN pending' : kernel_pc'[pending'[i]] = "send"
    BY <1>3, <2>1, <2>4
  <2>7. Kernel!WaitersMustWait'
    BY <1>1, <2>5, <2>6 DEF Kernel!WaitersMustWait, Kernel!Blocked
  <2>8. Kernel!WaitersCall'
    <3>1. \A i, j \in DOMAIN pending' : pending'[i] = pending'[j] => i = j
      BY <1>2, <1>3 DEF Kernel!KernelInv, Kernel!WaitersCall
    <3>2. kernel = "zephyr" /\ created
      BY <1>1, <1>2, <2>2, CallerIsIn DEF Kernel!KernelInv, Kernel!WaitersCall
    <3> QED
      BY <1>1, <2>6, <3>1, <3>2 DEF Kernel!WaitersCall
  <2> QED
    BY <2>4, <2>7, <2>8 DEF Kernel!KernelInv
<1> QED
  BY <1>5, <1>6

\* Creating, destroying and emptying the queue: nobody waits afterwards.
LEMMA QueueInv ==
  ASSUME Kernel!KernelAssumption, Kernel!KernelInv,
         \/ Kernel!FreeRtosCreate \/ Kernel!ZephyrCreate \/ Kernel!FreeRtosDestroy \/ Kernel!ZephyrDestroy \/ Kernel!FreeRtosReset
  PROVE  Kernel!KernelInv'
<1>1. pending = << >> /\ in_kernel = None
  <2>1. CASE Kernel!FreeRtosCreate \/ Kernel!ZephyrCreate \/ Kernel!FreeRtosDestroy \/ Kernel!FreeRtosReset
    BY <2>1, NobodyWaits DEF Kernel!FreeRtosCreate, Kernel!ZephyrCreate,
       Kernel!FreeRtosDestroy, Kernel!FreeRtosReset
  <2>2. CASE Kernel!ZephyrDestroy
    <3>1. pending = << >>
      BY <2>2, Waiters DEF Kernel!ZephyrDestroy, Kernel!KernelInv, Kernel!WaitersCall
    <3> QED
      BY <3>1 DEF Kernel!KernelInv, Kernel!WaitersMustWait
  <2> QED
    BY <2>1, <2>2
<1>2. /\ pending' = << >> /\ kernel_ring' = << >> /\ created' \in BOOLEAN
      /\ UNCHANGED <<kernel, in_kernel, kernel_pc, kernel_data, timeout_ms, ok>>
      /\ ~created' => \A c \in Kernel!Callers : kernel_pc[c] = "idle"
  BY <1>1 DEF Kernel!FreeRtosCreate, Kernel!ZephyrCreate, Kernel!FreeRtosDestroy,
     Kernel!ZephyrDestroy, Kernel!FreeRtosReset,
     Kernel!KernelInv, Kernel!TypeOK, Kernel!WaitersCall
<1>3. kernel_ring' \in Seq(Items) /\ Len(kernel_ring') <= Capacity /\ DOMAIN pending' = {}
  BY <1>1, <1>2, EmptySeq, Waiters DEF Kernel!KernelAssumption
<1>4. Kernel!TypeOK' /\ Kernel!ItemsOfCalls'
  BY <1>2, <1>3 DEF Kernel!KernelInv, Kernel!TypeOK, Kernel!ItemsOfCalls
<1>5. Kernel!WaitersCall' /\ Kernel!WaitersMustWait'
  BY <1>1, <1>2, <1>3 DEF Kernel!WaitersCall, Kernel!WaitersMustWait
<1> QED
  BY <1>4, <1>5 DEF Kernel!KernelInv

LEMMA ZephyrResetInv ==
  ASSUME Kernel!KernelAssumption, Kernel!KernelInv, Kernel!ZephyrReset
  PROVE  Kernel!KernelInv'
<1>1. /\ kernel_ring' = << >> /\ pending' = << >> /\ in_kernel = None /\ created
      /\ UNCHANGED <<kernel, created, in_kernel, kernel_data, timeout_ms>>
  BY DEF Kernel!ZephyrReset
<1>2. kernel_ring' \in Seq(Items) /\ Len(kernel_ring') <= Capacity /\ pending' \in Seq(Threads) /\ DOMAIN pending' = {}
  <2>1. DOMAIN pending' = 1 .. 0
    BY <1>1, EmptySeq, LenProperties
  <2> QED
    BY <1>1, <2>1, EmptySeq DEF Kernel!KernelAssumption
<1>3. \A c \in Kernel!Callers : /\ kernel_pc'[c] = (IF Kernel!Waits(c) THEN "returned" ELSE kernel_pc[c])
                                /\ ok'[c] = (IF Kernel!Waits(c) THEN FALSE ELSE ok[c])
  BY DEF Kernel!ZephyrReset
<1>4. kernel_pc' \in [Kernel!Callers -> {"idle", "send", "receive", "returned"}] /\ ok' \in [Kernel!Callers -> BOOLEAN]
  BY DEF Kernel!ZephyrReset, Kernel!KernelInv, Kernel!TypeOK
<1>5. Kernel!TypeOK'
  BY <1>1, <1>2, <1>4 DEF Kernel!KernelInv, Kernel!TypeOK
<1>6. Kernel!ItemsOfCalls'
  BY <1>1, <1>3 DEF Kernel!KernelInv, Kernel!ItemsOfCalls
<1>7. Kernel!WaitersCall' /\ Kernel!WaitersMustWait'
  BY <1>1, <1>2 DEF Kernel!WaitersCall, Kernel!WaitersMustWait
<1> QED
  BY <1>5, <1>6, <1>7 DEF Kernel!KernelInv

LEMMA NextInv ==
  ASSUME Kernel!KernelAssumption, Kernel!KernelInv, [Kernel!Next]_Kernel!vars
  PROVE  Kernel!KernelInv'
<1>1. CASE Kernel!Next
  BY <1>1, CallInv, ReturnInv, FreeRtosInv, NewsForWaiters, WaitsInv, GivesUpInv,
     HandsOverInv,
     QueueInv, ZephyrResetInv DEF Kernel!Next
<1>2. CASE UNCHANGED Kernel!vars
  BY <1>2 DEF Kernel!vars, Kernel!KernelInv, Kernel!TypeOK, Kernel!ItemsOfCalls,
     Kernel!WaitersCall, Kernel!WaitersMustWait, Kernel!Blocked
<1> QED
  BY <1>1, <1>2

\* Whatever calls overlap and whoever gives up, nobody waits in Zephyr's queue for what is
\* already there: KernelInv holds.
THEOREM KernelInvariant ==
  ASSUME Kernel!KernelAssumption
  PROVE  Kernel!Spec => []Kernel!KernelInv
<1>1. Kernel!Init => Kernel!KernelInv
  BY InitInv
<1>2. Kernel!KernelInv /\ [Kernel!Next]_Kernel!vars => Kernel!KernelInv'
  BY NextInv
<1> QED
  BY <1>1, <1>2, PTL DEF Kernel!Spec
(***************************************************************************)
(* Each step is a step of BoundedFifo, or changes nothing of it.           *)
(***************************************************************************)

\* One caller's step moves its own sending and received, and no other's.
LEMMA MappedAlone ==
  ASSUME Kernel!KernelInv, NEW c \in Kernel!Callers,
         \A d \in Kernel!Callers \ {c} : kernel_data'[d] = kernel_data[d] /\ ok'[d] = ok[d]
  PROVE  /\ Kernel!Sending' = [Kernel!Sending EXCEPT ![c] = IF ok'[c] THEN None ELSE kernel_data'[c]]
         /\ Kernel!Received' = [Kernel!Received EXCEPT ![c] = IF ok'[c] THEN kernel_data'[c] ELSE None]
BY DEF Kernel!Sending, Kernel!Received

LEMMA MappedSame ==
  ASSUME \A d \in Kernel!Callers : kernel_data'[d] = kernel_data[d] /\ ok'[d] = ok[d]
  PROVE  UNCHANGED <<Kernel!Sending, Kernel!Received>>
BY DEF Kernel!Sending, Kernel!Received

LEMMA CallMaps ==
  ASSUME Kernel!KernelAssumption, Kernel!KernelInv, NEW c \in Kernel!Callers,
         NEW t \in Kernel!Timeouts(c), Kernel!Receive(c, t) \/ \E item \in Items : Kernel!Send(c, item, t)
  PROVE  [Kernel!Fifo!Next]_<<kernel_ring, Kernel!Sending, Kernel!Received>> /\ Kernel!TrueAnswers
<1>1. PICK does \in {"send", "receive"}, item \in Items \cup {None} :
        /\ Kernel!Call(c, does, item, t)
        /\ does = "send" => item \in Items
        /\ does = "receive" => item = None
  BY DEF Kernel!Receive, Kernel!Send
<1>2. \A d \in Kernel!Callers \ {c} : kernel_pc'[d] = kernel_pc[d] /\ kernel_data'[d] = kernel_data[d] /\ ok'[d] = ok[d]
  BY <1>1 DEF Kernel!Call, Kernel!KernelInv, Kernel!TypeOK
<1>3. /\ kernel_pc'[c] = does /\ kernel_data'[c] = item /\ UNCHANGED <<kernel_ring, ok>>
      /\ kernel_pc[c] = "idle" /\ kernel_data[c] = None /\ ok[c] = FALSE /\ ok'[c] = FALSE
  BY <1>1 DEF Kernel!Call, Kernel!KernelInv, Kernel!TypeOK, Kernel!ItemsOfCalls
<1>4. /\ Kernel!Sending' = [Kernel!Sending EXCEPT ![c] = item] /\ Kernel!Received' = [Kernel!Received EXCEPT ![c] = None]
      /\ Kernel!Sending[c] = None /\ Kernel!Received[c] = None
  BY <1>2, <1>3, MappedAlone DEF Kernel!Sending, Kernel!Received
<1>5. Kernel!Received' = Kernel!Received /\ (item = None => Kernel!Sending' = Kernel!Sending)
  BY <1>4 DEF Kernel!Sending, Kernel!Received
<1>6. [Kernel!Fifo!Next]_<<kernel_ring, Kernel!Sending, Kernel!Received>>
  <2>1. CASE item = None
    BY <1>3, <1>5, <2>1
  <2>2. CASE item \in Items
    <3>1. Kernel!Fifo!Call(c, item)
      BY <1>3, <1>4, <1>5 DEF Kernel!Fifo!Call
    <3> QED
      BY <2>2, <3>1 DEF Kernel!Fifo!Next
  <2> QED
    BY <2>1, <2>2
<1>7. Kernel!TrueAnswers
  BY <1>2, <1>3 DEF Kernel!TrueAnswers
<1> QED
  BY <1>6, <1>7

LEMMA ReturnMaps ==
  ASSUME Kernel!KernelAssumption, Kernel!KernelInv, NEW c \in Kernel!Callers, Kernel!Return(c)
  PROVE  [Kernel!Fifo!Next]_<<kernel_ring, Kernel!Sending, Kernel!Received>> /\ Kernel!TrueAnswers
<1>1. /\ \A d \in Kernel!Callers \ {c} : kernel_pc'[d] = kernel_pc[d] /\ kernel_data'[d] = kernel_data[d] /\ ok'[d] = ok[d]
      /\ kernel_data'[c] = None /\ ok'[c] = FALSE /\ kernel_pc[c] = "returned" /\ kernel_pc'[c] = "idle"
      /\ UNCHANGED kernel_ring
  BY DEF Kernel!Return, Kernel!KernelInv, Kernel!TypeOK
<1>2. /\ Kernel!Sending' = [Kernel!Sending EXCEPT ![c] = None] /\ Kernel!Received' = [Kernel!Received EXCEPT ![c] = None]
  BY <1>1, MappedAlone
<1>3. CASE Kernel!Received[c] # None
  <2>1. UNCHANGED Kernel!Sending
    BY <1>2, <1>3 DEF Kernel!Sending, Kernel!Received, Kernel!KernelInv, Kernel!TypeOK
  <2>2. Kernel!Fifo!Return(c)
    BY <1>1, <1>2, <1>3, <2>1 DEF Kernel!Fifo!Return
  <2> QED
    BY <1>1, <2>2 DEF Kernel!Fifo!Next, Kernel!TrueAnswers
<1>4. CASE Kernel!Received[c] = None /\ Kernel!Sending[c] # None
  <2>1. UNCHANGED Kernel!Received
    BY <1>2, <1>4 DEF Kernel!Received
  <2>2. Kernel!Fifo!GiveUp(c)
    BY <1>1, <1>2, <1>4, <2>1 DEF Kernel!Fifo!GiveUp
  <2> QED
    BY <1>1, <2>2 DEF Kernel!Fifo!Next, Kernel!TrueAnswers
<1>5. CASE Kernel!Received[c] = None /\ Kernel!Sending[c] = None
  <2>1. UNCHANGED <<Kernel!Sending, Kernel!Received>>
    BY <1>2, <1>5 DEF Kernel!Sending, Kernel!Received
  <2> QED
    BY <1>1, <2>1 DEF Kernel!TrueAnswers
<1> QED
  BY <1>3, <1>4, <1>5

\* An item that goes to the ring, from its caller or from the thread that waited longest.
LEMMA PutMaps ==
  ASSUME Kernel!KernelAssumption, Kernel!KernelInv, NEW c \in Kernel!Callers, kernel_pc[c] = "send", Len(kernel_ring) < Capacity,
         kernel_ring' = Append(kernel_ring, kernel_data[c]), kernel_data' = [kernel_data EXCEPT ![c] = None], Kernel!Answers(c, TRUE)
  PROVE  [Kernel!Fifo!Next]_<<kernel_ring, Kernel!Sending, Kernel!Received>> /\ Kernel!TrueAnswers
<1>1. kernel_data[c] \in Items /\ kernel_data[c] # None /\ ok[c] = FALSE
  BY DEF Kernel!KernelAssumption, Kernel!KernelInv, Kernel!TypeOK, Kernel!ItemsOfCalls
<1>2. /\ \A d \in Kernel!Callers \ {c} : kernel_pc'[d] = kernel_pc[d] /\ ok'[d] = ok[d] /\ kernel_data'[d] = kernel_data[d]
      /\ kernel_pc'[c] = "returned" /\ ok'[c] = TRUE /\ kernel_data'[c] = None
  BY OnlyOneAnswered DEF Kernel!KernelInv, Kernel!TypeOK
<1>3. Len(kernel_ring') = Len(kernel_ring) + 1 /\ Len(kernel_ring) \in Nat
  BY <1>1, AppendProperties, LenProperties DEF Kernel!KernelInv, Kernel!TypeOK
<1>4. /\ Kernel!Sending' = [Kernel!Sending EXCEPT ![c] = None] /\ Kernel!Received' = [Kernel!Received EXCEPT ![c] = None]
      /\ Kernel!Sending[c] = kernel_data[c] /\ Kernel!Received[c] = None
  BY <1>1, <1>2, MappedAlone DEF Kernel!Sending, Kernel!Received
<1>5. Kernel!Fifo!Enqueue(c)
  BY <1>1, <1>4 DEF Kernel!Fifo!Enqueue, Kernel!Received
<1>6. Kernel!TrueAnswers
  <2>1. ok'[c] <=> Len(kernel_ring') > Len(kernel_ring)
    BY <1>2, <1>3
  <2> QED
    BY <1>2, <2>1 DEF Kernel!TrueAnswers
<1> QED
  BY <1>5, <1>6 DEF Kernel!Fifo!Next

\* An item that leaves the ring.
LEMMA GetMaps ==
  ASSUME Kernel!KernelAssumption, Kernel!KernelInv, NEW c \in Kernel!Callers, kernel_pc[c] = "receive", kernel_ring # << >>,
         kernel_ring' = Tail(kernel_ring), kernel_data' = [kernel_data EXCEPT ![c] = Head(kernel_ring)], Kernel!Answers(c, TRUE)
  PROVE  [Kernel!Fifo!Next]_<<kernel_ring, Kernel!Sending, Kernel!Received>> /\ Kernel!TrueAnswers
<1>1. kernel_data[c] = None /\ ok[c] = FALSE /\ Head(kernel_ring) \in Items /\ Head(kernel_ring) # None
  BY HeadTailProperties DEF Kernel!KernelAssumption, Kernel!KernelInv, Kernel!TypeOK,
     Kernel!ItemsOfCalls
<1>2. /\ \A d \in Kernel!Callers \ {c} : kernel_pc'[d] = kernel_pc[d] /\ ok'[d] = ok[d] /\ kernel_data'[d] = kernel_data[d]
      /\ kernel_pc'[c] = "returned" /\ ok'[c] = TRUE /\ kernel_data'[c] = Head(kernel_ring)
  BY OnlyOneAnswered DEF Kernel!KernelInv, Kernel!TypeOK
<1>3. /\ Kernel!Sending' = [Kernel!Sending EXCEPT ![c] = None] /\ Kernel!Received' = [Kernel!Received EXCEPT ![c] = Head(kernel_ring)]
      /\ Kernel!Sending[c] = None /\ Kernel!Received[c] = None
  BY <1>1, <1>2, MappedAlone DEF Kernel!Sending, Kernel!Received
<1>4. Kernel!Fifo!Dequeue(c)
  BY <1>3 DEF Kernel!Fifo!Dequeue, Kernel!Sending
<1>5. Kernel!TrueAnswers
  BY <1>1, <1>2 DEF Kernel!TrueAnswers
<1> QED
  BY <1>4, <1>5 DEF Kernel!Fifo!Next

\* Giving up, and waiting, change nothing that the abstract queue knows of.
LEMMA SilentMaps ==
  ASSUME Kernel!KernelAssumption, Kernel!KernelInv, NEW c \in Kernel!Callers,
         Kernel!FreeRtosGivesUp(c) \/ Kernel!ZephyrGivesUp(c) \/ Kernel!ZephyrWaits(c)
  PROVE  [Kernel!Fifo!Next]_<<kernel_ring, Kernel!Sending, Kernel!Received>> /\ Kernel!TrueAnswers
<1>1. CASE Kernel!ZephyrWaits(c)
  BY <1>1, MappedSame DEF Kernel!ZephyrWaits, Kernel!TrueAnswers, Kernel!Blocked
<1>2. CASE Kernel!FreeRtosGivesUp(c) \/ Kernel!ZephyrGivesUp(c)
  <2>1. Kernel!Answers(c, FALSE) /\ UNCHANGED <<kernel_ring, kernel_data>>
    BY <1>2 DEF Kernel!FreeRtosGivesUp, Kernel!ZephyrGivesUp
  <2>2. kernel_pc[c] \in {"send", "receive"}
    BY <1>2 DEF Kernel!FreeRtosGivesUp, Kernel!ZephyrGivesUp, Kernel!Blocked,
       Kernel!KernelInv, Kernel!WaitersCall
  <2>3. /\ \A d \in Kernel!Callers \ {c} : kernel_pc'[d] = kernel_pc[d] /\ ok'[d] = ok[d] /\ kernel_data'[d] = kernel_data[d]
        /\ kernel_pc'[c] = "returned" /\ ok'[c] = FALSE /\ ok[c] = FALSE /\ kernel_data'[c] = kernel_data[c]
    BY <2>1, <2>2, OnlyOneAnswered DEF Kernel!KernelInv, Kernel!TypeOK, Kernel!ItemsOfCalls
  <2>4. UNCHANGED <<kernel_ring, Kernel!Sending, Kernel!Received>>
    BY <2>1, <2>3, MappedSame
  <2>5. Kernel!TrueAnswers
    <3>1. ~(Len(kernel_ring') > Len(kernel_ring))
      BY <2>1, LenProperties DEF Kernel!KernelInv, Kernel!TypeOK
    <3>2. kernel_pc[c] = "receive" => kernel_data'[c] = None
      BY <2>3 DEF Kernel!KernelInv, Kernel!ItemsOfCalls
    <3> QED
      BY <2>3, <3>1, <3>2 DEF Kernel!TrueAnswers
  <2> QED
    BY <2>4, <2>5
<1> QED
  BY <1>1, <1>2

LEMMA HandsOverMaps ==
  ASSUME Kernel!KernelAssumption, Kernel!KernelInv, Kernel!ZephyrHandsOver
  PROVE  [Kernel!Fifo!Next]_<<kernel_ring, Kernel!Sending, Kernel!Received>> /\ Kernel!TrueAnswers
<1> DEFINE t == Head(pending)
<1>1. pending # << >> /\ in_kernel # None
  BY DEF Kernel!ZephyrHandsOver, Kernel!KernelInv, Kernel!WaitersMustWait
<1>2. 1 \in DOMAIN pending /\ t = pending[1] /\ t \in Kernel!Callers
  BY <1>1, Waiters DEF Kernel!KernelInv, Kernel!TypeOK
<1>3. Kernel!Answers(t, TRUE)
  BY DEF Kernel!ZephyrHandsOver
<1>4. CASE kernel_pc[t] = "receive"
  <2>1. kernel_ring # << >>
    <3>1. Len(kernel_ring) = 1
      BY <1>1, <1>2, <1>4 DEF Kernel!KernelInv, Kernel!WaitersMustWait
    <3> QED
      BY <3>1, EmptySeq
  <2>2. kernel_ring' = Tail(kernel_ring) /\ kernel_data' = [kernel_data EXCEPT ![t] = Head(kernel_ring)]
    BY <1>4 DEF Kernel!ZephyrHandsOver
  <2> QED
    BY <1>2, <1>3, <1>4, <2>1, <2>2, GetMaps
<1>5. CASE kernel_pc[t] # "receive"
  <2>1. kernel_pc[t] = "send" /\ Len(kernel_ring) = Capacity - 1
    BY <1>1, <1>2, <1>5 DEF Kernel!KernelInv, Kernel!WaitersMustWait
  <2>2. Len(kernel_ring) < Capacity
    BY <2>1 DEF Kernel!KernelAssumption
  <2>3. kernel_ring' = Append(kernel_ring, kernel_data[t]) /\ kernel_data' = [kernel_data EXCEPT ![t] = None]
    BY <1>5 DEF Kernel!ZephyrHandsOver
  <2> QED
    BY <1>2, <1>3, <2>1, <2>2, <2>3, PutMaps
<1> QED
  BY <1>4, <1>5

LEMMA EmptyMaps ==
  ASSUME Kernel!KernelAssumption, Kernel!KernelInv,
         \/ Kernel!FreeRtosCreate \/ Kernel!ZephyrCreate \/ Kernel!FreeRtosDestroy \/ Kernel!ZephyrDestroy
         \/ Kernel!FreeRtosReset \/ Kernel!ZephyrReset
  PROVE  [Kernel!Fifo!Next]_<<kernel_ring, Kernel!Sending, Kernel!Received>> /\ Kernel!TrueAnswers
<1>1. kernel_ring' = << >> /\ UNCHANGED kernel_data
  BY DEF Kernel!FreeRtosCreate, Kernel!ZephyrCreate, Kernel!FreeRtosDestroy,
     Kernel!ZephyrDestroy, Kernel!FreeRtosReset,
     Kernel!ZephyrReset
<1>2. CASE ~Kernel!ZephyrReset
  <2>1. UNCHANGED <<kernel_pc, ok>>
    BY <1>2 DEF Kernel!FreeRtosCreate, Kernel!ZephyrCreate, Kernel!FreeRtosDestroy,
       Kernel!ZephyrDestroy, Kernel!FreeRtosReset
  <2>2. UNCHANGED <<Kernel!Sending, Kernel!Received>>
    BY <1>1, <2>1, MappedSame
  <2> QED
    BY <1>1, <2>1, <2>2 DEF Kernel!Fifo!Next, Kernel!Fifo!Reset, Kernel!TrueAnswers
<1>3. CASE Kernel!ZephyrReset
  <2>1. \A c \in Kernel!Callers : /\ ok'[c] = ok[c]
                                  /\ Kernel!Waits(c) => ok'[c] = FALSE
                                  /\ kernel_pc'[c] = (IF Kernel!Waits(c) THEN "returned" ELSE kernel_pc[c])
    BY <1>3 DEF Kernel!ZephyrReset, Kernel!Waits, Kernel!KernelInv, Kernel!WaitersCall,
       Kernel!ItemsOfCalls, Kernel!TypeOK
  <2>2. UNCHANGED <<Kernel!Sending, Kernel!Received>>
    BY <1>1, <2>1, MappedSame
  <2>3. ~(Len(kernel_ring') > Len(kernel_ring))
    BY <1>1, EmptySeq, LenProperties DEF Kernel!KernelInv, Kernel!TypeOK
  <2>4. Kernel!TrueAnswers
    BY <1>1, <2>1, <2>3 DEF Kernel!TrueAnswers, Kernel!KernelInv, Kernel!ItemsOfCalls
  <2> QED
    BY <1>1, <2>2, <2>4 DEF Kernel!Fifo!Next, Kernel!Fifo!Reset
<1> QED
  BY <1>2, <1>3

\* For any capacity, any threads and interrupt handlers: each item is received once, in
\* the order sent, and what a call returns is true.
THEOREM KernelQueuesAreFifos ==
  ASSUME Kernel!KernelAssumption
  PROVE  Kernel!Spec => KernelImplementsFifo
<1>1. Kernel!Init => Kernel!Fifo!Init
  BY DEF Kernel!Init, Kernel!Fifo!Init, Kernel!Fifo!Nobody, Kernel!Sending, Kernel!Received
<1>2. Kernel!KernelInv /\ [Kernel!Next]_Kernel!vars => [Kernel!Fifo!Next]_<<kernel_ring, Kernel!Sending, Kernel!Received>> /\ [Kernel!TrueAnswers]_Kernel!vars
  <2> SUFFICES ASSUME Kernel!KernelInv, [Kernel!Next]_Kernel!vars
               PROVE  [Kernel!Fifo!Next]_<<kernel_ring, Kernel!Sending, Kernel!Received>> /\ [Kernel!TrueAnswers]_Kernel!vars
    OBVIOUS
  <2>1. CASE UNCHANGED Kernel!vars
    BY <2>1, MappedSame DEF Kernel!vars
  <2>2. ASSUME NEW c \in Kernel!Callers, Kernel!FreeRtosSend(c) \/ Kernel!ZephyrSend(c)
        PROVE  [Kernel!Fifo!Next]_<<kernel_ring, Kernel!Sending, Kernel!Received>> /\ Kernel!TrueAnswers
    BY <2>2, PutMaps DEF Kernel!FreeRtosSend, Kernel!ZephyrSend, Kernel!Asks,
       Kernel!xQueueSendToBack
  <2>3. ASSUME NEW c \in Kernel!Callers, Kernel!FreeRtosReceive(c) \/ Kernel!ZephyrReceive(c)
        PROVE  [Kernel!Fifo!Next]_<<kernel_ring, Kernel!Sending, Kernel!Received>> /\ Kernel!TrueAnswers
    BY <2>3, GetMaps DEF Kernel!FreeRtosReceive, Kernel!ZephyrReceive, Kernel!Asks
  <2>4. CASE Kernel!Next
    BY <2>2, <2>3, <2>4, CallMaps, ReturnMaps, SilentMaps, HandsOverMaps, EmptyMaps DEF
       Kernel!Next
  <2> QED
    BY <2>1, <2>4
<1> QED
  BY <1>1, <1>2, KernelInvariant, PTL DEF Kernel!Spec, KernelImplementsFifo, Kernel!KernelImplementsFifo,
     Kernel!Fifo!Spec,
     Kernel!Fifo!fifoVars
====
