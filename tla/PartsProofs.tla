---- MODULE PartsProofs ----
(***************************************************************************)
(* The lifecycle, timers, memory pools, the C++ Expected, C logging and    *)
(* the network interfaces, each for any values of its constants.           *)
(*                                                                         *)
(* Reference counting for any number of libraries and modules: a claim     *)
(* moves one module at a time, so a count is always the number of          *)
(* claimants; the log module's place at the head of the array does the     *)
(* rest.                                                                   *)
(*                                                                         *)
(* A timer on a clock of any width tells the time until the clock has gone *)
(* round once; the invariant says where the clock is: passed ticks after   *)
(* reset_time.                                                             *)
(*                                                                         *)
(* PoolInv: the free list is a sequence of just those elements that are    *)
(* out nowhere.  Taking the head drops its first, giving back puts one in  *)
(* front, and the element that is given back is linked while it is still   *)
(* out, so the list is never seen half done.                               *)
(*                                                                         *)
(* ExpectedInv: the memory of each object is wholly what it stands for.    *)
(*                                                                         *)
(* CLogInv: only who has buf_lock has made strings, and they are of its    *)
(* call.  That their headers are whole is arithmetic on the longest fields *)
(* the parameters have room for.                                           *)
(*                                                                         *)
(* NetintInv: the cache is an arrangement of what the port lists of one    *)
(* state of the system, and each table one of the routes of one reading.   *)
(* An arrangement names each place once, so answers and system can be      *)
(* counted alike; the first entry of a sorted table that a search stops at *)
(* is as good as any, for no later one comes before it.                    *)
(***************************************************************************)
EXTENDS Parts, Sequences, CountingLemmas

----
(***************************************************************************)
(* The lifecycle.                                                          *)
(***************************************************************************)

Claimants(m) == {l \in Libraries : m \in Claims(l)}

\* Only the claim of l on module m may change.
OtherClaimsStay(l, m) ==
  \A k \in Libraries, n \in Modules :
    (k # l \/ n # m) => (n \in Claims(k)' <=> n \in Claims(k))

LEMMA SizeIsPositive == MODULE_ARRAY_SIZE \in Nat /\ MODULE_ARRAY_SIZE >= 1
BY LifecycleAssumption

LEMMA ClaimsType ==
  ASSUME TypeOK, NEW l \in Libraries
  PROVE  Claims(l) \subseteq Modules
BY DEF Claims, Chosen, TypeOK

LEMMA ClaimantsAreFinite ==
  ASSUME NEW m
  PROVE  IsFiniteSet(Claimants(m)) /\ Cardinality(Claimants(m)) \in Nat
BY LifecycleAssumption, FS_Subset, FS_CardinalityType DEF Claimants

\* A module runs exactly when its count is not zero.
LEMMA RunsWhileCounted ==
  ASSUME LifecycleInv, NEW m \in Modules
  PROVE  m \in running <=> init_count[m] > 0
<1>1. init_count[m] = Cardinality(Claimants(m))
  BY DEF LifecycleInv, CountsMatchClaims, Claimants
<1>2. m \in running <=> Claimants(m) # {}
  BY DEF LifecycleInv, RunsWhileClaimed, Claimants
<1> QED
  BY <1>1, <1>2, ClaimantsAreFinite, FS_EmptySet

LEMMA SameClaims ==
  ASSUME LifecycleInv, UNCHANGED <<init_count, running>>,
         \A l \in Libraries : Claims(l)' = Claims(l)
  PROVE  CountsMatchClaims' /\ RunsWhileClaimed'
<1>1. \A m \in Modules : Claimants(m)' = Claimants(m)
  BY DEF Claimants
<1>2. CountsMatchClaims'
  BY <1>1 DEF LifecycleInv, CountsMatchClaims, Claimants
<1> QED
  BY <1>2 DEF LifecycleInv, RunsWhileClaimed

LEMMA GainsClaim ==
  ASSUME LifecycleInv, TypeOK', NEW l \in Libraries, NEW m \in Modules,
         Acquire(m), OtherClaimsStay(l, m), m \notin Claims(l), m \in Claims(l)'
  PROVE  CountsMatchClaims' /\ RunsWhileClaimed'
<1>1. \A n \in Modules \ {m} : Claimants(n)' = Claimants(n)
  BY DEF Claimants, OtherClaimsStay
<1>2. Claimants(m)' = Claimants(m) \cup {l} /\ l \notin Claimants(m)
  BY DEF Claimants, OtherClaimsStay
<1>3. Cardinality(Claimants(m)') = Cardinality(Claimants(m)) + 1
  BY <1>2, ClaimantsAreFinite, FS_AddElement
<1>4. \A n \in Modules : init_count[n] = Cardinality(Claimants(n))
  BY DEF LifecycleInv, CountsMatchClaims, Claimants
<1>5. \A n \in Modules : init_count'[n] = Cardinality(Claimants(n)')
  BY <1>1, <1>3, <1>4 DEF Acquire, LifecycleInv, TypeOK
<1>6. \A n \in Modules : n \in running' <=> Claimants(n)' # {}
  BY <1>1, <1>2 DEF Acquire, LifecycleInv, RunsWhileClaimed, Claimants
<1>7. running' = UNION {Claims(k)' : k \in Libraries}
  <2>1. \A k \in Libraries : Claims(k)' \subseteq Modules
    BY DEF Claims, Chosen, TypeOK
  <2> QED
    BY <1>6, <2>1 DEF TypeOK, Claimants
<1> QED
  BY <1>5, <1>7 DEF CountsMatchClaims, RunsWhileClaimed, Claimants

LEMMA LosesClaim ==
  ASSUME LifecycleInv, TypeOK', NEW l \in Libraries, NEW m \in Modules,
         Release(m), OtherClaimsStay(l, m), m \in Claims(l), m \notin Claims(l)'
  PROVE  CountsMatchClaims' /\ RunsWhileClaimed'
<1>1. \A n \in Modules \ {m} : Claimants(n)' = Claimants(n)
  BY DEF Claimants, OtherClaimsStay
<1>2. Claimants(m)' = Claimants(m) \ {l} /\ l \in Claimants(m)
  BY DEF Claimants, OtherClaimsStay
<1>3. /\ IsFiniteSet(Claimants(m)')
      /\ Cardinality(Claimants(m)') = Cardinality(Claimants(m)) - 1
  BY <1>2, ClaimantsAreFinite, FS_RemoveElement
<1>4. \A n \in Modules : init_count[n] = Cardinality(Claimants(n))
  BY DEF LifecycleInv, CountsMatchClaims, Claimants
<1>5. \A n \in Modules : init_count'[n] = Cardinality(Claimants(n)')
  BY <1>1, <1>3, <1>4 DEF Release, LifecycleInv, TypeOK
<1>6. init_count[m] = 1 <=> Claimants(m)' = {}
  <2>1. Cardinality(Claimants(m)') = 0 <=> Claimants(m)' = {}
    BY <1>3, FS_EmptySet
  <2> QED
    BY <1>3, <1>4, <2>1, ClaimantsAreFinite
<1>7. \A n \in Modules : n \in running' <=> Claimants(n)' # {}
  BY <1>1, <1>2, <1>6 DEF Release, LifecycleInv, RunsWhileClaimed, Claimants
<1>8. running' = UNION {Claims(k)' : k \in Libraries}
  <2>1. \A k \in Libraries : Claims(k)' \subseteq Modules
    BY DEF Claims, Chosen, TypeOK
  <2> QED
    BY <1>7, <2>1 DEF TypeOK, Claimants
<1> QED
  BY <1>5, <1>8 DEF CountsMatchClaims, RunsWhileClaimed, Claimants

----
LEMMA InitHolds == Init => LifecycleInv
<1> SUFFICES ASSUME Init PROVE LifecycleInv
  OBVIOUS
<1>1. TypeOK
  <2>1. 1 \in 0..(MODULE_ARRAY_SIZE + 1)
    BY SizeIsPositive
  <2>2. init_count \in [Modules -> Nat] /\ held \in [Libraries -> SUBSET Modules]
    BY DEF Init
  <2> QED
    BY <2>1, <2>2 DEF Init, TypeOK
<1>2. \A l \in Libraries : Claims(l) = {}
  BY DEF Init, Claims, Chosen
<1>3. \A m \in Modules : Claimants(m) = {}
  BY <1>2 DEF Claimants
<1>4. CountsMatchClaims
  BY <1>3, FS_EmptySet DEF Init, CountsMatchClaims, Claimants
<1>5. RunsWhileClaimed
  BY <1>2 DEF Init, RunsWhileClaimed
<1> QED
  BY <1>1, <1>4, <1>5 DEF LifecycleInv, Init, CallInv, LoggingInv

LEMMA TypesStay ==
  ASSUME LifecycleInv, Next
  PROVE  TypeOK'
<1>1. TypeOK /\ CallInv
  BY DEF LifecycleInv
<1> USE SizeIsPositive
<1>2. CASE InitLogHandler
  BY <1>1, <1>2 DEF InitLogHandler, TypeOK, locals
<1>3. ASSUME NEW l \in Libraries, NEW mask \in SUBSET Modules,
             CallInit(l, mask) \/ InitIsInvalid(l, mask)
      PROVE  TypeOK'
  <2>1. 1 \in 0..(MODULE_ARRAY_SIZE + 1)
    OBVIOUS
  <2>2. CASE CallInit(l, mask)
    BY <1>1, <2>1, <2>2 DEF CallInit, Begin, TypeOK
  <2>3. CASE InitIsInvalid(l, mask)
    BY <1>1, <2>3 DEF InitIsInvalid, TypeOK, locals
  <2> QED
    BY <1>3, <2>2, <2>3
<1>4. ASSUME NEW l \in Libraries, CallDeinit(l) PROVE TypeOK'
  BY <1>1, <1>4 DEF CallDeinit, Begin, TypeOK
<1>5. CASE SkipModule
  BY <1>1, <1>5 DEF SkipModule, Chosen, TypeOK, Modules, locals, handler
<1>6. CASE InitModule
  BY <1>1, <1>6 DEF InitModule, InitLoop, Acquire, TypeOK, Modules, locals, handler
<1>7. CASE InitModuleFails
  BY <1>1, <1>7 DEF InitModuleFails, TypeOK, locals, handler
<1>8. CASE InitReturns \/ InitFails \/ DeinitReturns
  BY <1>1, <1>8 DEF InitReturns, InitFails, DeinitReturns, TypeOK, locals, handler
<1>9. ASSUME Release(i), i \in Modules, init_count[i] > 0
      PROVE  init_count' \in [Modules -> Nat] /\ running' \subseteq Modules
  BY <1>1, <1>9 DEF Release, TypeOK
<1>10. CASE RollBackModule
  <2>1. i \in Modules /\ i \in Claims(caller) /\ caller \in Libraries
    BY <1>1, <1>10 DEF RollBackModule, TypeOK, Claims, Chosen
  <2>2. init_count[i] > 0
    BY <2>1, RunsWhileCounted DEF LifecycleInv, RunsWhileClaimed
  <2> QED
    BY SMTT(40), <1>1, <1>9, <1>10, <2>1, <2>2 DEF RollBackModule, TypeOK, Modules, locals, handler
<1>11. CASE DeinitModule
  <2>1. i \in Modules
    BY <1>1, <1>11 DEF DeinitModule, TypeOK
  <2>2. i - 1 \in 0..(MODULE_ARRAY_SIZE + 1) /\ i - 1 # MODULE_ARRAY_SIZE + 1
    BY <2>1 DEF Modules
  <2> QED
    BY <1>1, <1>9, <1>11, <2>1, <2>2 DEF DeinitModule, TypeOK, locals, handler
<1> QED
  BY <1>2, <1>3, <1>4, <1>5, <1>6, <1>7, <1>8, <1>10, <1>11 DEF Next

LEMMA CountsStay ==
  ASSUME LifecycleInv, Next, TypeOK'
  PROVE  CountsMatchClaims' /\ RunsWhileClaimed'
<1>1. TypeOK /\ CallInv
  BY DEF LifecycleInv
<1> USE SizeIsPositive
<1>2. CASE InitLogHandler
  BY <1>2, SameClaims DEF InitLogHandler, Claims, Chosen, locals
<1>3. ASSUME NEW l \in Libraries, NEW mask \in SUBSET Modules,
             CallInit(l, mask) \/ InitIsInvalid(l, mask)
      PROVE  CountsMatchClaims' /\ RunsWhileClaimed'
  <2>1. \A k \in Libraries : Claims(k)' = Claims(k)
    BY <1>3 DEF CallInit, InitIsInvalid, Begin, Claims, Chosen, locals
  <2> QED
    BY <1>3, <2>1, SameClaims DEF CallInit, InitIsInvalid, Begin
<1>4. ASSUME NEW l \in Libraries, CallDeinit(l)
      PROVE  CountsMatchClaims' /\ RunsWhileClaimed'
  <2>1. held[l] = {m \in held[l] : m <= MODULE_ARRAY_SIZE}
    BY <1>1 DEF TypeOK, Modules
  <2>2. \A k \in Libraries : Claims(k)' = Claims(k)
    BY <1>4, <2>1 DEF CallDeinit, Begin, Claims, Chosen
  <2> QED
    BY <1>4, <2>2, SameClaims DEF CallDeinit, Begin
<1>5. CASE SkipModule
  <2>1. \A n \in Modules : n <= i - 1 <=> n <= i /\ n # i
    BY <1>1, <1>5 DEF SkipModule, Chosen, Modules
  <2>2. features \subseteq Modules /\ modules_initialized \subseteq Modules
    BY <1>1 DEF TypeOK
  <2>3. \A k \in Libraries : Claims(k)' = Claims(k)
    BY <1>1, <1>5, <2>1, <2>2 DEF SkipModule, Claims, Chosen, locals, handler, TypeOK
  <2> QED
    BY <1>5, <2>3, SameClaims DEF SkipModule, Chosen
<1>6. CASE InitModule
  <2>1. PICK l \in Libraries, m \in Modules : l = caller /\ m = i
    BY <1>1, <1>6 DEF InitModule, InitLoop, TypeOK
  <2>2. m \notin modules_initialized
    BY <1>1, <1>6, <2>1 DEF InitModule, InitLoop, TypeOK, CallInv, Modules
  <2>3. OtherClaimsStay(l, m) /\ m \notin Claims(l) /\ m \in Claims(l)'
    BY <1>6, <2>1, <2>2 DEF InitModule, InitLoop, OtherClaimsStay, Claims, Chosen, locals,
       handler
  <2>4. Acquire(m)
    BY <1>6, <2>1 DEF InitModule, Acquire
  <2> QED
    BY <2>1, <2>3, <2>4, GainsClaim
<1>7. CASE InitModuleFails
  <2>1. \A m \in modules_initialized : m <= MODULE_ARRAY_SIZE
    BY <1>1 DEF TypeOK, Modules
  <2>2. \A k \in Libraries : Claims(k)' = Claims(k)
    BY <1>7, <2>1 DEF InitModuleFails, InitLoop, Claims, Chosen, locals, handler
  <2> QED
    BY <1>7, <2>2, SameClaims DEF InitModuleFails
<1>8. CASE InitReturns
  <2>1. \A m \in features : m < i
    BY <1>1, <1>8 DEF InitReturns, TypeOK, Modules
  <2>2. \A k \in Libraries : Claims(k)' = Claims(k)
    BY <1>1, <1>8, <2>1 DEF InitReturns, Claims, Chosen, CallInv, locals, handler, TypeOK
  <2> QED
    BY <1>8, <2>2, SameClaims DEF InitReturns
<1>9. CASE InitFails \/ DeinitReturns
  <2>1. \A m \in features \cup modules_initialized : ~(m <= 0)
    BY <1>1 DEF TypeOK, Modules
  <2>2. Claims(caller) = {} /\ held'[caller] = {} /\ call' = "none"
    BY <1>1, <1>9, <2>1 DEF InitFails, DeinitReturns, Claims, Chosen, CallInv, TypeOK
  <2>3. \A k \in Libraries \ {caller} : held'[k] = held[k]
    BY <1>1, <1>9 DEF InitFails, DeinitReturns, TypeOK
  <2>4. caller' = caller
    BY <1>9 DEF InitFails, DeinitReturns, locals
  <2>5. \A k \in Libraries : Claims(k)' = Claims(k)
    BY <2>2, <2>3, <2>4 DEF Claims
  <2> QED
    BY <1>9, <2>5, SameClaims DEF InitFails, DeinitReturns
<1>10. CASE RollBackModule \/ DeinitModule
  <2>1. PICK l \in Libraries, m \in Modules : l = caller /\ m = i
    BY <1>1, <1>10 DEF RollBackModule, DeinitModule, TypeOK
  <2>2. \A n \in Modules : n <= m - 1 <=> n <= m /\ n # m
    BY <2>1 DEF Modules
  <2>3. m <= m
    BY <2>1 DEF Modules
  <2>4. OtherClaimsStay(l, m) /\ m \in Claims(l) /\ m \notin Claims(l)'
    BY <1>10, <2>1, <2>2, <2>3 DEF RollBackModule, DeinitModule, OtherClaimsStay, Claims,
       Chosen, locals, handler
  <2>5. init_count[m] > 0
    BY <2>4, RunsWhileCounted DEF LifecycleInv, RunsWhileClaimed
  <2>6. Release(m)
    BY <1>10, <2>1, <2>5 DEF RollBackModule, DeinitModule, Release
  <2> QED
    BY <2>1, <2>4, <2>6, LosesClaim
<1> QED
  BY <1>2, <1>3, <1>4, <1>5, <1>6, <1>7, <1>8, <1>9, <1>10 DEF Next

LEMMA CallInvStays ==
  ASSUME LifecycleInv, Next
  PROVE  CallInv'
<1>1. TypeOK /\ CallInv
  BY DEF LifecycleInv
<1> USE SizeIsPositive
<1>2. CASE InitLogHandler
  BY <1>1, <1>2 DEF InitLogHandler, CallInv, locals
<1>3. ASSUME NEW l \in Libraries, NEW mask \in SUBSET Modules,
             CallInit(l, mask) \/ InitIsInvalid(l, mask)
      PROVE  CallInv'
  <2>1. \A m \in Modules : ~(m < 1)
    BY DEF Modules
  <2> QED
    BY <1>1, <1>3, <2>1 DEF CallInit, InitIsInvalid, Begin, CallInv, locals
<1>4. ASSUME NEW l \in Libraries, CallDeinit(l) PROVE CallInv'
  BY <1>1, <1>4 DEF CallDeinit, Begin, CallInv
<1>5. CASE SkipModule \/ InitModule
  <2>1. \A n \in Modules : i \in Modules => (n < i + 1 <=> n < i \/ n = i)
    BY DEF Modules
  <2> QED
    BY <1>1, <1>5, <2>1 DEF SkipModule, Chosen, InitModule, InitLoop, CallInv, TypeOK,
       locals, handler
<1>6. CASE InitModuleFails \/ RollBackModule
  BY <1>1, <1>6 DEF InitModuleFails, InitLoop, RollBackModule, CallInv, locals, handler
<1>7. CASE InitReturns \/ InitFails \/ DeinitReturns
  BY <1>1, <1>7 DEF InitReturns, InitFails, DeinitReturns, CallInv, locals, handler
<1>8. CASE DeinitModule
  BY <1>1, <1>8 DEF DeinitModule, CallInv, locals, handler
<1> QED
  BY <1>2, <1>3, <1>4, <1>5, <1>6, <1>7, <1>8 DEF Next

LEMMA LoggingInvStays ==
  ASSUME LifecycleInv, Next
  PROVE  LoggingInv'
<1>1. TypeOK /\ LoggingInv
  BY DEF LifecycleInv
<1>2. LogModule \in Modules
  BY SizeIsPositive DEF LogModule, Modules
<1>3. ASSUME NEW l \in Libraries, NEW mask \in SUBSET Modules, CallInit(l, mask)
      PROVE  LoggingInv'
  BY <1>2, <1>3, RunsWhileCounted DEF CallInit, Begin, LoggingInv, LogModule
<1>4. CASE InitModule
  BY <1>1, <1>4 DEF InitModule, InitLoop, Acquire, LoggingInv, locals, handler
<1>5. CASE SkipModule
  BY <1>1, <1>5 DEF SkipModule, Chosen, LoggingInv, locals, handler
<1>6. CASE call' # "init"
  BY <1>6 DEF LoggingInv
<1> QED
  BY <1>3, <1>4, <1>5, <1>6 DEF Next, InitLogHandler, InitIsInvalid, InitModuleFails,
     InitReturns, RollBackModule,
         InitFails, CallDeinit, DeinitModule, DeinitReturns, Begin, locals

----
\* The inductive invariant of the specification.
THEOREM LifecycleInvariant == Spec => []LifecycleInv
<1>1. LifecycleInv /\ [Next]_vars => LifecycleInv'
  <2>1. ASSUME LifecycleInv, Next PROVE LifecycleInv'
    BY <2>1, TypesStay, CountsStay, CallInvStays, LoggingInvStays DEF LifecycleInv
  <2>2. ASSUME LifecycleInv, UNCHANGED vars PROVE LifecycleInv'
    BY <2>2, SameClaims DEF vars, locals, handler, LifecycleInv, TypeOK, CallInv,
       LoggingInv, Claims, Chosen
  <2> QED
    BY <2>1, <2>2
<1> QED
  BY InitHolds, <1>1, PTL DEF Spec

\* etcpal_init and etcpal_deinit count the libraries that use a module, through
\* failures and rollbacks, for any number of libraries and modules.
THEOREM CountsAlwaysMatchClaims == Spec => []CountsMatchClaims
<1>1. LifecycleInv => CountsMatchClaims
  BY DEF LifecycleInv
<1> QED
  BY <1>1, LifecycleInvariant, PTL

\* No library's modules are turned off by another's deinit or failed init.
THEOREM ModulesRunWhileClaimed == Spec => []RunsWhileClaimed
<1>1. LifecycleInv => RunsWhileClaimed
  BY DEF LifecycleInv
<1> QED
  BY <1>1, LifecycleInvariant, PTL

\* The check at the head of etcpal_init and the order of etcpal_modules give
\* every later init_fn a log to write to.
THEOREM LoggingAlwaysCoversInit == Spec => LoggingCoversInit
<1> DEFINE Covered == \A m \in running' \ running :
                        log_params /\ m # LogModule => LogModule \in running
<1>1. LifecycleInv /\ [Next]_vars => [Covered]_vars
  <2>1. ASSUME LifecycleInv, InitModule PROVE Covered
    BY <2>1 DEF InitModule, InitLoop, Acquire, LifecycleInv, LoggingInv
  <2>2. ASSUME LifecycleInv, Next, ~InitModule PROVE running' \subseteq running
    BY <2>2 DEF Next, InitLogHandler, CallInit, InitIsInvalid, Begin, SkipModule, Chosen,
       InitModuleFails, InitReturns, RollBackModule, InitFails, CallDeinit, DeinitModule,
       DeinitReturns, Release
  <2> QED
    BY <2>1, <2>2
<1> QED
  BY <1>1, LifecycleInvariant, PTL DEF Spec, LoggingCoversInit

----
(***************************************************************************)
(* Timers.                                                                 *)
(***************************************************************************)

\* The clock and the true time agree about how long ago the timer was reset.
ClockInv == TimerTypeOK /\ (passed < Wrap => ms = Plus(reset_time, passed))

\* What the sum of two words and the difference of their sum are.
LEMMA PlusMinus ==
  ASSUME NEW a \in Word, NEW b \in Word
  PROVE  /\ Plus(a, b) \in Word
         /\ Minus(Plus(a, b), a) = b
         /\ Plus(a, 0) = a
BY WrapAssumption DEF Plus, Minus, Word

\* Steps of the clock add up as long as they do not go round.
LEMMA PlusPlus ==
  ASSUME NEW a \in Word, NEW b \in Word, NEW d \in Word, b + d < Wrap
  PROVE  Plus(Plus(a, b), d) = Plus(a, b + d)
BY WrapAssumption DEF Plus, Word

\* A timer starts with the clock and the true time in agreement.
LEMMA ClockInvInit == TimerInit => ClockInv
BY PlusMinus, WrapAssumption DEF TimerInit, ClockInv, TimerTypeOK, Plus, Word

\* Every step keeps them in agreement.
LEMMA ClockInvStep == ClockInv /\ [TimerNext]_timer_vars => ClockInv'
<1> SUFFICES ASSUME ClockInv, [TimerNext]_timer_vars PROVE ClockInv'
  OBVIOUS
<1> USE DEF ClockInv, TimerTypeOK
<1>1. ASSUME NEW length \in Word, Start(length) PROVE ClockInv'
  BY <1>1, WrapAssumption DEF Start, Plus, Word
<1>2. ASSUME NEW duration \in 0 .. Wrap + 1, StartFor(duration) PROVE ClockInv'
  <2>1. PICK length \in Word : Start(length)
    BY <1>2, WrapAssumption DEF StartFor, Word
  <2> QED BY <2>1, <1>1, WrapAssumption DEF Start, Plus, Word
<1>3. CASE Reset
  BY <1>3, WrapAssumption DEF Reset, Plus, Word
<1>4. ASSUME NEW d \in Word, ClockMoves(d) PROVE ClockInv'
  <2>1. ms' = Plus(ms, d) /\ passed' = passed + d /\ reset_time' = reset_time /\ interval' = interval
    BY <1>4 DEF ClockMoves
  <2>2. TimerTypeOK'
    BY <2>1, PlusMinus DEF Word
  <2>3. ASSUME passed + d < Wrap PROVE ms' = Plus(reset_time, passed + d)
    <3>1. passed \in Word /\ passed < Wrap
      BY <2>3, WrapAssumption DEF Word
    <3>2. ms = Plus(reset_time, passed)
      BY <3>1
    <3> QED BY <2>1, <2>3, <3>1, <3>2, PlusPlus
  <2> QED BY <2>1, <2>2, <2>3
<1>5. CASE UNCHANGED timer_vars
  BY <1>5 DEF timer_vars, Plus
<1> QED BY <1>1, <1>2, <1>3, <1>4, <1>5 DEF TimerNext

\* The agreement holds always.
THEOREM TimerInvariant == TimerSpec => []ClockInv
BY ClockInvInit, ClockInvStep, PTL DEF TimerSpec

\* What a timer says of the elapsed and the remaining time follows from it.
LEMMA ClockInvTells == ClockInv => TimerTellsTime
<1> SUFFICES ASSUME ClockInv, passed < Wrap
    PROVE /\ Elapsed = passed
          /\ IsExpired <=> (interval = 0 \/ passed > interval)
          /\ Remaining = (IF passed < interval THEN interval - passed ELSE 0)
  BY DEF TimerTellsTime
<1>1. ms \in Word /\ reset_time \in Word /\ interval \in Word /\ passed \in Word
  BY WrapAssumption DEF ClockInv, TimerTypeOK, Word
<1>2. ms = Plus(reset_time, passed)
  BY DEF ClockInv
<1>3. Elapsed = passed
  BY <1>1, <1>2, PlusMinus DEF Elapsed
<1>4. IsExpired <=> (interval = 0 \/ passed > interval)
  BY <1>3 DEF IsExpired
<1>5. Remaining = (IF passed < interval THEN interval - passed ELSE 0)
  <2>1. CASE passed < interval
    BY <1>1, <1>2, <1>3, <2>1, WrapAssumption DEF Remaining, Plus, Minus, Word
  <2>2. CASE ~(passed < interval)
    BY <1>3, <2>2 DEF Remaining
  <2> QED BY <2>1, <2>2
<1> QED BY <1>3, <1>4, <1>5

\* A timer tells the true time until the clock has gone round, for every width of
\* the clock.
THEOREM TimersTellTime == TimerSpec => []TimerTellsTime
BY TimerInvariant, ClockInvTells, PTL

\* Time points less than half the range apart compare as they came about, for every
\* width of the clock.
THEOREM TimePointsCompare == TimerSpec => []TimePointsInOrder
<1>1. ClockInv => TimePointsInOrder
  <2> SUFFICES ASSUME ClockInv, 2 * passed < Wrap
      PROVE Difference(ms, reset_time) = passed /\ Difference(reset_time, ms) = -passed
    BY DEF TimePointsInOrder
  <2>1. ms \in Word /\ reset_time \in Word /\ passed \in Word
    BY WrapAssumption DEF ClockInv, TimerTypeOK, Word
  <2>2. ms = Plus(reset_time, passed)
    <3>1. passed < Wrap
      BY <2>1, WrapAssumption DEF Word
    <3> QED BY <3>1 DEF ClockInv
  <2> QED BY <2>1, <2>2, WrapAssumption DEF Difference, Signed, Minus, Plus, Word
<1> QED BY <1>1, TimerInvariant, PTL

----
(***************************************************************************)
(* Memory pools.                                                           *)
(***************************************************************************)

\* No more elements than the pool has, and all of them only if it is all.
LEMMA ElementsFinite ==
  ASSUME Pool!PoolAssumption, NEW S \in SUBSET Pool!Elements
  PROVE  /\ IsFiniteSet(S) /\ Cardinality(S) \in Nat /\ Cardinality(S) <= pool_size
         /\ Cardinality(S) = pool_size => S = Pool!Elements
<1>1. IsFiniteSet(Pool!Elements) /\ Cardinality(Pool!Elements) = pool_size
  <2>1. 0 \in Int /\ pool_size - 1 \in Int /\ 0 <= pool_size - 1
          /\ (pool_size - 1) - 0 + 1 = pool_size
    BY DEF Pool!PoolAssumption
  <2> QED
    BY <2>1, FS_Interval DEF Pool!Elements
<1> QED
  BY <1>1, FS_Subset, FS_CardinalityType

LEMMA OutIsElements ==
  ASSUME Pool!TypeOK, Pool!CallsFit, NEW p \in Pools
  PROVE  Pool!Out(p) \in SUBSET Pool!Elements
BY DEF Pool!Out, Pool!Returning, Pool!TypeOK, Pool!CallsFit

LEMMA OutMembers ==
  ASSUME NEW p, NEW e
  PROVE  e \in Pool!Out(p) <=> \/ e \in pool_held[p]
                               \/ \E t \in Threads : pool_call[t].op = "free" /\ pool_call[t].pool = p
                                  /\ pool_call[t].elem = e
BY DEF Pool!Out, Pool!Returning

LEMMA PoolInitInv ==
  ASSUME Pool!PoolAssumption, Pool!Init
  PROVE  Pool!PoolInv
<1>1. Pool!TypeOK
  BY DEF Pool!PoolAssumption, Pool!Init, Pool!TypeOK, Pool!NoCall, Pool!Elements
<1>2. Pool!CallsFit /\ Pool!GivenBackOnce /\ Pool!InitAlone
  BY DEF Pool!PoolAssumption, Pool!Init, Pool!CallsFit, Pool!GivenBackOnce, Pool!InitAlone,
     Pool!NoCall, Pool!Initted
<1>3. Pool!EveryElementAccounted
  BY DEF Pool!Init, Pool!EveryElementAccounted, Pool!Initted
<1> QED
  BY <1>1, <1>2, <1>3 DEF Pool!PoolInv

\* A pool of which neither the list nor what is out changes stays accounted for.
LEMMA SameAccounts ==
  ASSUME NEW p \in Pools, Pool!Out(p)' = Pool!Out(p), Pool!Initted(p) => Pool!Accounted(p),
         list'[p] = list[p], freelist'[p] = freelist[p], current_used'[p] = current_used[p]
  PROVE  Pool!Initted(p)' => Pool!Accounted(p)'
BY DEF Pool!Accounted, Pool!IsFreeList, Pool!Initted

\* The calls that bring no element.
LEMMA PoolCallInv ==
  ASSUME Pool!PoolAssumption, Pool!PoolInv, NEW t \in Threads, NEW p \in Pools,
         Pool!CallInit(t, p) \/ Pool!CallAlloc(t, p)
  PROVE  Pool!PoolInv'
<1>1. PICK op \in {"init", "alloc"} : Pool!Begin(t, op, p, None) /\ 
         (op = "init" => Pool!CallInit(t, p)) /\ (op = "alloc" => Pool!CallAlloc(t, p))
  BY DEF Pool!CallInit, Pool!CallAlloc
<1>2. /\ pool_pc[t] = "idle" /\ pool_pc' = [pool_pc EXCEPT ![t] = "lock"]
      /\ pool_call' = [pool_call EXCEPT ![t] = [op |-> op, pool |-> p, elem |-> None]]
      /\ UNCHANGED <<pool_lock, list, freelist, current_used, pool_held>>
      /\ mempool_lock_initted' \in BOOLEAN
  BY <1>1 DEF Pool!Begin, Pool!Goto, Pool!CallInit, Pool!CallAlloc, Pool!pool, Pool!PoolInv,
     Pool!TypeOK
<1>3. /\ \A u \in Threads \ {t} : pool_call'[u] = pool_call[u] /\ pool_pc'[u] = pool_pc[u]
      /\ pool_call'[t].op = op /\ pool_call'[t].pool = p /\ pool_call'[t].elem = None
      /\ pool_pc'[t] = "lock" /\ pool_call[t].op = "none" /\ pool_call[t].pool = None
  BY <1>2 DEF Pool!PoolInv, Pool!TypeOK, Pool!CallsFit
<1>4. Pool!TypeOK'
  BY <1>2, <1>3 DEF Pool!PoolInv, Pool!TypeOK
<1>5. Pool!CallsFit'
  BY <1>2, <1>3 DEF Pool!PoolInv, Pool!CallsFit, Pool!PoolAssumption
<1>6. Pool!GivenBackOnce'
  BY <1>2, <1>3 DEF Pool!PoolInv, Pool!GivenBackOnce
<1>7. Pool!InitAlone'
  <2>1. CASE op = "init"
    <3>1. pool_held[p] = {} /\ \A u \in Threads : pool_call[u].pool # p /\ pool_call[u].op # "init"
      BY <1>1, <2>1 DEF Pool!CallInit
    <3> QED
      BY <1>2, <1>3, <2>1, <3>1 DEF Pool!PoolInv, Pool!InitAlone, Pool!Initted
  <2>2. CASE op = "alloc"
    <3>1. Pool!Initted(p) /\ \A u \in Threads : pool_call[u].pool = p => pool_call[u].op # "init"
      BY <1>1, <2>2 DEF Pool!CallAlloc
    <3>2. \A u \in Threads : pool_call'[u].op = "init" =>
            u # t /\ pool_call[u].op = "init" /\ pool_call'[u].pool = pool_call[u].pool /\ pool_call[u].pool # p
      BY <1>3, <2>2, <3>1
    <3>3. \A u \in Threads : pool_call'[u].op = "init" =>
            /\ pool_held'[pool_call'[u].pool] = {}
            /\ \A w \in Threads : pool_call'[w].pool = pool_call'[u].pool => w = u
      BY <1>2, <1>3, <3>2 DEF Pool!PoolInv, Pool!InitAlone
    <3>4. \A q \in Pools : Pool!Initted(q)' = Pool!Initted(q)
      BY <1>2 DEF Pool!Initted
    <3>5. \A q \in Pools : ~Pool!Initted(q)' =>
            /\ pool_held'[q] = {}
            /\ \A u \in Threads : pool_call'[u].pool = q => pool_call'[u].op = "init"
      BY <1>2, <1>3, <3>1, <3>4 DEF Pool!PoolInv, Pool!InitAlone
    <3> QED
      BY <3>3, <3>5 DEF Pool!InitAlone
  <2> QED
    BY <2>1, <2>2
<1>8. \A q \in Pools : Pool!Out(q)' = Pool!Out(q)
  <2> SUFFICES ASSUME NEW q \in Pools PROVE \A e : e \in Pool!Out(q)' <=> e \in Pool!Out(q)
    OBVIOUS
  <2> QED
    BY <1>2, <1>3 DEF Pool!Out, Pool!Returning
<1>9. Pool!EveryElementAccounted'
  BY <1>2, <1>8, SameAccounts DEF Pool!PoolInv, Pool!EveryElementAccounted
<1> QED
  BY <1>4, <1>5, <1>6, <1>7, <1>9 DEF Pool!PoolInv

\* The element leaves its holder with the call, and is still out.
LEMMA PoolFreeInv ==
  ASSUME Pool!PoolAssumption, Pool!PoolInv, NEW t \in Threads, NEW p \in Pools, Pool!CallFree(t, p)
  PROVE  Pool!PoolInv'
<1>1. PICK e \in pool_held[p] :
        /\ Pool!Begin(t, "free", p, e) /\ pool_held' = [pool_held EXCEPT ![p] = @ \ {e}]
        /\ UNCHANGED <<mempool_lock_initted, pool_lock, list, freelist, current_used>>
  BY DEF Pool!CallFree, Pool!pool
<1>2. /\ \A u \in Threads \ {t} : pool_call'[u] = pool_call[u] /\ pool_pc'[u] = pool_pc[u]
      /\ pool_call'[t].op = "free" /\ pool_call'[t].pool = p /\ pool_call'[t].elem = e
      /\ pool_pc'[t] = "lock" /\ pool_call[t].op = "none" /\ pool_call[t].pool = None /\ pool_pc[t] = "idle"
      /\ pool_held'[p] = pool_held[p] \ {e} /\ \A q \in Pools \ {p} : pool_held'[q] = pool_held[q]
      /\ e \in Pool!Elements
  BY <1>1 DEF Pool!Begin, Pool!Goto, Pool!PoolInv, Pool!TypeOK, Pool!CallsFit
<1>3. Pool!TypeOK'
  <2>1. pool_call' \in [Threads -> [op : {"none", "init", "alloc", "free"}, pool : Pools \cup {None},
                               elem : Pool!Elements \cup {None}]]
    BY <1>1, <1>2 DEF Pool!Begin, Pool!PoolInv, Pool!TypeOK
  <2>2. pool_held' \in [Pools -> SUBSET Pool!Elements]
          /\ pool_pc' \in [Threads -> {"idle", "lock", "read", "write"}]
    BY <1>1 DEF Pool!Begin, Pool!Goto, Pool!PoolInv, Pool!TypeOK
  <2> QED
    BY <1>1, <1>2, <2>1, <2>2 DEF Pool!PoolInv, Pool!TypeOK
<1>4. Pool!CallsFit'
  BY <1>1, <1>2 DEF Pool!PoolInv, Pool!CallsFit, Pool!PoolAssumption
<1>5. \A u \in Threads : pool_call[u].op = "free" /\ pool_call[u].pool = p => pool_call[u].elem # e
  BY <1>1 DEF Pool!PoolInv, Pool!GivenBackOnce
<1>6. Pool!GivenBackOnce'
  <2>1. \A u \in Threads : pool_call'[u].op = "free" => pool_call'[u].elem \notin pool_held'[pool_call'[u].pool]
    BY <1>2 DEF Pool!PoolInv, Pool!GivenBackOnce, Pool!TypeOK, Pool!CallsFit
  <2>2. \A u, w \in Threads :
          pool_call'[u].op = "free" /\ pool_call'[w].op = "free" /\ pool_call'[u].pool = pool_call'[w].pool
          /\ pool_call'[u].elem = pool_call'[w].elem => u = w
    BY <1>2, <1>5 DEF Pool!PoolInv, Pool!GivenBackOnce
  <2> QED
    BY <2>1, <2>2 DEF Pool!GivenBackOnce
<1>7. Pool!InitAlone'
  <2>1. \A q \in Pools : Pool!Initted(q)' = Pool!Initted(q)
    BY <1>1 DEF Pool!Initted
  <2>2. Pool!Initted(p) /\ \A u \in Threads : pool_call[u].op = "init" => pool_call[u].pool # p
    BY <1>1 DEF Pool!PoolInv, Pool!InitAlone
  <2>3. \A u \in Threads : pool_call'[u].op = "init" =>
          /\ pool_held'[pool_call'[u].pool] = {}
          /\ \A w \in Threads : pool_call'[w].pool = pool_call'[u].pool => w = u
    <3> SUFFICES ASSUME NEW u \in Threads, pool_call'[u].op = "init"
                 PROVE  /\ pool_held'[pool_call'[u].pool] = {}
                        /\ \A w \in Threads : pool_call'[w].pool = pool_call'[u].pool => w = u
      OBVIOUS
    <3>1. u # t /\ pool_call[u].op = "init" /\ pool_call'[u].pool = pool_call[u].pool
            /\ pool_call[u].pool \in Pools \ {p}
      BY <1>2, <2>2 DEF Pool!PoolInv, Pool!CallsFit, Pool!TypeOK
    <3> QED
      BY <1>2, <3>1 DEF Pool!PoolInv, Pool!InitAlone
  <2>4. \A q \in Pools : ~Pool!Initted(q)' =>
          /\ pool_held'[q] = {}
          /\ \A u \in Threads : pool_call'[u].pool = q => pool_call'[u].op = "init"
    BY <1>2, <2>1, <2>2 DEF Pool!PoolInv, Pool!InitAlone
  <2> QED
    BY <2>3, <2>4 DEF Pool!InitAlone
<1>8. \A q \in Pools : Pool!Out(q)' = Pool!Out(q)
  <2> SUFFICES ASSUME NEW q \in Pools, NEW x PROVE x \in Pool!Out(q)' <=> x \in Pool!Out(q)
    OBVIOUS
  <2>1. x \in Pool!Out(q)' <=> \/ x \in pool_held'[q]
                               \/ \E u \in Threads : pool_call'[u].op = "free" /\ pool_call'[u].pool = q
                                  /\ pool_call'[u].elem = x
    BY DEF Pool!Out, Pool!Returning
  <2>2. CASE q = p
    BY <1>1, <1>2, <2>1, <2>2, OutMembers
  <2>3. CASE q # p
    BY <1>2, <2>1, <2>3, OutMembers
  <2> QED
    BY <2>2, <2>3
<1>9. Pool!EveryElementAccounted'
  BY <1>1, <1>8, SameAccounts DEF Pool!PoolInv, Pool!EveryElementAccounted
<1> QED
  BY <1>3, <1>4, <1>6, <1>7, <1>9 DEF Pool!PoolInv

\* Taking the lock and reading the head change nothing but the call itself.
LEMMA PoolLockInv ==
  ASSUME Pool!PoolAssumption, Pool!PoolInv, NEW t \in Threads, Pool!Lock(t) \/ Pool!ReadHead(t)
  PROVE  Pool!PoolInv'
<1>1. /\ UNCHANGED <<mempool_lock_initted, list, freelist, current_used, pool_held>>
      /\ \A u \in Threads \ {t} : pool_call'[u] = pool_call[u] /\ pool_pc'[u] = pool_pc[u]
      /\ pool_call'[t].op = pool_call[t].op /\ pool_call'[t].pool = pool_call[t].pool
      /\ pool_call[t].op # "alloc" => pool_call'[t] = pool_call[t]
      /\ \/ pool_pc[t] = "lock" /\ pool_pc'[t] = "read" /\ pool_call' = pool_call /\ pool_lock = None /\ pool_lock' = t
         \/ /\ pool_pc[t] = "read" /\ pool_pc'[t] = "write" /\ pool_call[t].op = "alloc" /\ pool_lock' = pool_lock
            /\ pool_call'[t].elem = freelist[pool_call[t].pool]
            /\ pool_call' = [pool_call EXCEPT ![t].elem = freelist[pool_call[t].pool]]
      /\ pool_pc' \in [Threads -> {"idle", "lock", "read", "write"}]
  BY DEF Pool!Lock, Pool!ReadHead, Pool!Goto, Pool!pool, Pool!PoolInv, Pool!TypeOK
<1>2. Pool!TypeOK'
  <2>1. pool_call' \in [Threads -> [op : {"none", "init", "alloc", "free"}, pool : Pools \cup {None},
                               elem : Pool!Elements \cup {None}]]
    BY <1>1 DEF Pool!PoolInv, Pool!TypeOK, Pool!CallsFit
  <2>2. pool_lock' \in Threads \cup {None} /\ \A u \in Threads : pool_lock' = u <=>
          pool_pc'[u] \in {"read", "write"}
    BY <1>1 DEF Pool!PoolInv, Pool!TypeOK, Pool!PoolAssumption
  <2> QED
    BY <1>1, <2>1, <2>2 DEF Pool!PoolInv, Pool!TypeOK
<1>3. Pool!CallsFit'
  BY <1>1 DEF Pool!PoolInv, Pool!CallsFit
<1>4. Pool!GivenBackOnce'
  BY <1>1 DEF Pool!PoolInv, Pool!GivenBackOnce
<1>5. Pool!InitAlone'
  BY <1>1 DEF Pool!PoolInv, Pool!InitAlone, Pool!Initted
<1>6. \A q \in Pools : Pool!Out(q)' = Pool!Out(q)
  <2> SUFFICES ASSUME NEW q \in Pools, NEW x PROVE x \in Pool!Out(q)' <=> x \in Pool!Out(q)
    OBVIOUS
  <2>1. x \in Pool!Out(q)' <=> \/ x \in pool_held'[q]
                               \/ \E u \in Threads : pool_call'[u].op = "free" /\ pool_call'[u].pool = q
                                  /\ pool_call'[u].elem = x
    BY DEF Pool!Out, Pool!Returning
  <2> QED
    BY <1>1, <2>1, OutMembers
<1>7. Pool!EveryElementAccounted'
  BY <1>1, <1>6, SameAccounts DEF Pool!PoolInv, Pool!EveryElementAccounted
<1> QED
  BY <1>2, <1>3, <1>4, <1>5, <1>7 DEF Pool!PoolInv

\* The pools count as we do.
LEMMA PoolNumbers ==
  /\ \A S : Pool!IsFiniteSet(S) <=> IsFiniteSet(S)
  /\ \A S : Pool!Cardinality(S) = Cardinality(S)
BY DEF Pool!IsFiniteSet, IsFiniteSet, Pool!Cardinality, Cardinality

\* What there is to show of a list that has changed.
LEMMA NewAccounts ==
  ASSUME NEW p \in Pools, NEW n, NEW order \in [1 .. n -> Pool!Elements], Pool!IsFreeList(p, n, order)',
         pool_size - current_used'[p] = n, current_used'[p] = Pool!Cardinality(Pool!Out(p)')
  PROVE  Pool!Accounted(p)'
BY Zenon DEF Pool!Accounted

\* Who has the lock has it alone.
LEMMA LockIsAlone ==
  ASSUME Pool!PoolAssumption, Pool!PoolInv, NEW t \in Threads, pool_pc[t] \in {"read", "write"}
  PROVE  /\ pool_lock = t
         /\ \A u \in Threads \ {t} : pool_pc[u] \notin {"read", "write"}
BY DEF Pool!PoolInv, Pool!TypeOK

\* The end of a call, but for its pool.
LEMMA CallEnds ==
  ASSUME Pool!PoolAssumption, Pool!PoolInv, NEW t \in Threads, pool_pc[t] \in {"read", "write"},
         pool_pc' = [pool_pc EXCEPT ![t] = "idle"], pool_call' = [pool_call EXCEPT ![t] = Pool!NoCall], pool_lock' = None
  PROVE  /\ \A u \in Threads \ {t} : pool_call'[u] = pool_call[u] /\ pool_pc'[u] = pool_pc[u] /\ pool_pc[u] # "write"
         /\ pool_call'[t] = Pool!NoCall /\ pool_call'[t].op = "none" /\ pool_call'[t].pool = None /\ pool_pc'[t] = "idle"
         /\ pool_pc' \in [Threads -> {"idle", "lock", "read", "write"}]
         /\ pool_call' \in [Threads -> [op : {"none", "init", "alloc", "free"}, pool : Pools \cup {None},
                                   elem : Pool!Elements \cup {None}]]
         /\ \A u \in Threads : pool_lock' = u <=> pool_pc'[u] \in {"read", "write"}
         /\ Pool!CallsFit'
<1>1. /\ \A u \in Threads \ {t} : pool_call'[u] = pool_call[u] /\ pool_pc'[u] = pool_pc[u]
         /\ pool_pc[u] \notin {"read", "write"}
      /\ pool_call'[t] = Pool!NoCall /\ pool_pc'[t] = "idle"
  BY LockIsAlone DEF Pool!PoolInv, Pool!TypeOK
<1>2. Pool!NoCall.op = "none" /\ Pool!NoCall.pool = None /\ Pool!NoCall.elem = None
      /\ Pool!NoCall \in [op : {"none", "init", "alloc", "free"}, pool : Pools \cup {None},
                     elem : Pool!Elements \cup {None}]
  BY DEF Pool!NoCall
<1>3. \A u \in Threads : pool_lock' = u <=> pool_pc'[u] \in {"read", "write"}
  BY <1>1 DEF Pool!PoolAssumption
<1>4. pool_pc' \in [Threads -> {"idle", "lock", "read", "write"}]
  BY DEF Pool!PoolInv, Pool!TypeOK
<1>5. pool_call' \in [Threads -> [op : {"none", "init", "alloc", "free"}, pool : Pools \cup {None},
                                   elem : Pool!Elements \cup {None}]]
  BY <1>2 DEF Pool!PoolInv, Pool!TypeOK
<1>6. Pool!CallsFit'
  BY <1>1, <1>2 DEF Pool!PoolInv, Pool!CallsFit
<1> QED
  BY <1>1, <1>2, <1>3, <1>4, <1>5, <1>6

\* The fresh list is all elements in their order.
LEMMA BuildListInv ==
  ASSUME Pool!PoolAssumption, Pool!PoolInv, NEW t \in Threads, NEW p \in Pools, p = pool_call[t].pool,
         Pool!BuildList(t)
  PROVE  Pool!PoolInv'
<1> DEFINE chain == [e \in Pool!Elements |-> IF e = pool_size - 1 THEN None ELSE e + 1]
<1>1. /\ pool_call[t].op = "init" /\ pool_pc[t] = "read"
      /\ pool_pc' = [pool_pc EXCEPT ![t] = "idle"] /\ pool_call' = [pool_call EXCEPT ![t] = Pool!NoCall] /\ pool_lock' = None
      /\ list' = [list EXCEPT ![p] = chain] /\ freelist' = [freelist EXCEPT ![p] = 0]
      /\ current_used' = [current_used EXCEPT ![p] = 0]
      /\ UNCHANGED <<mempool_lock_initted, pool_held>>
  BY DEF Pool!BuildList, Pool!Goto, Pool!Unlock, Pool!PoolInv, Pool!TypeOK, Pool!CallsFit
<1>2. /\ \A u \in Threads \ {t} : pool_call'[u] = pool_call[u] /\ pool_pc'[u] = pool_pc[u] /\ pool_pc[u] # "write"
      /\ pool_call'[t].op = "none" /\ pool_call'[t].pool = None /\ pool_pc'[t] = "idle"
      /\ pool_pc' \in [Threads -> {"idle", "lock", "read", "write"}]
      /\ pool_call' \in [Threads -> [op : {"none", "init", "alloc", "free"}, pool : Pools \cup {None},
                                elem : Pool!Elements \cup {None}]]
      /\ \A u \in Threads : pool_lock' = u <=> pool_pc'[u] \in {"read", "write"}
      /\ Pool!CallsFit'
  BY <1>1, CallEnds
<1>3. chain \in [Pool!Elements -> Pool!Elements \cup {None}] /\ 0 \in Pool!Elements
  BY DEF Pool!PoolAssumption, Pool!Elements
<1> HIDE DEF chain
<1>4. /\ list'[p] = chain /\ freelist'[p] = 0 /\ current_used'[p] = 0
      /\ \A q \in Pools \ {p} : /\ list'[q] = list[q] /\ freelist'[q] = freelist[q]
                                /\ current_used'[q] = current_used[q]
  BY <1>1 DEF Pool!PoolInv, Pool!TypeOK
<1>5. Pool!TypeOK'
  <2>1. list' \in [Pools -> [Pool!Elements -> Pool!Elements \cup {None}]]
    BY <1>1, <1>3 DEF Pool!PoolInv, Pool!TypeOK
  <2>2. freelist' \in [Pools -> Pool!Elements \cup {None}] /\ current_used' \in [Pools -> Nat]
    BY <1>1, <1>3 DEF Pool!PoolInv, Pool!TypeOK
  <2> QED
    BY <1>1, <1>2, <2>1, <2>2 DEF Pool!PoolInv, Pool!TypeOK
<1>6. pool_held[p] = {} /\ \A u \in Threads : pool_call[u].pool = p => u = t
  BY <1>1 DEF Pool!PoolInv, Pool!InitAlone
<1>7. Pool!GivenBackOnce'
  BY <1>1, <1>2 DEF Pool!PoolInv, Pool!GivenBackOnce
<1>8. Pool!InitAlone'
  <2>1. \A q \in Pools : Pool!Initted(q)' <=> (q = p \/ Pool!Initted(q))
    BY <1>3, <1>4 DEF Pool!Initted, Pool!PoolAssumption
  <2>2. \A u \in Threads : pool_call'[u].op = "init" => u # t /\ pool_call'[u] = pool_call[u]
    BY <1>2
  <2>3. \A u \in Threads : pool_call'[u].op = "init" =>
          /\ pool_held'[pool_call'[u].pool] = {}
          /\ \A w \in Threads : pool_call'[w].pool = pool_call'[u].pool => w = u
    <3> SUFFICES ASSUME NEW u \in Threads, pool_call'[u].op = "init"
                 PROVE  /\ pool_held'[pool_call'[u].pool] = {}
                        /\ \A w \in Threads : pool_call'[w].pool = pool_call'[u].pool => w = u
      OBVIOUS
    <3>1. u # t /\ pool_call'[u] = pool_call[u] /\ pool_call[u].op = "init"
      BY <2>2
    <3>2. pool_held[pool_call[u].pool] = {} /\ pool_call[u].pool # None
      BY <3>1 DEF Pool!PoolInv, Pool!InitAlone, Pool!CallsFit
    <3>3. \A w \in Threads : pool_call[w].pool = pool_call[u].pool => w = u
      BY <3>1 DEF Pool!PoolInv, Pool!InitAlone
    <3>4. pool_call'[t].pool # pool_call'[u].pool
      BY <1>2, <3>1, <3>2
    <3>5. \A w \in Threads \ {t} : pool_call'[w] = pool_call[w]
      BY <1>2
    <3>6. pool_held' = pool_held
      BY <1>1
    <3> QED
      BY <3>1, <3>2, <3>3, <3>4, <3>5, <3>6
  <2>4. \A q \in Pools : ~Pool!Initted(q)' =>
          /\ pool_held'[q] = {}
          /\ \A u \in Threads : pool_call'[u].pool = q => pool_call'[u].op = "init"
    BY <1>1, <1>2, <2>1 DEF Pool!PoolInv, Pool!InitAlone, Pool!PoolAssumption
  <2> QED
    BY <2>3, <2>4 DEF Pool!InitAlone
<1>9. \A q \in Pools : Pool!Out(q)' = Pool!Out(q)
  <2> SUFFICES ASSUME NEW q \in Pools, NEW x PROVE x \in Pool!Out(q)' <=> x \in Pool!Out(q)
    OBVIOUS
  <2>1. x \in Pool!Out(q)' <=> \/ x \in pool_held'[q]
                               \/ \E u \in Threads : pool_call'[u].op = "free" /\ pool_call'[u].pool = q
                                  /\ pool_call'[u].elem = x
    BY DEF Pool!Out, Pool!Returning
  <2> QED
    BY <1>1, <1>2, <2>1, OutMembers
<1>10. Pool!Out(p)' = {}
  <2>1. \A x : x \notin Pool!Out(p)
    BY <1>1, <1>6, OutMembers
  <2> QED
    BY <1>1, <1>9, <2>1
<1>11. Pool!Accounted(p)'
  <2> DEFINE order == [l \in 1 .. pool_size |-> l - 1]
  <2>1. pool_size \in Nat /\ pool_size > 0 /\ None \notin Pool!Elements
    BY DEF Pool!PoolAssumption
  <2>2. order \in [1 .. pool_size -> Pool!Elements]
    BY <2>1 DEF Pool!Elements
  <2>3. \A l \in 1 .. pool_size : order[l] = l - 1
    OBVIOUS
  <2> HIDE DEF order
  <2>4. freelist'[p] = IF pool_size = 0 THEN None ELSE order[1]
    BY <1>4, <2>1, <2>3
  <2>5. \A l \in 1 .. pool_size : list'[p][order[l]] = IF l = pool_size THEN None ELSE order[l + 1]
    <3> SUFFICES ASSUME NEW l \in 1 .. pool_size
                 PROVE  chain[order[l]] = IF l = pool_size THEN None ELSE order[l + 1]
      BY <1>4
    <3>1. order[l] = l - 1 /\ l - 1 \in Pool!Elements
      BY <2>1, <2>3 DEF Pool!Elements
    <3>2. chain[l - 1] = IF l = pool_size THEN None ELSE l
      BY <2>1, <3>1 DEF chain
    <3>3. l # pool_size => order[l + 1] = l
      BY <2>1, <2>3
    <3> QED
      BY <3>1, <3>2, <3>3
  <2>6. \A l, j \in 1 .. pool_size : order[l] = order[j] => l = j
    BY <2>3
  <2>7. \A e \in Pool!Elements : \E l \in 1 .. pool_size : order[l] = e
    <3> SUFFICES ASSUME NEW e \in Pool!Elements PROVE \E l \in 1 .. pool_size : order[l] = e
      OBVIOUS
    <3>1. e + 1 \in 1 .. pool_size /\ order[e + 1] = e
      BY <2>1, <2>3 DEF Pool!Elements
    <3> QED
      BY <3>1
  <2>8. pool_size - current_used'[p] = pool_size /\ current_used'[p] = Pool!Cardinality(Pool!Out(p)')
    BY <1>4, <1>10, <2>1, FS_EmptySet, PoolNumbers
  <2>9. \A e \in Pool!Elements : e \in Pool!Out(p)' <=> \A l \in 1 .. pool_size : order[l] # e
    BY <1>10, <2>7
  <2>10. PICK o : o = order
    OBVIOUS
  <2>11. Pool!IsFreeList(p, pool_size, o)'
    BY <2>4, <2>5, <2>6, <2>9, <2>10 DEF Pool!IsFreeList
  <2> QED
    BY <2>2, <2>8, <2>10, <2>11, NewAccounts
<1>12. Pool!EveryElementAccounted'
  <2>1. \A q \in Pools \ {p} : Pool!Initted(q)' => Pool!Accounted(q)'
    BY <1>4, <1>9, SameAccounts DEF Pool!PoolInv, Pool!EveryElementAccounted
  <2> QED
    BY <1>11, <2>1 DEF Pool!EveryElementAccounted
<1> QED
  BY <1>2, <1>5, <1>7, <1>8, <1>12 DEF Pool!PoolInv

\* Allocation: the head leaves the list for its caller.
LEMMA TakeHeadInv ==
  ASSUME Pool!PoolAssumption, Pool!PoolInv, NEW t \in Threads, NEW p \in Pools, p = pool_call[t].pool,
         NEW elem, elem = pool_call[t].elem, Pool!TakeHead(t)
  PROVE  Pool!PoolInv'
<1>1. /\ pool_call[t].op = "alloc" /\ pool_pc[t] = "write" /\ elem = freelist[p]
      /\ pool_pc' = [pool_pc EXCEPT ![t] = "idle"] /\ pool_call' = [pool_call EXCEPT ![t] = Pool!NoCall] /\ pool_lock' = None
      /\ UNCHANGED <<mempool_lock_initted, list>>
  BY DEF Pool!TakeHead, Pool!Goto, Pool!Unlock, Pool!PoolInv, Pool!CallsFit
<1>2. /\ \A u \in Threads \ {t} : pool_call'[u] = pool_call[u] /\ pool_pc'[u] = pool_pc[u] /\ pool_pc[u] # "write"
      /\ pool_call'[t].op = "none" /\ pool_call'[t].pool = None /\ pool_pc'[t] = "idle"
      /\ pool_pc' \in [Threads -> {"idle", "lock", "read", "write"}]
      /\ pool_call' \in [Threads -> [op : {"none", "init", "alloc", "free"}, pool : Pools \cup {None},
                                elem : Pool!Elements \cup {None}]]
      /\ \A u \in Threads : pool_lock' = u <=> pool_pc'[u] \in {"read", "write"}
      /\ Pool!CallsFit'
  BY <1>1, CallEnds
<1>3. /\ Pool!Initted(p) /\ Pool!Accounted(p)
      /\ \A u \in Threads : pool_call[u].pool = p => pool_call[u].op # "init"
  BY <1>1 DEF Pool!PoolInv, Pool!InitAlone, Pool!EveryElementAccounted
<1>4. CASE elem = None
  <2>1. UNCHANGED <<list, freelist, current_used, pool_held>>
    BY <1>1, <1>4 DEF Pool!TakeHead
  <2>2. Pool!TypeOK'
    BY <1>1, <1>2, <2>1 DEF Pool!PoolInv, Pool!TypeOK
  <2>3. Pool!GivenBackOnce'
    BY <1>2, <2>1 DEF Pool!PoolInv, Pool!GivenBackOnce
  <2>4. Pool!InitAlone'
    <3>1. \A u \in Threads : pool_call'[u].op = "init" =>
            /\ pool_held'[pool_call'[u].pool] = {}
            /\ \A w \in Threads : pool_call'[w].pool = pool_call'[u].pool => w = u
      BY <1>1, <1>2, <2>1 DEF Pool!PoolInv, Pool!InitAlone, Pool!CallsFit
    <3>2. \A q \in Pools : ~Pool!Initted(q)' =>
            /\ pool_held'[q] = {}
            /\ \A u \in Threads : pool_call'[u].pool = q => pool_call'[u].op = "init"
      BY <1>1, <1>2, <2>1 DEF Pool!PoolInv, Pool!InitAlone, Pool!PoolAssumption,
         Pool!Initted
    <3> QED
      BY <3>1, <3>2 DEF Pool!InitAlone
  <2>5. \A q \in Pools : Pool!Out(q)' = Pool!Out(q)
    <3> SUFFICES ASSUME NEW q \in Pools, NEW x PROVE x \in Pool!Out(q)' <=> x \in Pool!Out(q)
      OBVIOUS
    <3>1. x \in Pool!Out(q)' <=> \/ x \in pool_held'[q]
                                 \/ \E u \in Threads : pool_call'[u].op = "free" /\ pool_call'[u].pool = q
                                    /\ pool_call'[u].elem = x
      BY DEF Pool!Out, Pool!Returning
    <3> QED
      BY <1>1, <1>2, <2>1, <3>1, OutMembers
  <2>6. Pool!EveryElementAccounted'
    BY <2>1, <2>5, SameAccounts DEF Pool!PoolInv, Pool!EveryElementAccounted
  <2> QED
    BY <1>2, <2>2, <2>3, <2>4, <2>6 DEF Pool!PoolInv
<1>5. CASE elem # None
  <2>1. /\ elem \in Pool!Elements
        /\ freelist' = [freelist EXCEPT ![p] = list[p][elem]]
        /\ current_used' = [current_used EXCEPT ![p] = @ + 1]
        /\ pool_held' = [pool_held EXCEPT ![p] = @ \cup {elem}]
    BY <1>1, <1>5 DEF Pool!TakeHead, Pool!PoolInv, Pool!TypeOK
  <2>2. /\ list'[p] = list[p] /\ freelist'[p] = list[p][elem]
           /\ current_used'[p] = current_used[p] + 1
        /\ pool_held'[p] = pool_held[p] \cup {elem} /\ current_used[p] \in Nat
        /\ \A q \in Pools \ {p} : /\ list'[q] = list[q] /\ freelist'[q] = freelist[q]
                                  /\ current_used'[q] = current_used[q] /\ pool_held'[q] = pool_held[q]
    BY <1>1, <2>1 DEF Pool!PoolInv, Pool!TypeOK
  <2>3. Pool!TypeOK'
    <3>1. freelist' \in [Pools -> Pool!Elements \cup {None}]
      BY <2>1 DEF Pool!PoolInv, Pool!TypeOK
    <3>2. current_used' \in [Pools -> Nat]
      BY <2>1 DEF Pool!PoolInv, Pool!TypeOK
    <3>3. pool_held' \in [Pools -> SUBSET Pool!Elements]
      BY <2>1 DEF Pool!PoolInv, Pool!TypeOK
    <3> QED
      BY <1>1, <1>2, <3>1, <3>2, <3>3 DEF Pool!PoolInv, Pool!TypeOK
  <2>4. \A q \in Pools \ {p} : Pool!Out(q)' = Pool!Out(q)
    <3> SUFFICES ASSUME NEW q \in Pools \ {p}, NEW x PROVE x \in Pool!Out(q)' <=> x \in Pool!Out(q)
      OBVIOUS
    <3>1. x \in Pool!Out(q)' <=> \/ x \in pool_held'[q]
                                 \/ \E u \in Threads : pool_call'[u].op = "free" /\ pool_call'[u].pool = q
                                    /\ pool_call'[u].elem = x
      BY DEF Pool!Out, Pool!Returning
    <3> QED
      BY <1>1, <1>2, <2>2, <3>1, OutMembers
  <2>5. Pool!Out(p)' = Pool!Out(p) \cup {elem}
    <3> SUFFICES ASSUME NEW x PROVE x \in Pool!Out(p)' <=> x \in Pool!Out(p) \/ x = elem
      OBVIOUS
    <3>1. x \in Pool!Out(p)' <=> \/ x \in pool_held'[p]
                                 \/ \E u \in Threads : pool_call'[u].op = "free" /\ pool_call'[u].pool = p
                                    /\ pool_call'[u].elem = x
      BY DEF Pool!Out, Pool!Returning
    <3> QED
      BY <1>1, <1>2, <2>2, <3>1, OutMembers
  <2> DEFINE n == pool_size - current_used[p]
  <2>6. PICK order \in [1 .. n -> Pool!Elements] : Pool!IsFreeList(p, n, order)
    BY <1>3 DEF Pool!Accounted
  <2>7. n \in Nat /\ pool_size - current_used'[p] = n - 1 /\ n # 0 /\ order[1] = elem
          /\ 1 \in 1 .. n
    <3>1. current_used[p] = Cardinality(Pool!Out(p)) /\ Pool!Out(p) \in SUBSET Pool!Elements
      BY <1>3, OutIsElements, PoolNumbers DEF Pool!Accounted, Pool!PoolInv
    <3>2. n \in Nat
      BY <2>2, <3>1, ElementsFinite DEF Pool!PoolAssumption
    <3>3. n # 0 /\ order[1] = elem
      BY <1>1, <1>5, <2>6 DEF Pool!IsFreeList
    <3> QED
      BY <2>2, <3>2, <3>3 DEF Pool!PoolAssumption
  <2>8. elem \notin Pool!Out(p)
    BY <2>1, <2>6, <2>7 DEF Pool!IsFreeList
  <2>9. current_used'[p] = Pool!Cardinality(Pool!Out(p)')
    <3>1. Pool!Out(p) \in SUBSET Pool!Elements
      BY OutIsElements DEF Pool!PoolInv
    <3>2. IsFiniteSet(Pool!Out(p))
      BY <3>1, ElementsFinite
    <3>3. Cardinality(Pool!Out(p) \cup {elem}) = Cardinality(Pool!Out(p)) + 1
      BY <2>8, <3>2, FS_AddElement
    <3> QED
      BY <1>3, <2>2, <2>5, <3>3, PoolNumbers DEF Pool!Accounted
  <2>10. Pool!Accounted(p)'
    <3> DEFINE rest == [l \in 1 .. n - 1 |-> order[l + 1]]
    <3>1. rest \in [1 .. n - 1 -> Pool!Elements]
      BY <2>6, <2>7
    <3>2. \A l \in 1 .. n - 1 : rest[l] = order[l + 1] /\ l + 1 \in 1 .. n /\ l + 1 # 1
      BY <2>7
    <3> HIDE DEF rest, n
    <3>3. freelist'[p] = IF n - 1 = 0 THEN None ELSE rest[1]
      BY <2>2, <2>6, <2>7, <3>2 DEF Pool!IsFreeList
    <3>4. \A l \in 1 .. n - 1 : list'[p][rest[l]] = IF l = n - 1 THEN None ELSE rest[l + 1]
      BY <2>2, <2>6, <2>7, <3>2 DEF Pool!IsFreeList
    <3>5. \A l, j \in 1 .. n - 1 : rest[l] = rest[j] => l = j
      BY <2>6, <2>7, <3>2 DEF Pool!IsFreeList
    <3>6. ASSUME NEW e \in Pool!Elements
          PROVE  e \in Pool!Out(p)' <=> \A l \in 1 .. n - 1 : rest[l] # e
      <4>1. CASE e \in Pool!Out(p)'
        <5>1. \A l \in 1 .. n - 1 : order[l + 1] # e
          BY <2>5, <2>6, <2>7, <3>2, <4>1 DEF Pool!IsFreeList
        <5> QED
          BY <3>2, <4>1, <5>1
      <4>2. CASE e \notin Pool!Out(p)'
        <5>1. PICK l \in 1 .. n : order[l] = e
          BY <2>5, <2>6, <4>2 DEF Pool!IsFreeList
        <5>2. l # 1
          BY <2>5, <2>7, <4>2, <5>1
        <5>3. l - 1 \in 1 .. n - 1 /\ (l - 1) + 1 = l
          BY <2>7, <5>2
        <5>4. rest[l - 1] = e
          BY <3>2, <5>1, <5>3
        <5> QED
          BY <4>2, <5>3, <5>4
      <4> QED
        BY <4>1, <4>2
    <3>7. pool_size - current_used'[p] = n - 1
      BY <2>7
    <3>8. PICK o, m : o = rest /\ m = n - 1
      OBVIOUS
    <3>9. Pool!IsFreeList(p, m, o)'
      BY <3>3, <3>4, <3>5, <3>6, <3>8 DEF Pool!IsFreeList
    <3> QED
      BY <2>9, <3>1, <3>7, <3>8, <3>9, NewAccounts
  <2>11. Pool!EveryElementAccounted'
    BY <2>2, <2>4, <2>10, SameAccounts DEF Pool!PoolInv, Pool!EveryElementAccounted
  <2>12. Pool!GivenBackOnce'
    <3>1. \A u \in Threads : pool_call[u].op = "free" /\ pool_call[u].pool = p => pool_call[u].elem # elem
      BY <2>8, OutMembers
    <3>2. \A u \in Threads : pool_call'[u].op = "free" =>
            /\ pool_call'[u] = pool_call[u] /\ pool_call[u].op = "free" /\ pool_call[u].pool \in Pools
      BY <1>2 DEF Pool!PoolInv, Pool!CallsFit, Pool!TypeOK
    <3>3. \A u \in Threads : pool_call'[u].op = "free" => pool_call'[u].elem \notin pool_held'[pool_call'[u].pool]
      BY <2>2, <3>1, <3>2 DEF Pool!PoolInv, Pool!GivenBackOnce
    <3> QED
      BY <3>2, <3>3 DEF Pool!PoolInv, Pool!GivenBackOnce
  <2>13. Pool!InitAlone'
    <3>1. \A q \in Pools : Pool!Initted(q)' = Pool!Initted(q)
      BY <1>3, <2>2 DEF Pool!Initted
    <3>2. \A u \in Threads : pool_call'[u].op = "init" =>
            /\ u # t /\ pool_call'[u] = pool_call[u] /\ pool_call[u].pool \in Pools \ {p}
      BY <1>2, <1>3 DEF Pool!PoolInv, Pool!CallsFit, Pool!TypeOK
    <3>3. \A u \in Threads : pool_call'[u].op = "init" =>
            /\ pool_held'[pool_call'[u].pool] = {}
            /\ \A w \in Threads : pool_call'[w].pool = pool_call'[u].pool => w = u
      <4> SUFFICES ASSUME NEW u \in Threads, pool_call'[u].op = "init"
                   PROVE  /\ pool_held'[pool_call'[u].pool] = {}
                          /\ \A w \in Threads : pool_call'[w].pool = pool_call'[u].pool => w = u
        OBVIOUS
      <4>1. pool_held[pool_call[u].pool] = {} /\ \A w \in Threads : pool_call[w].pool = pool_call[u].pool => w = u
        BY <3>2 DEF Pool!PoolInv, Pool!InitAlone
      <4>2. pool_call'[t].pool = None /\ pool_call[u].pool # None
        BY <1>2, <3>2 DEF Pool!PoolAssumption
      <4> QED
        BY <1>2, <2>2, <3>2, <4>1, <4>2
    <3>4. \A q \in Pools : ~Pool!Initted(q)' =>
            /\ pool_held'[q] = {}
            /\ \A u \in Threads : pool_call'[u].pool = q => pool_call'[u].op = "init"
      BY <1>2, <1>3, <2>2, <3>1, SMTT(30) DEF Pool!PoolInv, Pool!InitAlone, Pool!PoolAssumption
    <3> QED
      BY <3>3, <3>4 DEF Pool!InitAlone
  <2> QED
    BY <1>2, <2>3, <2>11, <2>12, <2>13 DEF Pool!PoolInv
<1> QED
  BY <1>4, <1>5

\* The element that comes back is linked while it is still out.
LEMMA LinkInv ==
  ASSUME Pool!PoolAssumption, Pool!PoolInv, NEW t \in Threads, NEW p \in Pools, p = pool_call[t].pool,
         NEW elem, elem = pool_call[t].elem, Pool!Link(t)
  PROVE  Pool!PoolInv'
<1>1. /\ pool_call[t].op = "free" /\ pool_pc[t] = "read" /\ pool_pc' = [pool_pc EXCEPT ![t] = "write"]
      /\ list' = [list EXCEPT ![p][elem] = freelist[p]] /\ elem \in Pool!Elements
      /\ UNCHANGED <<mempool_lock_initted, pool_lock, freelist, current_used, pool_call, pool_held>>
  BY DEF Pool!Link, Pool!Goto, Pool!PoolInv, Pool!CallsFit
<1>2. /\ \A u \in Threads \ {t} : pool_pc'[u] = pool_pc[u] /\ pool_pc[u] # "write"
      /\ pool_pc'[t] = "write" /\ pool_pc' \in [Threads -> {"idle", "lock", "read", "write"}]
      /\ \A u \in Threads : pool_lock' = u <=> pool_pc'[u] \in {"read", "write"}
  BY <1>1, LockIsAlone DEF Pool!PoolInv, Pool!TypeOK
<1>3. /\ list' \in [Pools -> [Pool!Elements -> Pool!Elements \cup {None}]]
      /\ list'[p][elem] = freelist[p]
      /\ \A e \in Pool!Elements \ {elem} : list'[p][e] = list[p][e]
      /\ \A q \in Pools \ {p} : list'[q] = list[q]
  BY <1>1 DEF Pool!PoolInv, Pool!TypeOK
<1>4. Pool!TypeOK'
  BY <1>1, <1>2, <1>3 DEF Pool!PoolInv, Pool!TypeOK
<1>5. Pool!CallsFit'
  BY <1>1, <1>2, <1>3 DEF Pool!PoolInv, Pool!CallsFit
<1>6. Pool!GivenBackOnce' /\ Pool!InitAlone'
  BY <1>1 DEF Pool!PoolInv, Pool!GivenBackOnce, Pool!InitAlone, Pool!Initted
<1>7. \A q \in Pools : Pool!Out(q)' = Pool!Out(q)
  BY <1>1 DEF Pool!Out, Pool!Returning
<1>8. Pool!Initted(p) /\ Pool!Accounted(p) /\ elem \in Pool!Out(p)
  BY <1>1, OutMembers DEF Pool!PoolInv, Pool!InitAlone, Pool!EveryElementAccounted
<1>9. Pool!Accounted(p)'
  <2> DEFINE n == pool_size - current_used[p]
  <2>1. PICK order \in [1 .. n -> Pool!Elements] : Pool!IsFreeList(p, n, order)
    BY <1>8 DEF Pool!Accounted
  <2>2. PICK m : m = n
    OBVIOUS
  <2>3. \A l \in 1 .. m : list'[p][order[l]] = list[p][order[l]]
    BY <1>3, <1>8, <2>1, <2>2 DEF Pool!IsFreeList
  <2>4. Pool!IsFreeList(p, m, order)'
    <3>1. Pool!IsFreeList(p, m, order) /\ freelist'[p] = freelist[p] /\ Pool!Out(p)' = Pool!Out(p)
      BY <1>1, <1>7, <2>1, <2>2
    <3> QED
      BY <2>3, <3>1 DEF Pool!IsFreeList
  <2>5. pool_size - current_used'[p] = m /\ current_used'[p] = Pool!Cardinality(Pool!Out(p)')
    BY <1>1, <1>7, <1>8, <2>2 DEF Pool!Accounted
  <2> QED
    BY <2>1, <2>2, <2>4, <2>5, NewAccounts
<1>10. Pool!EveryElementAccounted'
  <2>1. \A q \in Pools \ {p} : Pool!Initted(q)' => Pool!Accounted(q)'
    BY <1>1, <1>3, <1>7, SameAccounts DEF Pool!PoolInv, Pool!EveryElementAccounted
  <2> QED
    BY <1>9, <2>1 DEF Pool!EveryElementAccounted
<1> QED
  BY <1>4, <1>5, <1>6, <1>10 DEF Pool!PoolInv

\* What was linked becomes the head, and is out no longer.
LEMMA PutHeadInv ==
  ASSUME Pool!PoolAssumption, Pool!PoolInv, NEW t \in Threads, NEW p \in Pools, p = pool_call[t].pool,
         NEW elem, elem = pool_call[t].elem, Pool!PutHead(t)
  PROVE  Pool!PoolInv'
<1>1. /\ pool_call[t].op = "free" /\ pool_pc[t] = "write" /\ elem \in Pool!Elements
      /\ list[p][elem] = freelist[p]
      /\ pool_pc' = [pool_pc EXCEPT ![t] = "idle"] /\ pool_call' = [pool_call EXCEPT ![t] = Pool!NoCall] /\ pool_lock' = None
      /\ freelist' = [freelist EXCEPT ![p] = elem]
      /\ current_used' = [current_used EXCEPT ![p] = @ - 1]
      /\ UNCHANGED <<mempool_lock_initted, list, pool_held>>
  BY DEF Pool!PutHead, Pool!Goto, Pool!Unlock, Pool!PoolInv, Pool!CallsFit
<1>2. /\ \A u \in Threads \ {t} : pool_call'[u] = pool_call[u] /\ pool_pc'[u] = pool_pc[u] /\ pool_pc[u] # "write"
      /\ pool_call'[t].op = "none" /\ pool_call'[t].pool = None /\ pool_pc'[t] = "idle"
      /\ pool_pc' \in [Threads -> {"idle", "lock", "read", "write"}]
      /\ pool_call' \in [Threads -> [op : {"none", "init", "alloc", "free"}, pool : Pools \cup {None},
                                elem : Pool!Elements \cup {None}]]
      /\ \A u \in Threads : pool_lock' = u <=> pool_pc'[u] \in {"read", "write"}
      /\ Pool!CallsFit'
  BY <1>1, CallEnds
<1>3. /\ Pool!Initted(p) /\ Pool!Accounted(p) /\ elem \in Pool!Out(p)
      /\ \A u \in Threads : pool_call[u].pool = p => pool_call[u].op # "init"
  BY <1>1, OutMembers DEF Pool!PoolInv, Pool!InitAlone, Pool!EveryElementAccounted
<1>4. Pool!Out(p) \in SUBSET Pool!Elements /\ IsFiniteSet(Pool!Out(p)) /\ Cardinality(Pool!Out(p)) \in Nat
      /\ Cardinality(Pool!Out(p)) <= pool_size
  BY OutIsElements, ElementsFinite DEF Pool!PoolInv
<1>5. Cardinality(Pool!Out(p) \ {elem}) = Cardinality(Pool!Out(p)) - 1 /\ Cardinality(Pool!Out(p) \ {elem}) \in Nat
  <2>1. Cardinality(Pool!Out(p) \ {elem}) = Cardinality(Pool!Out(p)) - 1
    <3>1. IsFiniteSet(Pool!Out(p)) /\ elem \in Pool!Out(p)
      BY <1>3, <1>4
    <3> QED
      BY <3>1, FS_RemoveElement
  <2>2. Pool!Out(p) \ {elem} \in SUBSET Pool!Elements
    BY <1>4
  <2>3. Cardinality(Pool!Out(p) \ {elem}) \in Nat
    BY <2>2, ElementsFinite
  <2> QED
    BY <2>1, <2>3
<1>6. /\ list'[p] = list[p] /\ freelist'[p] = elem /\ current_used'[p] = current_used[p] - 1
      /\ current_used[p] - 1 \in Nat /\ current_used[p] \in Nat /\ current_used[p] <= pool_size
      /\ \A q \in Pools \ {p} : /\ list'[q] = list[q] /\ freelist'[q] = freelist[q]
                                /\ current_used'[q] = current_used[q]
  BY <1>1, <1>3, <1>4, <1>5, PoolNumbers DEF Pool!PoolInv, Pool!TypeOK, Pool!Accounted
<1>7. Pool!TypeOK'
  <2>1. freelist' \in [Pools -> Pool!Elements \cup {None}]
    BY <1>1 DEF Pool!PoolInv, Pool!TypeOK
  <2>2. current_used' \in [Pools -> Nat]
    BY <1>1, <1>6 DEF Pool!PoolInv, Pool!TypeOK
  <2> QED
    BY <1>1, <1>2, <2>1, <2>2 DEF Pool!PoolInv, Pool!TypeOK
<1>8. \A q \in Pools \ {p} : Pool!Out(q)' = Pool!Out(q)
  <2> SUFFICES ASSUME NEW q \in Pools \ {p}, NEW x PROVE x \in Pool!Out(q)' <=> x \in Pool!Out(q)
    OBVIOUS
  <2>1. x \in Pool!Out(q)' <=> \/ x \in pool_held'[q]
                               \/ \E u \in Threads : pool_call'[u].op = "free" /\ pool_call'[u].pool = q
                                  /\ pool_call'[u].elem = x
    BY DEF Pool!Out, Pool!Returning
  <2> QED
    BY <1>1, <1>2, <2>1, OutMembers
<1>9. Pool!Out(p)' = Pool!Out(p) \ {elem}
  <2> SUFFICES ASSUME NEW x PROVE x \in Pool!Out(p)' <=> x \in Pool!Out(p) /\ x # elem
    OBVIOUS
  <2>1. x \in Pool!Out(p)' <=> \/ x \in pool_held'[p]
                               \/ \E u \in Threads : pool_call'[u].op = "free" /\ pool_call'[u].pool = p
                                  /\ pool_call'[u].elem = x
    BY DEF Pool!Out, Pool!Returning
  <2>2. /\ elem \notin pool_held[p]
        /\ \A u \in Threads : pool_call[u].op = "free" /\ pool_call[u].pool = p /\ pool_call[u].elem = elem =>
           u = t
    BY <1>1 DEF Pool!PoolInv, Pool!GivenBackOnce
  <2> QED
    BY <1>1, <1>2, <2>1, <2>2, OutMembers
<1>10. Pool!Accounted(p)'
  <2> DEFINE n == pool_size - current_used[p]
  <2>1. PICK order \in [1 .. n -> Pool!Elements] : Pool!IsFreeList(p, n, order)
    BY <1>3 DEF Pool!Accounted
  <2>2. PICK m : m = n
    OBVIOUS
  <2> DEFINE longer == [l \in 1 .. m + 1 |-> IF l = 1 THEN elem ELSE order[l - 1]]
  <2>3. m \in Nat /\ pool_size - current_used'[p] = m + 1
    BY <1>6, <2>2 DEF Pool!PoolAssumption
  <2>4. \A l \in 1 .. m + 1 : l # 1 => l - 1 \in 1 .. m
    BY <2>3
  <2>5. longer \in [1 .. m + 1 -> Pool!Elements]
    BY <1>1, <2>1, <2>2, <2>4
  <2>6. PICK o : o = longer
    OBVIOUS
  <2>7. o[1] = elem /\ \A l \in 1 .. m : o[l + 1] = order[l] /\ l + 1 \in 1 .. m + 1
    BY <2>3, <2>6
  <2>8. \A l \in 1 .. m + 1 : l = 1 \/ (l - 1 \in 1 .. m /\ o[l] = order[l - 1])
    BY <2>4, <2>6
  <2> HIDE DEF longer, n
  <2>9. \A l \in 1 .. m : order[l] # elem
    BY <1>3, <1>4, <2>1, <2>2 DEF Pool!IsFreeList
  <2>10. freelist'[p] = IF m + 1 = 0 THEN None ELSE o[1]
    BY <1>6, <2>3, <2>7
  <2>11. \A l \in 1 .. m + 1 : list'[p][o[l]] = IF l = m + 1 THEN None ELSE o[l + 1]
    <3> SUFFICES ASSUME NEW l \in 1 .. m + 1
                 PROVE  list[p][o[l]] = IF l = m + 1 THEN None ELSE o[l + 1]
      BY <1>6
    <3>1. CASE l = 1
      <4>1. list[p][o[l]] = IF m = 0 THEN None ELSE order[1]
        BY <1>1, <2>1, <2>2, <2>7, <3>1 DEF Pool!IsFreeList
      <4>2. m # 0 => o[l + 1] = order[1] /\ l # m + 1
        BY <2>3, <2>7, <3>1
      <4>3. m = 0 => l = m + 1
        BY <3>1
      <4> QED
        BY <4>1, <4>2, <4>3
    <3>2. CASE l # 1
      <4>1. l - 1 \in 1 .. m /\ o[l] = order[l - 1]
        BY <2>8, <3>2
      <4>2. list[p][order[l - 1]] = IF l - 1 = m THEN None ELSE order[(l - 1) + 1]
        BY <2>1, <2>2, <4>1 DEF Pool!IsFreeList
      <4>3. l - 1 # m => l \in 1 .. m /\ (l - 1) + 1 = l /\ l # m + 1
        BY <2>3, <4>1
      <4>4. l - 1 = m => l = m + 1
        BY <2>3
      <4> QED
        BY <2>7, <4>1, <4>2, <4>3, <4>4
    <3> QED
      BY <3>1, <3>2
  <2>12. \A l, j \in 1 .. m + 1 : o[l] = o[j] => l = j
    <3> SUFFICES ASSUME NEW l \in 1 .. m + 1, NEW j \in 1 .. m + 1, o[l] = o[j]
                 PROVE  l = j
      OBVIOUS
    <3>1. l = 1 <=> j = 1
      BY <2>7, <2>8, <2>9
    <3>2. l # 1 => l - 1 = j - 1
      BY <2>1, <2>2, <2>8, <3>1 DEF Pool!IsFreeList
    <3> QED
      BY <2>3, <3>1, <3>2
  <2>13. ASSUME NEW e \in Pool!Elements
         PROVE  e \in Pool!Out(p)' <=> \A l \in 1 .. m + 1 : o[l] # e
    <3>1. CASE e = elem
      <4>1. 1 \in 1 .. m + 1
        BY <2>3
      <4> QED
        BY <1>9, <2>7, <3>1, <4>1
    <3>2. CASE e # elem
      <4>1. e \in Pool!Out(p)' <=> \A l \in 1 .. m : order[l] # e
        BY <1>9, <2>1, <2>2, <3>2 DEF Pool!IsFreeList
      <4>2. (\A l \in 1 .. m : order[l] # e) <=> \A l \in 1 .. m + 1 : o[l] # e
        BY <2>7, <2>8, <3>2
      <4> QED
        BY <4>1, <4>2
    <3> QED
      BY <3>1, <3>2
  <2>14. PICK k : k = m + 1
    OBVIOUS
  <2>15. Pool!IsFreeList(p, k, o)'
    BY <2>10, <2>11, <2>12, <2>13, <2>14 DEF Pool!IsFreeList
  <2>16. current_used'[p] = Pool!Cardinality(Pool!Out(p)')
    BY <1>3, <1>5, <1>6, <1>9, PoolNumbers DEF Pool!Accounted
  <2> QED
    BY <2>3, <2>5, <2>6, <2>14, <2>15, <2>16, NewAccounts
<1>11. Pool!EveryElementAccounted'
  BY <1>6, <1>8, <1>10, SameAccounts DEF Pool!PoolInv, Pool!EveryElementAccounted
<1>12. Pool!GivenBackOnce'
  BY <1>1, <1>2 DEF Pool!PoolInv, Pool!GivenBackOnce
<1>13. Pool!InitAlone'
  <2>1. \A q \in Pools : Pool!Initted(q)' = Pool!Initted(q)
    BY <1>1, <1>3, <1>6 DEF Pool!Initted, Pool!PoolAssumption
  <2>2. \A u \in Threads : pool_call'[u].op = "init" => u # t /\ pool_call'[u] = pool_call[u]
          /\ pool_call[u].op = "init"
    BY <1>2
  <2>3. \A u \in Threads : pool_call'[u].op = "init" =>
          /\ pool_held'[pool_call'[u].pool] = {}
          /\ \A w \in Threads : pool_call'[w].pool = pool_call'[u].pool => w = u
    <3> SUFFICES ASSUME NEW u \in Threads, pool_call'[u].op = "init"
                 PROVE  /\ pool_held'[pool_call'[u].pool] = {}
                        /\ \A w \in Threads : pool_call'[w].pool = pool_call'[u].pool => w = u
      OBVIOUS
    <3>1. pool_held[pool_call[u].pool] = {} /\ \A w \in Threads : pool_call[w].pool = pool_call[u].pool => w = u
      BY <2>2 DEF Pool!PoolInv, Pool!InitAlone
    <3>2. pool_call'[t].pool = None /\ pool_call[u].pool # None
      BY <1>2, <2>2 DEF Pool!PoolInv, Pool!CallsFit
    <3> QED
      BY <1>1, <1>2, <2>2, <3>1, <3>2
  <2>4. \A q \in Pools : ~Pool!Initted(q)' =>
          /\ pool_held'[q] = {}
          /\ \A u \in Threads : pool_call'[u].pool = q => pool_call'[u].op = "init"
    BY <1>1, <1>2, <2>1 DEF Pool!PoolInv, Pool!InitAlone, Pool!PoolAssumption
  <2> QED
    BY <2>3, <2>4 DEF Pool!InitAlone
<1> QED
  BY <1>2, <1>7, <1>11, <1>12, <1>13 DEF Pool!PoolInv

LEMMA PoolNextInv ==
  ASSUME Pool!PoolAssumption, Pool!PoolInv, [Pool!Next]_Pool!vars
  PROVE  Pool!PoolInv'
<1>1. ASSUME NEW t \in Threads, Pool!BuildList(t) \/ Pool!TakeHead(t) \/ Pool!Link(t) \/ Pool!PutHead(t)
      PROVE  Pool!PoolInv'
  <2>1. pool_call[t].op # "none"
    BY <1>1 DEF Pool!BuildList, Pool!TakeHead, Pool!Link, Pool!PutHead
  <2>2. PICK p \in Pools : p = pool_call[t].pool
    BY <2>1 DEF Pool!PoolInv, Pool!TypeOK, Pool!CallsFit
  <2>3. PICK elem : elem = pool_call[t].elem
    OBVIOUS
  <2> QED
    BY <1>1, <2>2, <2>3, BuildListInv, TakeHeadInv, LinkInv, PutHeadInv
<1>2. CASE Pool!Next
  BY <1>1, <1>2, PoolCallInv, PoolFreeInv, PoolLockInv DEF Pool!Next
<1>3. CASE UNCHANGED Pool!vars
  <2>1. UNCHANGED <<mempool_lock_initted, pool_lock, list, freelist, current_used, pool_pc, pool_call, pool_held>>
    BY <1>3 DEF Pool!vars, Pool!pool
  <2>2. Pool!TypeOK' /\ Pool!CallsFit' /\ Pool!GivenBackOnce' /\ Pool!InitAlone'
    BY <2>1 DEF Pool!PoolInv, Pool!TypeOK, Pool!CallsFit, Pool!GivenBackOnce,
       Pool!InitAlone, Pool!Initted
  <2>3. \A q \in Pools : Pool!Out(q)' = Pool!Out(q)
    BY <2>1 DEF Pool!Out, Pool!Returning
  <2>4. Pool!EveryElementAccounted'
    BY <2>1, <2>3, SameAccounts DEF Pool!PoolInv, Pool!EveryElementAccounted
  <2> QED
    BY <2>2, <2>4 DEF Pool!PoolInv
<1> QED
  BY <1>2, <1>3

\* The inductive invariant, for any number of threads and pools.
THEOREM PoolInvariant ==
  ASSUME Pool!PoolAssumption
  PROVE  Pool!Spec => []Pool!PoolInv
<1>1. Pool!Init => Pool!PoolInv
  BY PoolInitInv
<1>2. Pool!PoolInv /\ [Pool!Next]_Pool!vars => Pool!PoolInv'
  BY PoolNextInv
<1> QED
  BY <1>1, <1>2, PTL DEF Pool!Spec

\* However calls overlap: no element is handed out twice or lost, the free list has no cycle
\* and current_used never goes below zero, in pools of any size.
THEOREM EveryElementIsAccounted ==
  ASSUME Pool!PoolAssumption
  PROVE  Pool!Spec => []EveryElementAccounted
<1>1. Pool!PoolInv => EveryElementAccounted
  BY DEF EveryElementAccounted
<1> QED
  BY <1>1, PoolInvariant, PTL

----
(***************************************************************************)
(* Expected.                                                               *)
(***************************************************************************)
LEMMA CellsAre ==
  /\ ~Result!Memory.alive /\ Result!Memory.values = 0
  /\ Result!Nothing.is = "nothing"
  /\ \A v : /\ Result!HoldsValue(v).alive /\ Result!HoldsValue(v).has_value
               /\ Result!HoldsValue(v).values = 1
            /\ Result!HoldsValue(v).member = "value" /\ Result!HoldsValue(v).held = v
            /\ Result!Value(v).is = "value" /\ Result!Value(v).of = v
  /\ \A e : /\ Result!HoldsError(e).alive /\ ~Result!HoldsError(e).has_value
               /\ Result!HoldsError(e).values = 0
            /\ Result!HoldsError(e).member = "error" /\ Result!HoldsError(e).held = e
            /\ Result!Error(e).is = "error" /\ Result!Error(e).of = e
BY DEF Result!Cell, Result!Memory, Result!Nothing, Result!HoldsValue, Result!HoldsError,
   Result!Value,
   Result!Error

\* What the constructors make, and what the destructor leaves.
LEMMA MadeOf ==
  /\ \A v : Result!ConstructValue(Result!Contained(TRUE), v) = Result!HoldsValue(v)
  /\ \A e : Result!SetError(Result!Contained(FALSE), e) = Result!HoldsError(e)
  /\ \A v : Result!Gone(Result!DestructValue(Result!HoldsValue(v))) = Result!Memory
  /\ \A e : Result!Gone(Result!HoldsError(e)) = Result!Memory
<1>1. 0 + 1 = 1 /\ 1 - 1 = 0
  OBVIOUS
<1>2. ASSUME NEW h
      PROVE  Result!Contained(h).alive = TRUE /\ Result!Contained(h).has_value = h
               /\ Result!Contained(h).values = 0
  BY DEF Result!Contained, Result!Cell
<1>3. ASSUME NEW v PROVE Result!DestructValue(Result!HoldsValue(v)).values = 0
  <2>1. Result!HoldsValue(v).values = 1
    BY CellsAre
  <2>2. Result!DestructValue(Result!HoldsValue(v)).values = Result!HoldsValue(v).values - 1
    BY DEF Result!DestructValue, Result!Cell
  <2> QED
    BY <1>1, <2>1, <2>2
<1>4. ASSUME NEW v PROVE Result!ConstructValue(Result!Contained(TRUE), v) = Result!HoldsValue(v)
  BY <1>1, <1>2, Zenon DEF Result!ConstructValue, Result!HoldsValue
<1>5. ASSUME NEW e PROVE Result!SetError(Result!Contained(FALSE), e) = Result!HoldsError(e)
  BY <1>2, Zenon DEF Result!SetError, Result!HoldsError
<1>6. ASSUME NEW v PROVE Result!Gone(Result!DestructValue(Result!HoldsValue(v))) = Result!Memory
  BY <1>3, Zenon DEF Result!Gone, Result!Memory
<1>7. ASSUME NEW e PROVE Result!Gone(Result!HoldsError(e)) = Result!Memory
  BY CellsAre, Zenon DEF Result!Gone, Result!Memory
<1> QED
  BY <1>4, <1>5, <1>6, <1>7

LEMMA CellMoves ==
  ASSUME NEW a, NEW h, NEW m, NEW d, NEW n, NEW left
  PROVE  [Result!Cell(a, h, m, d, n) EXCEPT !.held = left] = Result!Cell(a, h, m, left, n)
BY DEF Result!Cell

\* A moved value is another value.
LEMMA ValueMoves ==
  ASSUME NEW v, NEW left
  PROVE  [Result!HoldsValue(v) EXCEPT !.held = left] = Result!HoldsValue(left)
<1>1. PICK t : t = TRUE
  OBVIOUS
<1>2. \A w : Result!HoldsValue(w) = Result!Cell(t, t, "value", w, 1)
  BY <1>1, Zenon DEF Result!HoldsValue
<1>3. [Result!Cell(t, t, "value", v, 1) EXCEPT !.held = left] = Result!Cell(t, t, "value", left, 1)
  BY CellMoves
<1> QED
  BY <1>2, <1>3

\* A copy holds the converted value, or the same error.
LEMMA CopyHolds ==
  ASSUME NEW as
  PROVE  /\ \A v : Result!CopyOf(Result!HoldsValue(v), as) = Result!HoldsValue(as[v])
         /\ \A e : Result!CopyOf(Result!HoldsError(e), as) = Result!HoldsError(e)
<1>1. /\ Result!Contained(TRUE).has_value = TRUE /\ Result!Contained(FALSE).has_value = FALSE
  BY DEF Result!Contained, Result!Cell
<1>2. ASSUME NEW v PROVE Result!CopyOf(Result!HoldsValue(v), as) = Result!HoldsValue(as[v])
  <2>1. Result!HoldsValue(v).has_value = TRUE /\ Result!HoldsValue(v).held = v
          /\ Result!HoldsValue(v).member = "value"
    BY CellsAre, Zenon
  <2>2. Result!CopyOf(Result!HoldsValue(v), as)
          = Result!ConstructValue(Result!Contained(TRUE), as[Result!Read(Result!HoldsValue(v), "value")])
    BY <1>1, <2>1, Zenon DEF Result!CopyOf
  <2>3. Result!Read(Result!HoldsValue(v), "value") = v
    BY <2>1, Zenon DEF Result!Read
  <2> QED
    BY <2>2, <2>3, MadeOf, Zenon
<1>3. ASSUME NEW e PROVE Result!CopyOf(Result!HoldsError(e), as) = Result!HoldsError(e)
  <2>1. Result!HoldsError(e).has_value = FALSE /\ Result!HoldsError(e).held = e
          /\ Result!HoldsError(e).member = "error"
    BY DEF Result!HoldsError, Result!Cell
  <2>2. Result!CopyOf(Result!HoldsError(e), as)
          = Result!SetError(Result!Contained(FALSE), Result!Read(Result!HoldsError(e), "error"))
    BY <1>1, <2>1, Zenon DEF Result!CopyOf
  <2>3. Result!Read(Result!HoldsError(e), "error") = e
    BY <2>1, Zenon DEF Result!Read
  <2> QED
    BY <2>2, <2>3, MadeOf, Zenon
<1> QED
  BY <1>2, <1>3

\* Memory that is what it should be has its type.
LEMMA MemoryTypes ==
  ASSUME NEW o, NEW m, Result!MemoryIs(o, m)
  PROVE  /\ o \in Result!Storage
         /\ m \in {Result!Value(v) : v \in Result!Contents} \cup {Result!Error(e) : e \in Codes}
            \cup {Result!Nothing}
<1>1. CASE o = Result!Memory /\ m = Result!Nothing
  BY <1>1 DEF Result!Cell, Result!Memory, Result!Storage
<1>2. CASE \E v \in Result!Contents : o = Result!HoldsValue(v) /\ m = Result!Value(v)
  BY <1>2 DEF Result!Cell, Result!HoldsValue, Result!Storage
<1>3. CASE \E e \in Codes : o = Result!HoldsError(e) /\ m = Result!Error(e)
  BY <1>3 DEF Result!Cell, Result!HoldsError, Result!Storage
<1> QED
  BY <1>1, <1>2, <1>3 DEF Result!MemoryIs

LEMMA MemoryOfKinds ==
  /\ Result!MemoryIs(Result!Memory, Result!Nothing)
  /\ \A v \in Result!Contents : Result!MemoryIs(Result!HoldsValue(v), Result!Value(v))
  /\ \A e \in Codes : Result!MemoryIs(Result!HoldsError(e), Result!Error(e))
BY DEF Result!MemoryIs

\* One object changes.
LEMMA OneChanges ==
  ASSUME Result!ExpectedInv, NEW x \in Result!Objects, NEW o, NEW m, Result!MemoryIs(o, m),
         storage' = [storage EXCEPT ![x] = o], means' = [means EXCEPT ![x] = m]
  PROVE  Result!ExpectedInv'
<1>1. /\ storage \in [Result!Objects -> Result!Storage]
      /\ means \in [Result!Objects ->
           {Result!Value(v) : v \in Result!Contents} \cup {Result!Error(e) : e \in Codes} \cup {Result!Nothing}]
  BY DEF Result!ExpectedInv, Result!TypeOK
<1>2. o \in Result!Storage
      /\ m \in {Result!Value(v) : v \in Result!Contents} \cup {Result!Error(e) : e \in Codes}
         \cup {Result!Nothing}
  BY MemoryTypes
<1>3. storage' \in [Result!Objects -> Result!Storage]
  BY <1>1, <1>2
<1>4. means' \in [Result!Objects ->
        {Result!Value(v) : v \in Result!Contents} \cup {Result!Error(e) : e \in Codes} \cup {Result!Nothing}]
  BY <1>1, <1>2
<1>5. ASSUME NEW y \in Result!Objects PROVE Result!MemoryIs(storage'[y], means'[y])
  <2>1. /\ storage'[y] = IF y = x THEN o ELSE storage[y]
        /\ means'[y] = IF y = x THEN m ELSE means[y]
    BY <1>1
  <2> QED
    BY <2>1 DEF Result!ExpectedInv
<1> QED
  BY <1>3, <1>4, <1>5 DEF Result!ExpectedInv, Result!TypeOK

LEMMA MakeKeeps ==
  ASSUME Result!ExpectedInv, NEW x \in Result!Objects, NEW o, NEW m, Result!MemoryIs(o, m), Result!Make(x, o, m)
  PROVE  Result!ExpectedInv'
BY OneChanges DEF Result!Make

\* A live object holds what it means.
LEMMA LiveHolds ==
  ASSUME Result!ExpectedInv, NEW x \in Result!Objects, storage[x].alive
  PROVE  \/ \E v \in Result!Contents : storage[x] = Result!HoldsValue(v) /\ means[x] = Result!Value(v)
         \/ \E e \in Codes : storage[x] = Result!HoldsError(e) /\ means[x] = Result!Error(e)
BY CellsAre, Zenon DEF Result!ExpectedInv, Result!MemoryIs

LEMMA ConversionsAre ==
  ASSUME Result!ExpectedAssumption
  PROVE  Result!Same \in [Result!Contents -> Result!Contents] /\ Result!AsT \in [Result!Contents -> Result!Contents]
<1>1. Result!Same \in [Result!Contents -> Result!Contents]
  BY DEF Result!Same
<1>2. ASSUME NEW v \in Result!Contents
      PROVE  (IF v = MovedFrom THEN MovedFrom ELSE Converted[v]) \in Result!Contents
  BY DEF Result!ExpectedAssumption, Result!Contents
<1> QED
  BY <1>1, <1>2 DEF Result!AsT

\* A copy is what the documentation says.
LEMMA CopyIs ==
  ASSUME Result!ExpectedInv, NEW as \in [Result!Contents -> Result!Contents], NEW other \in Result!Objects,
         storage[other].alive
  PROVE  Result!MemoryIs(Result!CopyOf(storage[other], as), Result!Meaning(other, as))
<1>1. ASSUME NEW v \in Result!Contents, storage[other] = Result!HoldsValue(v), means[other] = Result!Value(v)
      PROVE  Result!MemoryIs(Result!CopyOf(storage[other], as), Result!Meaning(other, as))
  <2>1. Result!CopyOf(storage[other], as) = Result!HoldsValue(as[v])
    BY <1>1, CopyHolds
  <2>2. Result!Value(v).is = "value" /\ Result!Value(v).of = v
    BY CellsAre
  <2>3. Result!Meaning(other, as) = Result!Value(as[v])
    BY <1>1, <2>2, Zenon DEF Result!Meaning
  <2> QED
    BY <2>1, <2>3, MemoryOfKinds
<1>2. ASSUME NEW e \in Codes, storage[other] = Result!HoldsError(e), means[other] = Result!Error(e)
      PROVE  Result!MemoryIs(Result!CopyOf(storage[other], as), Result!Meaning(other, as))
  <2>1. Result!CopyOf(storage[other], as) = Result!HoldsError(e)
    BY <1>2, CopyHolds
  <2>2. Result!Meaning(other, as) = Result!Error(e)
    BY <1>2, CellsAre DEF Result!Meaning
  <2> QED
    BY <2>1, <2>2, MemoryOfKinds
<1> QED
  BY <1>1, <1>2, LiveHolds

LEMMA CopyKeeps ==
  ASSUME Result!ExpectedInv, NEW as \in [Result!Contents -> Result!Contents],
         NEW x \in Result!Objects, NEW other \in Result!Objects, Result!CopyFrom(x, other, as)
  PROVE  Result!ExpectedInv'
<1>1. /\ storage[other].alive
      /\ storage' = [storage EXCEPT ![x] = Result!CopyOf(storage[other], as)]
      /\ means' = [means EXCEPT ![x] = Result!Meaning(other, as)]
  BY DEF Result!CopyFrom, Result!Make
<1> QED
  BY <1>1, CopyIs, OneChanges

\* The source of a move still is what it was, with a value that may be another.
LEMMA MoveKeeps ==
  ASSUME Result!ExpectedInv, NEW as \in [Result!Contents -> Result!Contents],
         NEW x \in Result!Objects, NEW other \in Result!Objects, x # other, Result!MoveFrom(x, other, as)
  PROVE  Result!ExpectedInv'
<1> DEFINE source(left) == IF storage[other].has_value
                           THEN [storage[other] EXCEPT !.held = left]
                           ELSE storage[other]
           meaning(left) == IF means[other].is = "value" THEN Result!Value(left) ELSE means[other]
<1>1. PICK left \in {Result!Read(storage[other], "value"), MovedFrom} :
        /\ storage' =
             [storage EXCEPT ![x] = Result!CopyOf(storage[other], as), ![other] = source(left)]
        /\ means' = [means EXCEPT ![x] = Result!Meaning(other, as), ![other] = meaning(left)]
  BY DEF Result!MoveFrom
<1>2. storage[other].alive
  BY DEF Result!MoveFrom
<1>3. Result!MemoryIs(source(left), meaning(left))
  <2>1. ASSUME NEW v \in Result!Contents, storage[other] = Result!HoldsValue(v),
               means[other] = Result!Value(v)
        PROVE  Result!MemoryIs(source(left), meaning(left))
    <3>1. left \in Result!Contents
      <4>1. Result!Read(storage[other], "value") = v
        BY <2>1, CellsAre DEF Result!Read
      <4> QED
        BY <4>1 DEF Result!Contents
    <3>2. source(left) = Result!HoldsValue(left)
      <4>1. source(left) = [storage[other] EXCEPT !.held = left]
        BY <2>1, CellsAre
      <4> QED
        BY <2>1, <4>1, ValueMoves, ZenonT(60)
    <3>3. meaning(left) = Result!Value(left)
      BY <2>1, CellsAre
    <3> QED
      BY <3>1, <3>2, <3>3, MemoryOfKinds
  <2>2. ASSUME NEW e \in Codes, storage[other] = Result!HoldsError(e), means[other] = Result!Error(e)
        PROVE  Result!MemoryIs(source(left), meaning(left))
    <3>1. source(left) = Result!HoldsError(e)
      BY <2>2, CellsAre
    <3>2. meaning(left) = Result!Error(e)
      BY <2>2, CellsAre
    <3> QED
      BY <3>1, <3>2, MemoryOfKinds
  <2> QED
    BY <1>2, <2>1, <2>2, LiveHolds
<1>4. Result!MemoryIs(Result!CopyOf(storage[other], as), Result!Meaning(other, as))
  BY <1>2, CopyIs
<1> DEFINE o == Result!CopyOf(storage[other], as)
           m == Result!Meaning(other, as)
<1> HIDE DEF source, meaning, o, m
<1>5. /\ storage' = [storage EXCEPT ![x] = o, ![other] = source(left)]
      /\ means' = [means EXCEPT ![x] = m, ![other] = meaning(left)]
      /\ Result!MemoryIs(o, m)
  BY <1>1, <1>4 DEF o, m
<1>6. /\ storage \in [Result!Objects -> Result!Storage]
      /\ means \in [Result!Objects ->
           {Result!Value(v) : v \in Result!Contents} \cup {Result!Error(e) : e \in Codes} \cup {Result!Nothing}]
  BY DEF Result!ExpectedInv, Result!TypeOK
<1>7. DOMAIN storage' = Result!Objects /\ DOMAIN means' = Result!Objects
      /\ storage' = [y \in Result!Objects |-> storage'[y]]
         /\ means' = [y \in Result!Objects |-> means'[y]]
  BY <1>5, <1>6
<1>8. \A y \in Result!Objects : Result!MemoryIs(storage'[y], means'[y])
  <2>1. ASSUME NEW y \in Result!Objects PROVE Result!MemoryIs(storage'[y], means'[y])
    <3>1. /\ storage'[y] = IF y = other THEN source(left) ELSE IF y = x THEN o ELSE storage[y]
          /\ means'[y] = IF y = other THEN meaning(left) ELSE IF y = x THEN m ELSE means[y]
      BY <1>5, <1>6
    <3> QED
      BY <1>3, <1>5, <3>1 DEF Result!ExpectedInv
  <2> QED
    BY <2>1
<1>9. Result!TypeOK'
  BY <1>7, <1>8, MemoryTypes DEF Result!TypeOK
<1> QED
  BY <1>8, <1>9 DEF Result!ExpectedInv

LEMMA DestroyKeeps ==
  ASSUME Result!ExpectedInv, NEW x \in Result!Objects, Result!Destroy(x)
  PROVE  Result!ExpectedInv'
<1>1. storage[x].alive
  BY DEF Result!Destroy
<1> DEFINE o == IF storage[x].has_value THEN Result!Gone(Result!DestructValue(storage[x]))
      ELSE Result!Gone(storage[x])
<1>2. storage' = [storage EXCEPT ![x] = o] /\ means' = [means EXCEPT ![x] = Result!Nothing]
  BY DEF Result!Destroy
<1>3. o = Result!Memory
  BY <1>1, LiveHolds, MadeOf, CellsAre
<1> QED
  BY <1>2, <1>3, MemoryOfKinds, OneChanges

LEMMA ExpectedInvStep ==
  ASSUME Result!ExpectedAssumption, Result!ExpectedInv, [Result!Next]_Result!vars
  PROVE  Result!ExpectedInv'
<1>1. CASE UNCHANGED Result!vars
  BY <1>1 DEF Result!vars, Result!ExpectedInv, Result!TypeOK
<1>2. ASSUME NEW x \in Result!Objects, NEW v \in ResultValues, Result!FromValue(x, v) \/ Result!Default(x, v)
      PROVE  Result!ExpectedInv'
  <2>1. Result!Make(x, Result!HoldsValue(v), Result!Value(v)) /\ v \in Result!Contents
    BY <1>2, MadeOf DEF Result!FromValue, Result!Default, Result!Contents
  <2> QED
    BY <2>1, MakeKeeps, MemoryOfKinds
<1>3. ASSUME NEW x \in Result!Objects, Result!Default(x, CHOOSE v \in ResultValues : TRUE)
             PROVE Result!ExpectedInv'
  <2>1. (CHOOSE v \in ResultValues : TRUE) \in ResultValues
    BY DEF Result!ExpectedAssumption
  <2> QED
    BY <1>2, <1>3, <2>1
<1>4. ASSUME NEW x \in Result!Objects, NEW e \in Codes, Result!FromError(x, e) PROVE Result!ExpectedInv'
  <2>1. Result!Make(x, Result!HoldsError(e), Result!Error(e))
    BY <1>4, MadeOf DEF Result!FromError
  <2> QED
    BY <2>1, MakeKeeps, MemoryOfKinds
<1>5. ASSUME NEW x \in Result!Objects, NEW other \in Result!Objects \ {x},
             \/ Result!Copy(x, other) \/ Result!Move(x, other)
             \/ Result!ConvertingCopy(x, other) \/ Result!ConvertingMove(x, other)
      PROVE  Result!ExpectedInv'
  <2>1. \E as \in {Result!Same, Result!AsT} : Result!CopyFrom(x, other, as) \/ Result!MoveFrom(x, other, as)
    BY <1>5 DEF Result!Copy, Result!Move, Result!ConvertingCopy, Result!ConvertingMove
  <2>2. other \in Result!Objects /\ x # other
    OBVIOUS
  <2> QED
    BY <2>1, <2>2, ConversionsAre, CopyKeeps, MoveKeeps
<1>6. ASSUME NEW x \in Result!Objects, Result!Destroy(x) PROVE Result!ExpectedInv'
  BY <1>6, DestroyKeeps
<1> QED
  BY <1>1, <1>2, <1>3, <1>4, <1>5, <1>6 DEF Result!Next

LEMMA ExpectedInitInv == Result!Init => Result!ExpectedInv
<1> SUFFICES ASSUME Result!Init PROVE Result!ExpectedInv
  OBVIOUS
<1>1. /\ storage = [x \in Result!Objects |-> Result!Memory] /\ means = [x \in Result!Objects |-> Result!Nothing]
      /\ \A x \in Result!Objects : Result!MemoryIs(storage[x], means[x])
  BY MemoryOfKinds DEF Result!Init
<1> QED
  BY <1>1, MemoryTypes DEF Result!ExpectedInv, Result!TypeOK

\* The inductive invariant, for any objects, values and codes.
THEOREM ExpectedInvariant ==
  ASSUME Result!ExpectedAssumption PROVE Result!Spec => []Result!ExpectedInv
BY ExpectedInitInv, ExpectedInvStep, PTL DEF Result!Spec

\* A value is alive in an Expected just while it says it has one, and it answers
\* every question as the value or code that it stands for (error.h).
THEOREM ExpectedIsValueOrError ==
  ASSUME Result!ExpectedAssumption PROVE Result!Spec => []ValueOrError
<1>1. ASSUME Result!ExpectedInv PROVE Result!ValuesLiveOnce
  <2> SUFFICES ASSUME NEW x \in Result!Objects
               PROVE  storage[x].values = IF storage[x].alive /\ Result!has_value(x) THEN 1 ELSE 0
    BY DEF Result!ValuesLiveOnce
  <2> QED
    BY <1>1, CellsAre DEF Result!ExpectedInv, Result!MemoryIs, Result!has_value
<1>2. ASSUME Result!ExpectedInv PROVE Result!AnswersAsItMeans
  <2> SUFFICES ASSUME NEW x \in Result!Objects, storage[x].alive
      PROVE  /\ Result!has_value(x) <=> means[x].is = "value"
             /\ Result!value(x) = (IF means[x].is = "value" THEN means[x]
                            ELSE [is |-> "BadExpectedAccess", of |-> means[x].of])
             /\ \A v \in Result!Contents :
                  /\ Result!value_or(x, v) = (IF means[x].is = "value" THEN means[x].of ELSE v)
                  /\ Result!EqualValue(x, v) <=> means[x] = Result!Value(v)
             /\ \A e \in Codes : Result!EqualCode(x, e) <=> means[x] = Result!Error(e)
             /\ \A y \in Result!Objects : storage[y].alive => (Result!Equal(x, y) <=> means[x] = means[y])
    BY DEF Result!AnswersAsItMeans
  <2>1. /\ \A v, w : Result!Value(v) = Result!Value(w) <=> v = w
        /\ \A v, w : Result!Error(v) = Result!Error(w) <=> v = w
        /\ \A v, w : Result!Value(v) # Result!Error(w)
    BY CellsAre
  <2>2. ASSUME NEW y \in Result!Objects, NEW v, storage[y] = Result!HoldsValue(v)
        PROVE  Result!has_value(y) /\ Result!Star(y) = v /\ Result!Read(storage[y], "value") = v
    BY <2>2, CellsAre DEF Result!has_value, Result!Star, Result!Read
  <2>3. ASSUME NEW y \in Result!Objects, NEW e, storage[y] = Result!HoldsError(e)
        PROVE  ~Result!has_value(y) /\ Result!error_code(y) = e /\ Result!Read(storage[y], "error") = e
    BY <2>3, CellsAre DEF Result!has_value, Result!error_code, Result!Read
  <2>4. ASSUME NEW v \in Result!Contents, storage[x] = Result!HoldsValue(v), means[x] = Result!Value(v)
        PROVE  /\ Result!has_value(x) <=> means[x].is = "value"
               /\ Result!value(x) = (IF means[x].is = "value" THEN means[x]
                              ELSE [is |-> "BadExpectedAccess", of |-> means[x].of])
               /\ \A w \in Result!Contents :
                    /\ Result!value_or(x, w) = (IF means[x].is = "value" THEN means[x].of ELSE w)
                    /\ Result!EqualValue(x, w) <=> means[x] = Result!Value(w)
               /\ \A c \in Codes : Result!EqualCode(x, c) <=> means[x] = Result!Error(c)
               /\ \A y \in Result!Objects : storage[y].alive =>
                  (Result!Equal(x, y) <=> means[x] = means[y])
    <3>1. Result!has_value(x) /\ means[x].is = "value" /\ means[x].of = v
      BY <2>4, <2>2, CellsAre
    <3>2. Result!value(x) = means[x]
      BY <2>4, <2>2, <3>1 DEF Result!value
    <3>3. ASSUME NEW w \in Result!Contents
          PROVE  /\ Result!value_or(x, w) = v
                 /\ Result!EqualValue(x, w) <=> means[x] = Result!Value(w)
      BY <2>1, <2>2, <2>4, <3>1 DEF Result!value_or, Result!EqualValue
    <3>4. ASSUME NEW c \in Codes PROVE Result!EqualCode(x, c) <=> means[x] = Result!Error(c)
      BY <2>1, <2>2, <2>4, <3>1 DEF Result!EqualCode
    <3>5. ASSUME NEW y \in Result!Objects, storage[y].alive PROVE Result!Equal(x, y) <=>
                 means[x] = means[y]
      <4>1. ASSUME NEW w \in Result!Contents, storage[y] = Result!HoldsValue(w), means[y] = Result!Value(w)
            PROVE  Result!Equal(x, y) <=> means[x] = means[y]
        <5>1. Result!has_value(x) /\ Result!has_value(y) /\ Result!Star(x) = v /\ Result!Star(y) = w
          BY <2>2, <2>4, <4>1
        <5>2. means[x] = means[y] <=> v = w
          BY <2>1, <2>4, <4>1
        <5> QED
          BY <5>1, <5>2 DEF Result!Equal
      <4>2. ASSUME NEW c \in Codes, storage[y] = Result!HoldsError(c), means[y] = Result!Error(c)
            PROVE  Result!Equal(x, y) <=> means[x] = means[y]
        BY <2>1, <2>2, <2>3, <2>4, <4>2 DEF Result!Equal
      <4> QED
        BY <1>2, <3>5, <4>1, <4>2, LiveHolds
    <3> QED
      BY <3>1, <3>2, <3>3, <3>4, <3>5
  <2>5. ASSUME NEW e \in Codes, storage[x] = Result!HoldsError(e), means[x] = Result!Error(e)
        PROVE  /\ Result!has_value(x) <=> means[x].is = "value"
               /\ Result!value(x) = (IF means[x].is = "value" THEN means[x]
                              ELSE [is |-> "BadExpectedAccess", of |-> means[x].of])
               /\ \A w \in Result!Contents :
                    /\ Result!value_or(x, w) = (IF means[x].is = "value" THEN means[x].of ELSE w)
                    /\ Result!EqualValue(x, w) <=> means[x] = Result!Value(w)
               /\ \A c \in Codes : Result!EqualCode(x, c) <=> means[x] = Result!Error(c)
               /\ \A y \in Result!Objects : storage[y].alive =>
                  (Result!Equal(x, y) <=> means[x] = means[y])
    <3>1. ~Result!has_value(x) /\ means[x].is # "value" /\ means[x].of = e
      BY <2>5, <2>3, CellsAre
    <3>2. Result!value(x) = [is |-> "BadExpectedAccess", of |-> means[x].of]
      BY <2>5, <2>3, <3>1 DEF Result!value
    <3>3. ASSUME NEW w \in Result!Contents
          PROVE  /\ Result!value_or(x, w) = w
                 /\ Result!EqualValue(x, w) <=> means[x] = Result!Value(w)
      BY <2>1, <2>3, <2>5, <3>1 DEF Result!value_or, Result!EqualValue
    <3>4. ASSUME NEW c \in Codes PROVE Result!EqualCode(x, c) <=> means[x] = Result!Error(c)
      BY <2>1, <2>3, <2>5, <3>1 DEF Result!EqualCode
    <3>5. ASSUME NEW y \in Result!Objects, storage[y].alive PROVE Result!Equal(x, y) <=>
                 means[x] = means[y]
      <4>1. ASSUME NEW w \in Result!Contents, storage[y] = Result!HoldsValue(w), means[y] = Result!Value(w)
            PROVE  Result!Equal(x, y) <=> means[x] = means[y]
        BY <2>1, <2>2, <2>3, <2>5, <4>1 DEF Result!Equal
      <4>2. ASSUME NEW c \in Codes, storage[y] = Result!HoldsError(c), means[y] = Result!Error(c)
            PROVE  Result!Equal(x, y) <=> means[x] = means[y]
        <5>1. Result!error_code(x) = e /\ Result!error_code(y) = c
          BY <2>3, <2>5, <4>2
        <5>3. Result!has_value(x) = FALSE /\ Result!has_value(y) = FALSE
          BY <2>5, <4>2 DEF Result!has_value, Result!HoldsError, Result!Cell
        <5>2. means[x] = means[y] <=> e = c
          BY <2>1, <2>5, <4>2
        <5> QED
          BY <5>1, <5>2, <5>3, Zenon DEF Result!Equal
      <4> QED
        BY <1>2, <3>5, <4>1, <4>2, LiveHolds
    <3> QED
      BY <3>1, <3>2, <3>3, <3>4, <3>5
  <2> QED
    BY <1>2, <2>4, <2>5, LiveHolds
<1> QED
  BY <1>1, <1>2, ExpectedInvariant, PTL DEF ValueOrError, Result!ValueOrError

----
(***************************************************************************)
(* C logging.                                                              *)
(***************************************************************************)
\* C logging.  Headers: their sizes, and what is clean in them.
FieldTypes == [len : Nat, clean : BOOLEAN]

IsClean(field) == field.clean \/ field = CLogging!make_legacy_syslog_timestamp

\* The size of a header of one, two, four or eight fields.
LEMMA SizesAre ==
  ASSUME NEW s \in Seq(FieldTypes), NEW m \in Nat
  PROVE  /\ Len(s) = 1 => CLogging!Size(s, m) = s[1].len + m
         /\ Len(s) = 2 => CLogging!Size(s, m) = s[1].len + s[2].len + m
         /\ Len(s) = 4 => CLogging!Size(s, m) = s[1].len + s[2].len + s[3].len + s[4].len + m
         /\ Len(s) = 8 => CLogging!Size(s, m) = s[1].len + s[2].len + s[3].len + s[4].len
                                        + s[5].len + s[6].len + s[7].len + s[8].len + m
<1>1. \A k \in DOMAIN s : s[k].len \in Nat
  <2> SUFFICES ASSUME NEW k \in DOMAIN s PROVE s[k].len \in Nat
    OBVIOUS
  <2>1. s[k] \in FieldTypes
    OBVIOUS
  <2> QED
    BY <2>1 DEF FieldTypes
<1>2. DOMAIN s = 1 .. Len(s)
  OBVIOUS
<1>3. CASE Len(s) = 1
  BY <1>1, <1>2, <1>3 DEF CLogging!Size
<1>4. CASE Len(s) = 2
  BY <1>1, <1>2, <1>4 DEF CLogging!Size
<1>5. CASE Len(s) = 4
  BY <1>1, <1>2, <1>5 DEF CLogging!Size
<1>6. CASE Len(s) = 8
  BY <1>1, <1>2, <1>6 DEF CLogging!Size
<1> QED
  BY <1>3, <1>4, <1>5, <1>6

LEMMA SanitizedIs ==
  ASSUME NEW max, NEW f \in CLogging!Texts(max)
  PROVE  CLogging!sanitize_str(f) \in CLogging!Texts(max)
<1>1. f \in [len : 0 .. max, clean : BOOLEAN]
  BY DEF CLogging!Texts
<1>2. CLogging!sanitize_str(f) \in [len : 0 .. max, clean : BOOLEAN]
  BY <1>1 DEF CLogging!sanitize_str
<1> QED
  BY <1>2 DEF CLogging!Texts

LEMMA SanitizedIsClean ==
  ASSUME NEW max, NEW f \in CLogging!Texts(max)
  PROVE  CLogging!sanitize_str(f).clean
<1>1. f \in [len : 0 .. max, clean : BOOLEAN]
  BY DEF CLogging!Texts
<1> QED
  BY <1>1 DEF CLogging!sanitize_str

\* What etcpal_validate_log_params leaves of parameters.
LEMMA ParamsAre ==
  ASSUME CLogging!CLogAssumption, NEW params \in CLogging!Params, NEW p, p = params.syslog_params
  PROVE  /\ params.action \subseteq CLogging!Kinds
         /\ p.facility \in 0 .. 1016
         /\ p.hostname \in CLogging!Texts(255) /\ p.app_name \in CLogging!Texts(48)
         /\ p.procid \in CLogging!Texts(128)
         /\ p.hostname.len \in 0 .. 255 /\ p.app_name.len \in 0 .. 48
         /\ p.procid.len \in 0 .. 128
         /\ params.action \cap {"syslog", "legacy"} # {} =>
              p.hostname.clean /\ p.app_name.clean /\ p.procid.clean
<1>1. PICK q \in CLogging!ParamTypes : params = CLogging!etcpal_validate_log_params(q)
  BY DEF CLogging!Params, CLogging!CLogAssumption
<1>2. PICK r : r = q.syslog_params
  OBVIOUS
<1>3. /\ r.facility \in 0 .. 1016 /\ q.action \subseteq CLogging!Kinds
      /\ r.hostname \in CLogging!Texts(255) /\ r.app_name \in CLogging!Texts(48) /\ r.procid \in CLogging!Texts(128)
  BY <1>2 DEF CLogging!ParamTypes
<1>4. /\ CLogging!sanitize_str(r.hostname) \in CLogging!Texts(255)
         /\ CLogging!sanitize_str(r.app_name) \in CLogging!Texts(48)
      /\ CLogging!sanitize_str(r.procid) \in CLogging!Texts(128)
      /\ CLogging!sanitize_str(r.hostname).clean /\ CLogging!sanitize_str(r.app_name).clean
      /\ CLogging!sanitize_str(r.procid).clean
      /\ r.hostname.len \in 0 .. 255 /\ CLogging!sanitize_str(r.hostname).len \in 0 .. 255
      /\ r.app_name.len \in 0 .. 48 /\ CLogging!sanitize_str(r.app_name).len \in 0 .. 48
      /\ r.procid.len \in 0 .. 128 /\ CLogging!sanitize_str(r.procid).len \in 0 .. 128
  <2>1. PICK h, n, d : h = 255 /\ n = 48 /\ d = 128
    OBVIOUS
  <2>2. r.hostname \in CLogging!Texts(h) /\ r.app_name \in CLogging!Texts(n) /\ r.procid \in CLogging!Texts(d)
    BY <1>3, <2>1
  <2>3. /\ CLogging!sanitize_str(r.hostname) \in CLogging!Texts(h)
           /\ CLogging!sanitize_str(r.app_name) \in CLogging!Texts(n)
        /\ CLogging!sanitize_str(r.procid) \in CLogging!Texts(d)
        /\ CLogging!sanitize_str(r.hostname).clean /\ CLogging!sanitize_str(r.app_name).clean
        /\ CLogging!sanitize_str(r.procid).clean
    BY <2>2, SanitizedIs, SanitizedIsClean, Zenon
  <2>4. \A m : \A f \in CLogging!Texts(m) : f.len \in 0 .. m
    BY DEF CLogging!Texts
  <2>5. /\ r.hostname.len \in 0 .. h /\ CLogging!sanitize_str(r.hostname).len \in 0 .. h
        /\ r.app_name.len \in 0 .. n /\ CLogging!sanitize_str(r.app_name).len \in 0 .. n
        /\ r.procid.len \in 0 .. d /\ CLogging!sanitize_str(r.procid).len \in 0 .. d
    BY <2>2, <2>3, <2>4, Zenon
  <2> QED
    BY <2>1, <2>3, <2>5
<1>5. CASE q.action \cap {"syslog", "legacy"} = {}
  <2>1. params = q
    BY <1>1, <1>5 DEF CLogging!etcpal_validate_log_params
  <2> QED
    BY ZenonT(60), <1>2, <1>3, <1>4, <1>5, <2>1
<1>6. CASE q.action \cap {"syslog", "legacy"} # {}
  <2>1. params.action = q.action /\ params.syslog_params = CLogging!etcpal_sanitize_syslog_params(r)
    BY <1>1, <1>2, <1>6 DEF CLogging!etcpal_validate_log_params, CLogging!ParamTypes
  <2>2. /\ params.syslog_params.facility \in {136, r.facility}
        /\ params.syslog_params.hostname = CLogging!sanitize_str(r.hostname)
        /\ params.syslog_params.app_name = CLogging!sanitize_str(r.app_name)
        /\ params.syslog_params.procid = CLogging!sanitize_str(r.procid)
    BY <2>1 DEF CLogging!etcpal_sanitize_syslog_params
  <2> QED
    BY SMTT(120), <1>3, <1>4, <2>1, <2>2
<1> QED
  BY <1>5, <1>6

LEMMA ActionsAre ==
  ASSUME CLogging!CLogAssumption
  PROVE  \A params \in CLogging!Params : params.action \subseteq CLogging!Kinds
BY ParamsAre

\* A string in a buffer that has room for its header, and for a message of some length.
LEMMA WholeString ==
  ASSUME CLogging!CLogAssumption, NEW t, NEW fields, NEW size \in Nat, NEW limit \in Nat,
         NEW buflen \in Nat,
         NEW len \in Nat, size < limit, size < buflen,
         \A l \in DOMAIN fields : IsClean(fields[l]),
         CLogging!Formatted(t, fields, size, limit, buflen, len) # None
  PROVE  /\ CLogging!IsWhole(CLogging!Formatted(t, fields, size, limit, buflen, len))
         /\ size + 1 + CLogging!RAW_MSG_MAX_LEN <= buflen =>
              CLogging!Formatted(t, fields, size, limit, buflen, len).message
                >= CLogging!Least(len, CLogging!RAW_MSG_MAX_LEN)
<1> DEFINE text == CLogging!Formatted(t, fields, size, limit, buflen, len)
<1>1. /\ text.fields = fields /\ text.whole = (size < limit) /\ text.inside = (size < buflen)
      /\ text.message = CLogging!Least(len, buflen - size - 1)
  BY DEF CLogging!Formatted
<1>2. CLogging!IsWhole(text)
  <2> HIDE DEF text
  <2> QED
    BY <1>1 DEF CLogging!IsWhole, IsClean, text
<1>3. size + 1 + CLogging!RAW_MSG_MAX_LEN <= buflen => text.message >= CLogging!Least(len, CLogging!RAW_MSG_MAX_LEN)
  <2> HIDE DEF text
  <2> QED
    BY <1>1 DEF CLogging!Least, CLogging!RAW_MSG_MAX_LEN
<1> QED
  BY <1>2, <1>3

\* A call that logs, and the parts of its headers.
IsCall(c) ==
  /\ c.params \in CLogging!Params /\ c.pri \in 0 .. 7 /\ c.len \in Nat
     /\ c.stamp \in CLogging!Stamps \cup {None}

LEMMA FieldsAre ==
  ASSUME NEW n \in Nat
  PROVE  CLogging!Field(n) \in FieldTypes /\ CLogging!Field(n).len = n /\ CLogging!Field(n).clean
BY DEF CLogging!Field, FieldTypes

LEMMA StringsAreNotNone ==
  ASSUME CLogging!CLogAssumption, NEW t \in Threads, NEW fields \in Seq(FieldTypes), NEW size \in Nat,
         NEW limit \in Nat, NEW buflen \in Nat, NEW len \in Nat
  PROVE  CLogging!Formatted(t, fields, size, limit, buflen, len) # None
<1>1. CLogging!Least(len, buflen - size - 1) \in Int /\ (size < limit) \in BOOLEAN
        /\ (size < buflen) \in BOOLEAN
  BY DEF CLogging!Least
<1>2. CLogging!Formatted(t, fields, size, limit, buflen, len)
        \in [by : Threads, fields : Seq([len : Nat, clean : BOOLEAN]), whole : BOOLEAN,
             inside : BOOLEAN, message : Int]
  BY <1>1 DEF CLogging!Formatted, FieldTypes
<1> QED
  BY <1>2 DEF CLogging!CLogAssumption

LEMMA HumanIsWhole ==
  ASSUME CLogging!CLogAssumption, NEW t \in Threads, NEW c, IsCall(c), NEW buflen \in Nat,
         buflen >= CLogging!MinLen["human"]
  PROVE  /\ CLogging!IsWhole(CLogging!create_log_str(t, c, buflen))
         /\ buflen = CLogging!BufLen["human"] =>
              CLogging!create_log_str(t, c, buflen).message >= CLogging!Least(c.len, CLogging!RAW_MSG_MAX_LEN)
<1> DEFINE time == CLogging!make_iso_timestamp(c.stamp)
<1>1. /\ time \in FieldTypes /\ time.len \in {24, 29} /\ time.clean
      /\ CLogging!Field(6) \in FieldTypes /\ CLogging!Field(6).len = 6 /\ CLogging!Field(6).clean
  BY FieldsAre DEF CLogging!make_iso_timestamp
<1> HIDE DEF time
<1>2. PICK fields \in {<<time, CLogging!Field(6)>>, <<CLogging!Field(6)>>} :
        CLogging!create_log_str(t, c, buflen)
          = CLogging!Formatted(t, fields, CLogging!Size(fields, Len(fields)), CLogging!LOG_STR_MIN_LEN + 1, buflen, c.len)
  BY DEF CLogging!create_log_str, time
<1>3. PICK f : f = CLogging!Field(6)
  OBVIOUS
<1>4. /\ CLogging!Size(fields, Len(fields)) \in 0 .. 37 /\ fields \in Seq(FieldTypes)
      /\ \A l \in DOMAIN fields : IsClean(fields[l])
  <2>1. /\ time \in FieldTypes /\ f \in FieldTypes /\ time.len \in {24, 29} /\ f.len = 6
    BY <1>1, <1>3
  <2>2. IsClean(time) /\ IsClean(f)
    BY <1>1, <1>3 DEF IsClean
  <2>3. CASE fields = <<time, f>>
    <3>1. fields \in Seq(FieldTypes) /\ Len(fields) = 2 /\ fields[1] = time /\ fields[2] = f
      BY <2>1, <2>3
    <3>2. CLogging!Size(fields, 2) = time.len + f.len + 2
      BY <3>1, SizesAre
    <3>3. \A l \in DOMAIN fields : l = 1 \/ l = 2
      BY <3>1
    <3>6. PICK x \in 0 .. 29 : time.len = x
      BY <2>1
    <3>7. f.len = 6 /\ Len(fields) = 2
      BY <2>1, <3>1
    <3>4. CLogging!Size(fields, Len(fields)) \in 0 .. 37
      BY <3>2, <3>6, <3>7
    <3>5. \A l \in DOMAIN fields : IsClean(fields[l])
      BY <2>2, <3>1, <3>3
    <3> QED
      BY <3>1, <3>4, <3>5
  <2>4. CASE fields = <<f>>
    <3>1. fields \in Seq(FieldTypes) /\ Len(fields) = 1 /\ fields[1] = f
      BY <2>1, <2>4
    <3>2. CLogging!Size(fields, 1) = f.len + 1
      BY <3>1, SizesAre
    <3>3. \A l \in DOMAIN fields : l = 1
      BY <3>1
    <3>4. CLogging!Size(fields, Len(fields)) \in 0 .. 37
      BY <2>1, <3>1, <3>2
    <3>5. \A l \in DOMAIN fields : IsClean(fields[l])
      BY <2>2, <3>1, <3>3
    <3> QED
      BY <3>1, <3>4, <3>5
  <2> QED
    BY <1>2, <1>3, <2>3, <2>4
<1>10. PICK size \in 0 .. 37 : size = CLogging!Size(fields, Len(fields))
  BY <1>4
<1>5. CLogging!LOG_STR_MIN_LEN + 1 = 39 /\ CLogging!MinLen["human"] = 38
        /\ CLogging!BufLen["human"] = 38 + CLogging!RAW_MSG_MAX_LEN
      /\ CLogging!RAW_MSG_MAX_LEN \in Nat
  BY DEF CLogging!LOG_STR_MIN_LEN, CLogging!TIMESTAMP_LEN, CLogging!MinLen, CLogging!BufLen,
     CLogging!RAW_MSG_MAX_LEN
<1>6. size < 39 /\ size < buflen /\ 39 \in Nat /\ size \in Nat /\ c.len \in Nat
  BY <1>5 DEF IsCall
<1>7. CLogging!Formatted(t, fields, size, 39, buflen, c.len) # None
  BY <1>4, <1>6, StringsAreNotNone
<1>8. /\ CLogging!IsWhole(CLogging!Formatted(t, fields, size, 39, buflen, c.len))
      /\ size + 1 + CLogging!RAW_MSG_MAX_LEN <= buflen =>
           CLogging!Formatted(t, fields, size, 39, buflen, c.len).message
             >= CLogging!Least(c.len, CLogging!RAW_MSG_MAX_LEN)
  BY <1>4, <1>6, <1>7, WholeString
<1>9. buflen = CLogging!BufLen["human"] => size + 1 + CLogging!RAW_MSG_MAX_LEN <= buflen
  BY <1>5
<1> QED
  BY <1>2, <1>5, <1>8, <1>9, <1>10

\* Privals have four digits at the most, and empty fields become a dash.
LEMMA PrivalIs ==
  ASSUME NEW p, p.facility \in 0 .. 1016, NEW pri \in 0 .. 7
  PROVE  CLogging!Prival(p, pri) \in FieldTypes /\ CLogging!Prival(p, pri).len \in 0 .. 6
           /\ CLogging!Prival(p, pri).clean
<1>1. CLogging!Digits(p.facility + pri) + 2 \in 0 .. 6
  BY DEF CLogging!Digits
<1> QED
  BY <1>1, FieldsAre DEF CLogging!Prival

LEMMA OrNilIs ==
  ASSUME NEW max \in Nat, max > 0, NEW text \in CLogging!Texts(max)
  PROVE  CLogging!OrNil(text) \in FieldTypes /\ CLogging!OrNil(text).len \in 0 .. max
           /\ (text.clean => CLogging!OrNil(text).clean)
<1>1. text \in FieldTypes /\ text.len \in 0 .. max
  BY DEF CLogging!Texts, FieldTypes
<1> QED
  BY <1>1, FieldsAre DEF CLogging!OrNil

\* The parameters that a call hands to the system's logs.
FieldsFit(p) ==
  /\ p.facility \in 0 .. 1016
  /\ p.hostname \in CLogging!Texts(255) /\ p.app_name \in CLogging!Texts(48)
  /\ p.procid \in CLogging!Texts(128)
  /\ p.app_name.len \in 0 .. 48 /\ p.procid.len \in 0 .. 128

FieldsClean(p) == p.hostname.clean /\ p.app_name.clean /\ p.procid.clean

Sanitized(params) == params.action \cap {"syslog", "legacy"} # {}

LEMMA CallParamsAre ==
  ASSUME CLogging!CLogAssumption, NEW c, IsCall(c), Sanitized(c.params)
  PROVE  FieldsFit(c.params.syslog_params) /\ FieldsClean(c.params.syslog_params)
<1>1. c.params \in CLogging!Params
  BY DEF IsCall
<1>2. \A params \in CLogging!Params : FieldsFit(params.syslog_params)
  BY ParamsAre DEF FieldsFit
<1>3. \A params \in CLogging!Params : Sanitized(params) => FieldsClean(params.syslog_params)
  BY ParamsAre DEF FieldsClean, Sanitized
<1> QED
  BY <1>1, <1>2, <1>3


LEMMA SyslogIsWhole ==
  ASSUME CLogging!CLogAssumption, NEW t \in Threads, NEW c, IsCall(c), "syslog" \in c.params.action,
         NEW buflen \in Nat, buflen >= CLogging!MinLen["syslog"]
  PROVE  /\ CLogging!IsWhole(CLogging!create_syslog_str(t, c, buflen))
         /\ buflen = CLogging!BufLen["syslog"] =>
              CLogging!create_syslog_str(t, c, buflen).message >= CLogging!Least(c.len, CLogging!RAW_MSG_MAX_LEN)
<1>1. PICK p : p = c.params.syslog_params
  OBVIOUS
<1>2. /\ p.facility \in 0 .. 1016 /\ c.pri \in 0 .. 7
      /\ p.hostname \in CLogging!Texts(255) /\ p.app_name \in CLogging!Texts(48) /\ p.procid \in CLogging!Texts(128)
      /\ p.hostname.clean /\ p.app_name.clean /\ p.procid.clean
  <2>1. Sanitized(c.params) /\ c.pri \in 0 .. 7
    BY DEF Sanitized, IsCall
  <2>2. FieldsFit(p) /\ FieldsClean(p)
    BY <1>1, <2>1, CallParamsAre
  <2> QED
    BY <2>1, <2>2 DEF FieldsFit, FieldsClean
<1>3. PICK a : a = CLogging!Prival(p, c.pri)
  OBVIOUS
<1>4. PICK time : time = IF CLogging!HasTime(c.stamp) THEN CLogging!make_iso_timestamp(c.stamp) ELSE CLogging!Field(1)
  OBVIOUS
<1>5. PICK h, n, l, v : h = CLogging!OrNil(p.hostname) /\ n = CLogging!OrNil(p.app_name)
        /\ l = CLogging!OrNil(p.procid) /\ v = CLogging!Field(1)
  OBVIOUS
<1>6. /\ a \in FieldTypes /\ a.len \in 0 .. 6 /\ a.clean
      /\ time \in FieldTypes /\ time.len \in 0 .. 29 /\ time.clean
      /\ v \in FieldTypes /\ v.len = 1 /\ v.clean
  BY <1>2, <1>3, <1>4, <1>5, PrivalIs, FieldsAre DEF CLogging!make_iso_timestamp
<1>7. /\ h \in FieldTypes /\ h.len \in 0 .. 255 /\ h.clean
      /\ n \in FieldTypes /\ n.len \in 0 .. 48 /\ n.clean
      /\ l \in FieldTypes /\ l.len \in 0 .. 128 /\ l.clean
  <2>1. /\ p.hostname \in CLogging!Texts(255) /\ p.hostname.clean /\ h = CLogging!OrNil(p.hostname)
        /\ 255 \in Nat /\ 255 > 0
    BY <1>2, <1>5
  <2>2. /\ p.app_name \in CLogging!Texts(48) /\ p.app_name.clean /\ n = CLogging!OrNil(p.app_name)
        /\ 48 \in Nat /\ 48 > 0
    BY <1>2, <1>5
  <2>3. /\ p.procid \in CLogging!Texts(128) /\ p.procid.clean /\ l = CLogging!OrNil(p.procid)
        /\ 128 \in Nat /\ 128 > 0
    BY <1>2, <1>5
  <2>4. h \in FieldTypes /\ h.len \in 0 .. 255 /\ h.clean
    BY <2>1, OrNilIs
  <2>5. n \in FieldTypes /\ n.len \in 0 .. 48 /\ n.clean
    BY <2>2, OrNilIs
  <2>6. l \in FieldTypes /\ l.len \in 0 .. 128 /\ l.clean
    BY <2>3, OrNilIs
  <2> QED
    BY <2>4, <2>5, <2>6
<1>8. PICK fields : fields = <<a, v, time, h, n, l, v, v>>
  OBVIOUS
<1>9. CLogging!create_syslog_str(t, c, buflen)
        = CLogging!Formatted(t, fields, CLogging!Size(fields, 7), CLogging!HEADER_MAX_LEN, buflen, c.len)
  BY <1>1, <1>3, <1>4, <1>5, <1>8 DEF CLogging!create_syslog_str
<1>10. /\ fields \in Seq(FieldTypes) /\ Len(fields) = 8
       /\ fields[1] = a /\ fields[2] = v /\ fields[3] = time /\ fields[4] = h
       /\ fields[5] = n /\ fields[6] = l /\ fields[7] = v /\ fields[8] = v
  <2>1. /\ a \in FieldTypes /\ v \in FieldTypes /\ time \in FieldTypes
        /\ h \in FieldTypes /\ n \in FieldTypes /\ l \in FieldTypes
    BY <1>6, <1>7
  <2> QED
    BY <1>8, <2>1
<1>11. PICK size \in 0 .. 476 : size = CLogging!Size(fields, 7)
  <2>1. PICK x1 \in 0 .. 6, x2 \in 0 .. 29, x3 \in 0 .. 255, x4 \in 0 .. 48, x5 \in 0 .. 128 :
          a.len = x1 /\ time.len = x2 /\ h.len = x3 /\ n.len = x4 /\ l.len = x5
    <3>1. a.len \in 0 .. 6 /\ time.len \in 0 .. 29 /\ h.len \in 0 .. 255
      BY <1>6, <1>7
    <3>2. n.len \in 0 .. 48 /\ l.len \in 0 .. 128
      BY <1>7
    <3> QED
      BY <3>1, <3>2, Zenon
  <2>4. v.len = 1
    BY <1>6
  <2>5. CLogging!Size(fields, 7) = fields[1].len + fields[2].len + fields[3].len + fields[4].len
                          + fields[5].len + fields[6].len + fields[7].len + fields[8].len + 7
    BY <1>10, SizesAre
  <2>2. CLogging!Size(fields, 7) = x1 + 1 + x2 + x3 + x4 + x5 + 1 + 1 + 7
    BY <1>10, <2>1, <2>4, <2>5
  <2>3. x1 + 1 + x2 + x3 + x4 + x5 + 1 + 1 + 7 \in 0 .. 476
    OBVIOUS
  <2> QED
    BY <2>2, <2>3
<1>17. \A k \in DOMAIN fields : IsClean(fields[k])
  <2>1. /\ IsClean(a) /\ IsClean(v) /\ IsClean(time)
        /\ IsClean(h) /\ IsClean(n) /\ IsClean(l)
    BY <1>6, <1>7 DEF IsClean
  <2>2. \A k \in DOMAIN fields : \/ k = 1 \/ k = 2 \/ k = 3 \/ k = 4
                                 \/ k = 5 \/ k = 6 \/ k = 7 \/ k = 8
    BY <1>10
  <2> QED
    BY <1>10, <2>1, <2>2
<1>12. CLogging!HEADER_MAX_LEN = 477 /\ CLogging!MinLen["syslog"] = 477
         /\ CLogging!BufLen["syslog"] = 478 + CLogging!RAW_MSG_MAX_LEN
       /\ CLogging!RAW_MSG_MAX_LEN \in Nat
  BY DEF CLogging!HEADER_MAX_LEN, CLogging!TIMESTAMP_LEN, CLogging!MinLen, CLogging!BufLen,
     CLogging!RAW_MSG_MAX_LEN
<1>13. size < 477 /\ size < buflen /\ 477 \in Nat /\ size \in Nat /\ c.len \in Nat
  BY <1>12 DEF IsCall
<1>14. CLogging!Formatted(t, fields, size, 477, buflen, c.len) # None
  BY <1>10, <1>13, StringsAreNotNone
<1>15. /\ CLogging!IsWhole(CLogging!Formatted(t, fields, size, 477, buflen, c.len))
       /\ size + 1 + CLogging!RAW_MSG_MAX_LEN <= buflen =>
            CLogging!Formatted(t, fields, size, 477, buflen, c.len).message
              >= CLogging!Least(c.len, CLogging!RAW_MSG_MAX_LEN)
  BY <1>13, <1>14, <1>17, WholeString
<1>16. buflen = CLogging!BufLen["syslog"] => size + 1 + CLogging!RAW_MSG_MAX_LEN <= buflen
  BY <1>12
<1> QED
  BY <1>9, <1>11, <1>12, <1>15, <1>16

LEMMA LegacyIsWhole ==
  ASSUME CLogging!CLogAssumption, NEW t \in Threads, NEW c, IsCall(c), "legacy" \in c.params.action,
         NEW buflen \in Nat, buflen >= CLogging!MinLen["legacy"]
  PROVE  /\ CLogging!IsWhole(CLogging!create_legacy_syslog_str(t, c, buflen))
         /\ buflen = CLogging!BufLen["legacy"] =>
              CLogging!create_legacy_syslog_str(t, c, buflen).message
                >= CLogging!Least(c.len, CLogging!RAW_MSG_MAX_LEN)
<1>1. PICK p : p = c.params.syslog_params
  OBVIOUS
<1>2. /\ p.facility \in 0 .. 1016 /\ c.pri \in 0 .. 7
      /\ p.hostname \in CLogging!Texts(255) /\ p.hostname.clean /\ p.app_name.clean /\ p.procid.clean
      /\ p.app_name.len \in 0 .. 48 /\ p.procid.len \in 0 .. 128
  <2>1. Sanitized(c.params) /\ c.pri \in 0 .. 7
    BY DEF Sanitized, IsCall
  <2>2. FieldsFit(p) /\ FieldsClean(p)
    BY <1>1, <2>1, CallParamsAre
  <2> QED
    BY <2>1, <2>2 DEF FieldsFit, FieldsClean
<1>3. PICK a, h, tag, time : /\ a = CLogging!Prival(p, c.pri) /\ h = CLogging!OrNil(p.hostname)
                            /\ tag = CLogging!make_legacy_syslog_tag_str(p)
                            /\ time = CLogging!make_legacy_syslog_timestamp
  OBVIOUS
<1>4. /\ a \in FieldTypes /\ a.len \in 0 .. 6 /\ a.clean
      /\ h \in FieldTypes /\ h.len \in 0 .. 255 /\ h.clean
  <2>1. a \in FieldTypes /\ a.len \in 0 .. 6 /\ a.clean
    BY <1>2, <1>3, PrivalIs
  <2>2. h \in FieldTypes /\ h.len \in 0 .. 255 /\ h.clean
    <3>1. 255 \in Nat /\ 255 > 0
      OBVIOUS
    <3> QED
      BY SMTT(40), <1>2, <1>3, <3>1, OrNilIs
  <2> QED
    BY <2>1, <2>2
<1>5. time \in FieldTypes /\ time.len = 16
  BY <1>3 DEF CLogging!make_legacy_syslog_timestamp, FieldTypes
<1>6. tag \in FieldTypes /\ tag.len \in 0 .. 34 /\ tag.clean
  <2>1. PICK app \in 0 .. 48, proc \in 0 .. 128 : app = p.app_name.len /\ proc = p.procid.len
    BY <1>2
  <2>2. PICK len : len = IF app > 0 /\ proc > 0 THEN app + proc + 4
                         ELSE IF app > 0 \/ proc > 0 THEN app + proc + 2
                         ELSE 0
    OBVIOUS
  <2>3. PICK clean : clean = (p.app_name.clean /\ p.procid.clean)
    OBVIOUS
  <2>4. tag = [len |-> CLogging!Least(len, CLogging!TAG_MAX_LEN - 1), clean |-> clean]
    BY <1>3, <2>1, <2>2, <2>3, Zenon DEF CLogging!make_legacy_syslog_tag_str
  <2>5. CLogging!Least(len, CLogging!TAG_MAX_LEN - 1) \in 0 .. 34
    BY <2>2 DEF CLogging!Least, CLogging!TAG_MAX_LEN
  <2>6. clean /\ clean \in BOOLEAN
    BY <1>2, <2>3
  <2> QED
    BY <2>4, <2>5, <2>6 DEF FieldTypes
<1>7. PICK fields, separators :
        /\ \/ fields = <<a, time, h, tag>> /\ separators = 1
           \/ fields = <<a, tag>> /\ separators = 0
        /\ CLogging!create_legacy_syslog_str(t, c, buflen)
             = CLogging!Formatted(t, fields, CLogging!Size(fields, separators), CLogging!HEADER_MAX_LEN, buflen, c.len)
  <2>1. CASE CLogging!HasTime(c.stamp)
    <3>1. CLogging!create_legacy_syslog_str(t, c, buflen)
            = CLogging!Formatted(t, <<a, time, h, tag>>, CLogging!Size(<<a, time, h, tag>>, 1), CLogging!HEADER_MAX_LEN,
                        buflen, c.len)
      BY <1>1, <1>3, <2>1, Zenon DEF CLogging!create_legacy_syslog_str
    <3> QED
      BY <3>1, Zenon
  <2>2. CASE ~CLogging!HasTime(c.stamp)
    <3>1. CLogging!create_legacy_syslog_str(t, c, buflen)
            = CLogging!Formatted(t, <<a, tag>>, CLogging!Size(<<a, tag>>, 0), CLogging!HEADER_MAX_LEN, buflen, c.len)
      BY <1>1, <1>3, <2>2, Zenon DEF CLogging!create_legacy_syslog_str
    <3> QED
      BY <3>1, Zenon
  <2> QED
    BY <2>1, <2>2
<1>8. PICK size \in 0 .. 476 :
        /\ size = CLogging!Size(fields, separators) /\ fields \in Seq(FieldTypes)
        /\ \A k \in DOMAIN fields : IsClean(fields[k])
  <2>1. IsClean(a) /\ IsClean(time) /\ IsClean(h) /\ IsClean(tag)
    BY <1>3, <1>4, <1>6 DEF IsClean
  <2>2. a \in FieldTypes /\ time \in FieldTypes /\ h \in FieldTypes /\ tag \in FieldTypes
    BY <1>4, <1>5, <1>6
  <2>3. PICK x1 \in 0 .. 6, x2 \in 0 .. 255, x3 \in 0 .. 34 :
          a.len = x1 /\ time.len = 16 /\ h.len = x2 /\ tag.len = x3
    BY ZenonT(60), <1>4, <1>5, <1>6
  <2>4. CASE fields = <<a, time, h, tag>> /\ separators = 1
    <3>1. /\ fields \in Seq(FieldTypes) /\ Len(fields) = 4
          /\ fields[1] = a /\ fields[2] = time /\ fields[3] = h /\ fields[4] = tag
      BY <2>2, <2>4
    <3>6. CLogging!Size(fields, 1) = fields[1].len + fields[2].len + fields[3].len + fields[4].len + 1
      BY <3>1, SizesAre
    <3>7. separators = 1
      BY <2>4
    <3>2. CLogging!Size(fields, separators) = x1 + 16 + x2 + x3 + 1
      BY <2>3, <3>1, <3>6, <3>7
    <3>3. x1 + 16 + x2 + x3 + 1 \in 0 .. 476
      OBVIOUS
    <3>4. \A k \in DOMAIN fields : k = 1 \/ k = 2 \/ k = 3 \/ k = 4
      BY <3>1
    <3>5. \A k \in DOMAIN fields : IsClean(fields[k])
      BY <2>1, <3>1, <3>4
    <3> QED
      BY <3>1, <3>2, <3>3, <3>5
  <2>5. CASE fields = <<a, tag>> /\ separators = 0
    <3>1. /\ fields \in Seq(FieldTypes) /\ Len(fields) = 2
          /\ fields[1] = a /\ fields[2] = tag
      BY <2>2, <2>5
    <3>6. CLogging!Size(fields, 0) = fields[1].len + fields[2].len + 0
      BY <3>1, SizesAre
    <3>7. separators = 0
      BY <2>5
    <3>2. CLogging!Size(fields, separators) = x1 + x3 + 0
      BY <2>3, <3>1, <3>6, <3>7
    <3>3. x1 + x3 + 0 \in 0 .. 476
      OBVIOUS
    <3>4. \A k \in DOMAIN fields : k = 1 \/ k = 2
      BY <3>1
    <3>5. \A k \in DOMAIN fields : IsClean(fields[k])
      BY <2>1, <3>1, <3>4
    <3> QED
      BY <3>1, <3>2, <3>3, <3>5
  <2> QED
    BY <1>7, <2>4, <2>5
<1>10. CLogging!HEADER_MAX_LEN = 477 /\ CLogging!MinLen["legacy"] = 477
         /\ CLogging!BufLen["legacy"] = 478 + CLogging!RAW_MSG_MAX_LEN
       /\ CLogging!RAW_MSG_MAX_LEN \in Nat
  BY DEF CLogging!HEADER_MAX_LEN, CLogging!TIMESTAMP_LEN, CLogging!MinLen, CLogging!BufLen,
     CLogging!RAW_MSG_MAX_LEN
<1>11. size < 477 /\ size < buflen /\ 477 \in Nat /\ size \in Nat /\ c.len \in Nat
  BY <1>10 DEF IsCall
<1>12. CLogging!Formatted(t, fields, size, 477, buflen, c.len) # None
  BY <1>8, <1>11, StringsAreNotNone
<1>13. /\ CLogging!IsWhole(CLogging!Formatted(t, fields, size, 477, buflen, c.len))
       /\ size + 1 + CLogging!RAW_MSG_MAX_LEN <= buflen =>
            CLogging!Formatted(t, fields, size, 477, buflen, c.len).message
              >= CLogging!Least(c.len, CLogging!RAW_MSG_MAX_LEN)
  BY <1>8, <1>11, <1>12, WholeString
<1>14. buflen = CLogging!BufLen["legacy"] => size + 1 + CLogging!RAW_MSG_MAX_LEN <= buflen
  BY <1>10
<1> QED
  BY <1>7, <1>8, <1>10, <1>13, <1>14

\* Any of the three in the buffer of its kind, and in the smallest that a caller may give.
LEMMA CreatedIsWhole ==
  ASSUME CLogging!CLogAssumption, NEW t \in Threads, NEW c, IsCall(c), NEW kind \in c.params.action
  PROVE  /\ CLogging!IsWhole(CLogging!Create(kind, t, c, CLogging!BufLen[kind]))
         /\ CLogging!Create(kind, t, c, CLogging!BufLen[kind]).message >= CLogging!Least(c.len, CLogging!RAW_MSG_MAX_LEN)
         /\ CLogging!IsWhole(CLogging!etcpal_create_str(kind, t, c, CLogging!MinLen[kind]))
<1>1. kind \in CLogging!Kinds
  BY ActionsAre DEF IsCall
<1>2. /\ CLogging!BufLen["human"] \in Nat /\ CLogging!BufLen["human"] >= CLogging!MinLen["human"]
         /\ CLogging!MinLen["human"] \in Nat
      /\ CLogging!BufLen["syslog"] \in Nat /\ CLogging!BufLen["syslog"] >= CLogging!MinLen["syslog"]
         /\ CLogging!MinLen["syslog"] \in Nat
      /\ CLogging!BufLen["legacy"] \in Nat /\ CLogging!BufLen["legacy"] >= CLogging!MinLen["legacy"]
         /\ CLogging!MinLen["legacy"] \in Nat
  BY DEF CLogging!BufLen, CLogging!MinLen, CLogging!HEADER_MAX_LEN,
     CLogging!LOG_STR_MIN_LEN, CLogging!TIMESTAMP_LEN,
     CLogging!RAW_MSG_MAX_LEN
<1>3. CLogging!etcpal_create_str(kind, t, c, CLogging!MinLen[kind]) = CLogging!Create(kind, t, c, CLogging!MinLen[kind])
  BY <1>1 DEF CLogging!etcpal_create_str, CLogging!Kinds, CLogging!MinLen,
     CLogging!HEADER_MAX_LEN,
     CLogging!LOG_STR_MIN_LEN, CLogging!TIMESTAMP_LEN
<1>4. CASE kind = "human"
  <2>1. \A n : CLogging!Create(kind, t, c, n) = CLogging!create_log_str(t, c, n)
    BY <1>4 DEF CLogging!Create
  <2> QED
    BY <1>2, <1>3, <1>4, <2>1, HumanIsWhole
<1>5. CASE kind = "syslog"
  <2>1. \A n : CLogging!Create(kind, t, c, n) = CLogging!create_syslog_str(t, c, n)
    BY <1>5 DEF CLogging!Create
  <2> QED
    BY <1>2, <1>3, <1>5, <2>1, SyslogIsWhole
<1>6. CASE kind = "legacy"
  <2>1. \A n : CLogging!Create(kind, t, c, n) = CLogging!create_legacy_syslog_str(t, c, n)
    BY <1>6 DEF CLogging!Create
  <2> QED
    BY <1>2, <1>3, <1>6, <2>1, LegacyIsWhole
<1> QED
  BY <1>1, <1>4, <1>5, <1>6 DEF CLogging!Kinds

\* HandlerSeesItsMessage from the invariant.
LEMMA KeptIsSeen ==
  ASSUME CLogging!CLogAssumption, CLogging!CLogInv
  PROVE  CLogging!HandlerSeesItsMessage
<1> SUFFICES ASSUME NEW t \in Threads, log_pc[t] = "handler"
             PROVE  /\ strings[t].set = log_call[t].params.action
                    /\ strings[t].set # {} => strings[t].raw \in strings[t].set
                    /\ \A kind \in strings[t].set :
                         /\ buffers[kind] = CLogging!Create(kind, t, log_call[t], CLogging!BufLen[kind])
                         /\ CLogging!IsWhole(buffers[kind])
                         /\ buffers[kind].message >= CLogging!Least(log_call[t].len, CLogging!RAW_MSG_MAX_LEN)
                         /\ CLogging!IsWhole(CLogging!etcpal_create_str(kind, t, log_call[t], CLogging!MinLen[kind]))
  BY DEF CLogging!HandlerSeesItsMessage
<1>1. CLogging!MessageIsKept(t) /\ CLogging!TypeOK
  BY DEF CLogging!CLogInv
<1>2. log_call[t].params \in CLogging!Params /\ log_call[t].pri \in Priorities
        /\ log_call[t].len \in Lengths
  BY <1>1 DEF CLogging!MessageIsKept
<1>3. log_call[t].stamp \in CLogging!Stamps \cup {None}
  BY <1>1 DEF CLogging!TypeOK, CLogging!Calls
<1>4. IsCall(log_call[t])
  BY <1>2, <1>3 DEF IsCall, CLogging!CLogAssumption
<1>5. strings[t].set = log_call[t].params.action \cap CLogging!Kinds
  BY <1>1 DEF CLogging!MessageIsKept, CLogging!MadeAt
<1>6. strings[t].set = log_call[t].params.action
  BY <1>2, <1>5, ActionsAre
<1>7. /\ strings[t].set # {} => strings[t].raw \in strings[t].set
      /\ \A kind \in strings[t].set : buffers[kind]
         = CLogging!Create(kind, t, log_call[t], CLogging!BufLen[kind])
  BY <1>1 DEF CLogging!MessageIsKept
<1>8. ASSUME NEW kind \in strings[t].set
      PROVE  /\ CLogging!IsWhole(CLogging!Create(kind, t, log_call[t], CLogging!BufLen[kind]))
             /\ CLogging!Create(kind, t, log_call[t], CLogging!BufLen[kind]).message
                >= CLogging!Least(log_call[t].len, CLogging!RAW_MSG_MAX_LEN)
             /\ CLogging!IsWhole(CLogging!etcpal_create_str(kind, t, log_call[t], CLogging!MinLen[kind]))
  BY <1>4, <1>6, CreatedIsWhole
<1> QED
  BY <1>6, <1>7, <1>8

----
\* C logging.  The inductive invariant.

\* A thread that has made a string has the lock.
LEMMA OnlyTheLockersStrings ==
  ASSUME CLogging!CLogInv, NEW t \in Threads, strings[t].set # {}
  PROVE  log_pc[t] \in CLogging!Locked /\ buf_lock = t
<1>1. CLogging!MessageIsKept(t) /\ log_pc[t] \in CLogging!Points
  BY DEF CLogging!CLogInv, CLogging!TypeOK
<1> QED
  BY <1>1 DEF CLogging!MessageIsKept, CLogging!MadeAt, CLogging!Points, CLogging!Locked

\* A step that leaves a thread and its strings alone leaves its message kept.
LEMMA OthersAreKept ==
  ASSUME NEW u \in Threads, CLogging!MessageIsKept(u),
         log_pc'[u] = log_pc[u], log_call'[u] = log_call[u], strings'[u] = strings[u],
         log_pc[u] \in CLogging!Locked => buf_lock' = u,
         \A kind \in strings[u].set : buffers'[kind] = buffers[kind]
  PROVE  CLogging!MessageIsKept(u)'
BY DEF CLogging!MessageIsKept

LEMMA StringsAreBy ==
  ASSUME NEW t, NEW c, NEW kind \in CLogging!Kinds, NEW buflen
  PROVE  CLogging!Create(kind, t, c, buflen).by = t
BY DEF CLogging!Create, CLogging!create_log_str, CLogging!create_syslog_str,
   CLogging!create_legacy_syslog_str,
   CLogging!Formatted, CLogging!Kinds

LEMMA StringStep ==
  ASSUME CLogging!CLogAssumption, CLogging!CLogInv, NEW t \in Threads, NEW kind \in CLogging!Kinds, NEW to,
         \/ log_pc[t] = "human" /\ kind = "human" /\ to = "syslog"
         \/ log_pc[t] = "syslog" /\ kind = "syslog" /\ to = "legacy"
         \/ log_pc[t] = "legacy" /\ kind = "legacy" /\ to = "handler",
         log_pc' = [log_pc EXCEPT ![t] = to], CLogging!CreateString(t, kind),
         UNCHANGED <<c_initialized, buf_lock, log_call>>
  PROVE  CLogging!CLogInv'
<1>1. CLogging!TypeOK /\ CLogging!MessageIsKept(t) /\ buf_lock = t
  BY DEF CLogging!CLogInv, CLogging!MessageIsKept, CLogging!Locked
<1>2. /\ CLogging!MadeAt(to) = CLogging!MadeAt(log_pc[t]) \cup {kind} /\ to \in CLogging!Points /\ to \in CLogging!Locked
      /\ log_pc[t] \in CLogging!Locked /\ log_pc[t] # "idle" /\ to # "idle"
         /\ kind \notin CLogging!MadeAt(log_pc[t])
  BY DEF CLogging!MadeAt, CLogging!Points, CLogging!Locked, CLogging!Kinds
<1>3. /\ log_pc'[t] = to /\ \A u \in Threads \ {t} : log_pc'[u] = log_pc[u]
      /\ log_pc' \in [Threads -> CLogging!Points]
  BY <1>1, <1>2 DEF CLogging!TypeOK
<1>4. CASE kind \in log_call[t].params.action
  <2>1. /\ buffers' = [buffers EXCEPT ![kind] = CLogging!Create(kind, t, log_call[t], CLogging!BufLen[kind])]
        /\ strings' = [strings EXCEPT ![t] = [set |-> @.set \cup {kind}, raw |-> kind]]
    BY <1>4 DEF CLogging!CreateString
  <2>2. /\ buffers'[kind] = CLogging!Create(kind, t, log_call[t], CLogging!BufLen[kind])
           /\ DOMAIN buffers' = CLogging!Kinds
        /\ \A k \in CLogging!Kinds \ {kind} : buffers'[k] = buffers[k]
    BY <1>1, <2>1 DEF CLogging!TypeOK
  <2>3. /\ strings'[t].set = strings[t].set \cup {kind} /\ strings'[t].raw = kind
        /\ \A u \in Threads \ {t} : strings'[u] = strings[u]
        /\ strings' \in [Threads -> [set : SUBSET CLogging!Kinds, raw : CLogging!Kinds \cup {None}]]
    BY <1>1, <2>1 DEF CLogging!TypeOK
  <2>4. buffers'[kind].by \in Threads
    BY <2>2, StringsAreBy
  <2>5. CLogging!TypeOK'
    BY <1>1, <1>3, <2>2, <2>3, <2>4 DEF CLogging!TypeOK
  <2>6. CLogging!MessageIsKept(t)'
    <3>1. strings[t].set = log_call[t].params.action \cap CLogging!MadeAt(log_pc[t])
      BY <1>1, <1>2 DEF CLogging!MessageIsKept
    <3>2. strings'[t].set = log_call'[t].params.action \cap CLogging!MadeAt(to)
      BY <1>2, <1>4, <2>3, <3>1
    <3>3. \A k \in strings'[t].set : buffers'[k] = CLogging!Create(k, t, log_call'[t], CLogging!BufLen[k])
      <4> SUFFICES ASSUME NEW k \in strings'[t].set
                   PROVE  buffers'[k] = CLogging!Create(k, t, log_call'[t], CLogging!BufLen[k])
        OBVIOUS
      <4>1. CASE k = kind
        BY <2>2, <4>1
      <4>2. CASE k # kind
        <5>1. k \in strings[t].set /\ k \in CLogging!Kinds
          BY <1>1, <2>3, <4>2 DEF CLogging!TypeOK
        <5> QED
          BY <1>1, <2>2, <4>2, <5>1 DEF CLogging!MessageIsKept
      <4> QED
        BY <4>1, <4>2
    <3>4. log_call'[t].params \in CLogging!Params /\ log_call'[t].pri \in Priorities
            /\ log_call'[t].len \in Lengths
      BY <1>1, <1>2 DEF CLogging!MessageIsKept
    <3> QED
      BY <1>1, <1>2, <1>3, <2>3, <3>2, <3>3, <3>4 DEF CLogging!MessageIsKept
  <2>7. ASSUME NEW u \in Threads \ {t} PROVE CLogging!MessageIsKept(u)'
    <3>1. strings[u].set = {}
      BY <1>1, <2>7, OnlyTheLockersStrings
    <3>2. CLogging!MessageIsKept(u)
      BY DEF CLogging!CLogInv
    <3>3. log_pc[u] \in CLogging!Locked => buf_lock' = u
      BY <3>2 DEF CLogging!MessageIsKept
    <3> QED
      BY <1>3, <2>3, <3>1, <3>2, <3>3, OthersAreKept
  <2>8. log_pc'[buf_lock'] \in CLogging!Locked /\ (~c_initialized' => CLogging!NobodyLogs')
    BY <1>1, <1>2, <1>3 DEF CLogging!CLogInv, CLogging!NobodyLogs
  <2> QED
    BY <2>5, <2>6, <2>7, <2>8 DEF CLogging!CLogInv
<1>5. CASE kind \notin log_call[t].params.action
  <2>1. UNCHANGED <<buffers, strings>>
    BY <1>5 DEF CLogging!CreateString
  <2>2. CLogging!TypeOK'
    BY <1>1, <1>3, <2>1 DEF CLogging!TypeOK
  <2>3. CLogging!MessageIsKept(t)'
    <3>1. strings'[t].set = log_call'[t].params.action \cap CLogging!MadeAt(to)
      BY <1>1, <1>2, <1>5, <2>1 DEF CLogging!MessageIsKept
    <3> QED
      BY <1>1, <1>2, <1>3, <2>1, <3>1 DEF CLogging!MessageIsKept
  <2>4. ASSUME NEW u \in Threads \ {t} PROVE CLogging!MessageIsKept(u)'
    <3>1. CLogging!MessageIsKept(u)
      BY DEF CLogging!CLogInv
    <3>2. log_pc[u] \in CLogging!Locked => buf_lock' = u
      BY <3>1 DEF CLogging!MessageIsKept
    <3> QED
      BY <1>3, <2>1, <3>1, <3>2, OthersAreKept
  <2>5. log_pc'[buf_lock'] \in CLogging!Locked /\ (~c_initialized' => CLogging!NobodyLogs')
    BY <1>1, <1>2, <1>3 DEF CLogging!CLogInv, CLogging!NobodyLogs
  <2> QED
    BY <2>2, <2>3, <2>4, <2>5 DEF CLogging!CLogInv
<1> QED
  BY <1>4, <1>5

LEMMA CLogInit ==
  ASSUME CLogging!CLogAssumption, CLogging!Init
  PROVE  CLogging!CLogInv
<1>1. CLogging!Idle \in CLogging!Calls
  BY DEF CLogging!Idle, CLogging!Calls
<1>2. CLogging!TypeOK
  BY <1>1 DEF CLogging!Init, CLogging!TypeOK, CLogging!Kinds, CLogging!Points,
     CLogging!NoStrings
<1>3. \A t \in Threads : CLogging!MessageIsKept(t)
  BY DEF CLogging!Init, CLogging!MessageIsKept, CLogging!NoStrings, CLogging!Locked
<1> QED
  BY <1>2, <1>3 DEF CLogging!Init, CLogging!CLogInv, CLogging!NobodyLogs

LEMMA CLogStep ==
  ASSUME CLogging!CLogAssumption, CLogging!CLogInv, [CLogging!Next]_CLogging!vars
  PROVE  CLogging!CLogInv'
<1> CLogging!TypeOK
  BY DEF CLogging!CLogInv
<1>1. CASE CLogging!etcpal_log_init
  <2>1. CLogging!NobodyLogs /\ UNCHANGED <<buffers, log_pc, log_call, strings>> /\ buf_lock' = None
          /\ c_initialized' = TRUE
    BY <1>1 DEF CLogging!etcpal_log_init, CLogging!CLogInv
  <2>2. CLogging!TypeOK'
    BY <2>1 DEF CLogging!TypeOK
  <2>3. \A t \in Threads : CLogging!MessageIsKept(t)'
    <3> SUFFICES ASSUME NEW t \in Threads PROVE CLogging!MessageIsKept(t)'
      OBVIOUS
    <3>1. CLogging!MessageIsKept(t) /\ log_pc[t] \notin CLogging!Locked
      BY <2>1 DEF CLogging!CLogInv, CLogging!NobodyLogs, CLogging!Locked
    <3> QED
      BY <2>1, <3>1, OthersAreKept
  <2> QED
    BY <2>1, <2>2, <2>3 DEF CLogging!CLogInv
<1>2. CASE CLogging!etcpal_log_deinit
  <2>1. CLogging!NobodyLogs /\ UNCHANGED <<buf_lock, buffers, log_pc, log_call, strings>>
          /\ c_initialized' = FALSE
    BY <1>2 DEF CLogging!etcpal_log_deinit
  <2>2. CLogging!TypeOK'
    BY <2>1 DEF CLogging!TypeOK
  <2>3. \A t \in Threads : CLogging!MessageIsKept(t)'
    BY <2>1 DEF CLogging!CLogInv, CLogging!MessageIsKept
  <2> QED
    BY <2>1, <2>2, <2>3 DEF CLogging!CLogInv, CLogging!NobodyLogs
<1>3. ASSUME NEW t \in Threads, NEW params \in CLogging!Params, NEW pri \in Priorities,
             NEW len \in Lengths,
             CLogging!etcpal_vlog(t, params, pri, len)
      PROVE  CLogging!CLogInv'
  <2> DEFINE now == [params |-> params, pri |-> pri, len |-> len, stamp |-> None]
  <2>1. /\ c_initialized /\ log_pc[t] = "idle" /\ log_pc' = [log_pc EXCEPT ![t] = "time"]
        /\ log_call' = [log_call EXCEPT ![t] = now]
        /\ UNCHANGED <<c_initialized, buf_lock, buffers, strings>>
    BY <1>3 DEF CLogging!etcpal_vlog, CLogging!Goto
  <2>2. now \in CLogging!Calls /\ now.params = params /\ now.pri = pri /\ now.len = len
    BY DEF CLogging!Calls
  <2> HIDE DEF now
  <2>3. /\ log_pc'[t] = "time" /\ log_call'[t] = now /\ log_call' \in [Threads -> CLogging!Calls]
        /\ log_pc' \in [Threads -> CLogging!Points]
        /\ \A u \in Threads \ {t} : log_pc'[u] = log_pc[u] /\ log_call'[u] = log_call[u]
    BY <2>1, <2>2 DEF CLogging!TypeOK, CLogging!Points
  <2>4. CLogging!TypeOK'
    BY <2>1, <2>3 DEF CLogging!TypeOK
  <2>5. CLogging!MessageIsKept(t)'
    <3>1. strings[t].set = {}
      BY <2>1 DEF CLogging!CLogInv, CLogging!MessageIsKept
    <3> QED
      BY <2>1, <2>2, <2>3, <3>1 DEF CLogging!MessageIsKept, CLogging!MadeAt, CLogging!Locked
  <2>6. ASSUME NEW u \in Threads \ {t} PROVE CLogging!MessageIsKept(u)'
    <3>1. CLogging!MessageIsKept(u)
      BY DEF CLogging!CLogInv
    <3>2. log_pc[u] \in CLogging!Locked => buf_lock' = u
      BY <2>1, <3>1 DEF CLogging!MessageIsKept
    <3> QED
      BY <2>1, <2>3, <3>1, <3>2, OthersAreKept
  <2>7. buf_lock' # None => log_pc'[buf_lock'] \in CLogging!Locked
    BY <2>1, <2>3 DEF CLogging!CLogInv, CLogging!TypeOK, CLogging!Locked
  <2> QED
    BY <2>1, <2>4, <2>5, <2>6, <2>7 DEF CLogging!CLogInv
<1>4. ASSUME NEW t \in Threads, CLogging!get_time(t)
      PROVE  CLogging!CLogInv'
  <2>1. PICK stamp \in CLogging!Stamps \cup {None} :
          /\ log_pc[t] = "time" /\ log_pc' = [log_pc EXCEPT ![t] = "lock"]
          /\ log_call' = [log_call EXCEPT ![t].stamp = stamp]
          /\ UNCHANGED <<c_initialized, buf_lock, buffers, strings>>
    BY <1>4 DEF CLogging!get_time, CLogging!Goto
  <2>2. /\ log_call'[t] \in CLogging!Calls /\ log_call'[t].params = log_call[t].params
        /\ log_call'[t].pri = log_call[t].pri /\ log_call'[t].len = log_call[t].len
        /\ \A u \in Threads \ {t} : log_call'[u] = log_call[u]
        /\ log_call' \in [Threads -> CLogging!Calls]
    BY SMTT(40), <2>1 DEF CLogging!TypeOK, CLogging!Calls
  <2>3. /\ log_pc'[t] = "lock" /\ log_pc' \in [Threads -> CLogging!Points]
        /\ \A u \in Threads \ {t} : log_pc'[u] = log_pc[u]
    BY <2>1 DEF CLogging!TypeOK, CLogging!Points
  <2>4. CLogging!TypeOK'
    BY <2>1, <2>2, <2>3 DEF CLogging!TypeOK
  <2>5. CLogging!MessageIsKept(t)'
    <3>1. strings[t].set = {} /\ CLogging!MessageIsKept(t)
      BY <2>1 DEF CLogging!CLogInv, CLogging!MessageIsKept, CLogging!MadeAt
    <3>2. log_call[t].params \in CLogging!Params /\ log_call[t].pri \in Priorities
            /\ log_call[t].len \in Lengths
      BY <2>1, <3>1 DEF CLogging!MessageIsKept
    <3> QED
      BY <2>1, <2>2, <2>3, <3>1, <3>2 DEF CLogging!MessageIsKept, CLogging!MadeAt,
         CLogging!Locked
  <2>6. ASSUME NEW u \in Threads \ {t} PROVE CLogging!MessageIsKept(u)'
    <3>1. CLogging!MessageIsKept(u)
      BY DEF CLogging!CLogInv
    <3>2. log_pc[u] \in CLogging!Locked => buf_lock' = u
      BY <2>1, <3>1 DEF CLogging!MessageIsKept
    <3> QED
      BY <2>1, <2>2, <2>3, <3>1, <3>2, OthersAreKept
  <2>7. buf_lock' # None => log_pc'[buf_lock'] \in CLogging!Locked
    BY <2>1, <2>3 DEF CLogging!CLogInv, CLogging!TypeOK, CLogging!Locked
  <2>8. ~c_initialized' => CLogging!NobodyLogs'
    BY <2>1 DEF CLogging!CLogInv, CLogging!NobodyLogs
  <2> QED
    BY <2>4, <2>5, <2>6, <2>7, <2>8 DEF CLogging!CLogInv
<1>5. ASSUME NEW t \in Threads, CLogging!LockBuffers(t)
      PROVE  CLogging!CLogInv'
  <2>1. /\ log_pc[t] = "lock" /\ log_pc' = [log_pc EXCEPT ![t] = "human"]
        /\ buf_lock = None /\ buf_lock' = t
        /\ UNCHANGED <<c_initialized, buffers, log_call, strings>>
    BY <1>5 DEF CLogging!LockBuffers, CLogging!Goto
  <2>2. /\ log_pc'[t] = "human" /\ log_pc' \in [Threads -> CLogging!Points]
        /\ \A u \in Threads \ {t} : log_pc'[u] = log_pc[u]
    BY <2>1 DEF CLogging!TypeOK, CLogging!Points
  <2>3. CLogging!TypeOK'
    BY <2>1, <2>2 DEF CLogging!TypeOK
  <2>4. CLogging!MessageIsKept(t)'
    <3>1. CLogging!MessageIsKept(t) /\ strings[t].set = {}
      BY <2>1 DEF CLogging!CLogInv, CLogging!MessageIsKept, CLogging!MadeAt
    <3>2. log_call[t].params \in CLogging!Params /\ log_call[t].pri \in Priorities
            /\ log_call[t].len \in Lengths
      BY <2>1, <3>1 DEF CLogging!MessageIsKept
    <3> QED
      BY <2>1, <2>2, <3>1, <3>2 DEF CLogging!MessageIsKept, CLogging!MadeAt, CLogging!Locked
  <2>5. ASSUME NEW u \in Threads \ {t} PROVE CLogging!MessageIsKept(u)'
    <3>1. CLogging!MessageIsKept(u) /\ u # None
      BY DEF CLogging!CLogInv, CLogging!CLogAssumption
    <3>2. log_pc[u] \notin CLogging!Locked
      BY <2>1, <3>1 DEF CLogging!MessageIsKept
    <3> QED
      BY <2>1, <2>2, <3>1, <3>2, OthersAreKept
  <2>6. log_pc'[buf_lock'] \in CLogging!Locked /\ (~c_initialized' => CLogging!NobodyLogs')
    BY <2>1, <2>2 DEF CLogging!CLogInv, CLogging!NobodyLogs, CLogging!Locked
  <2> QED
    BY <2>3, <2>4, <2>5, <2>6 DEF CLogging!CLogInv
<1>6. ASSUME NEW t \in Threads, CLogging!CreateHuman(t)
      PROVE  CLogging!CLogInv'
  <2>1. /\ log_pc[t] = "human" /\ log_pc' = [log_pc EXCEPT ![t] = "syslog"]
           /\ CLogging!CreateString(t, "human")
        /\ UNCHANGED <<c_initialized, buf_lock, log_call>> /\ "human" \in CLogging!Kinds
    BY <1>6 DEF CLogging!CreateHuman, CLogging!Goto, CLogging!Kinds
  <2> QED
    BY <2>1, StringStep
<1>7. ASSUME NEW t \in Threads, CLogging!CreateSyslog(t)
      PROVE  CLogging!CLogInv'
  <2>1. /\ log_pc[t] = "syslog" /\ log_pc' = [log_pc EXCEPT ![t] = "legacy"]
           /\ CLogging!CreateString(t, "syslog")
        /\ UNCHANGED <<c_initialized, buf_lock, log_call>> /\ "syslog" \in CLogging!Kinds
    BY <1>7 DEF CLogging!CreateSyslog, CLogging!Goto, CLogging!Kinds
  <2> QED
    BY <2>1, StringStep
<1>8. ASSUME NEW t \in Threads, CLogging!CreateLegacy(t)
      PROVE  CLogging!CLogInv'
  <2>1. /\ log_pc[t] = "legacy" /\ log_pc' = [log_pc EXCEPT ![t] = "handler"]
           /\ CLogging!CreateString(t, "legacy")
        /\ UNCHANGED <<c_initialized, buf_lock, log_call>> /\ "legacy" \in CLogging!Kinds
    BY <1>8 DEF CLogging!CreateLegacy, CLogging!Goto, CLogging!Kinds
  <2> QED
    BY <2>1, StringStep
<1>9. ASSUME NEW t \in Threads, CLogging!HandlerReturns(t)
      PROVE  CLogging!CLogInv'
  <2>1. /\ log_pc[t] = "handler" /\ log_pc' = [log_pc EXCEPT ![t] = "idle"]
        /\ buf_lock' = None /\ log_call' = [log_call EXCEPT ![t] = CLogging!Idle]
        /\ strings' = [strings EXCEPT ![t] = CLogging!NoStrings]
        /\ UNCHANGED <<c_initialized, buffers>>
    BY <1>9 DEF CLogging!HandlerReturns, CLogging!Goto
  <2>2. buf_lock = t
    BY <2>1 DEF CLogging!CLogInv, CLogging!MessageIsKept, CLogging!Locked
  <2>3. /\ CLogging!Idle \in CLogging!Calls
           /\ CLogging!NoStrings \in [set : SUBSET CLogging!Kinds, raw : CLogging!Kinds \cup {None}]
        /\ CLogging!NoStrings.set = {}
    BY DEF CLogging!Idle, CLogging!Calls, CLogging!NoStrings
  <2>4. /\ log_pc'[t] = "idle" /\ log_pc' \in [Threads -> CLogging!Points]
           /\ log_call' \in [Threads -> CLogging!Calls]
        /\ \A u \in Threads \ {t} : log_pc'[u] = log_pc[u] /\ log_call'[u] = log_call[u]
           /\ strings'[u] = strings[u]
        /\ strings'[t] = CLogging!NoStrings
        /\ strings' \in [Threads -> [set : SUBSET CLogging!Kinds, raw : CLogging!Kinds \cup {None}]]
    BY <2>1, <2>3 DEF CLogging!TypeOK, CLogging!Points
  <2>5. CLogging!TypeOK'
    BY <2>1, <2>4 DEF CLogging!TypeOK
  <2>6. CLogging!MessageIsKept(t)'
    BY <2>3, <2>4 DEF CLogging!MessageIsKept, CLogging!Locked
  <2>7. ASSUME NEW u \in Threads \ {t} PROVE CLogging!MessageIsKept(u)'
    <3>1. CLogging!MessageIsKept(u)
      BY DEF CLogging!CLogInv
    <3>2. log_pc[u] \notin CLogging!Locked
      BY <2>2, <2>7, <3>1 DEF CLogging!MessageIsKept
    <3> QED
      BY <2>1, <2>4, <3>1, <3>2, OthersAreKept
  <2>8. ~c_initialized' => CLogging!NobodyLogs'
    BY <2>1 DEF CLogging!CLogInv, CLogging!NobodyLogs
  <2> QED
    BY <2>1, <2>5, <2>6, <2>7, <2>8 DEF CLogging!CLogInv
<1>10. CASE UNCHANGED CLogging!vars
  BY <1>10 DEF CLogging!vars, CLogging!CLogInv, CLogging!TypeOK, CLogging!MessageIsKept,
     CLogging!NobodyLogs
<1> QED
  BY <1>1, <1>2, <1>3, <1>4, <1>5, <1>6, <1>7, <1>8, <1>9, <1>10 DEF CLogging!Next

\* C logging: whoever has made a string has the lock, and each string in a buffer is of its
\* maker's message, for any threads, parameters and messages.
THEOREM CLogInvariant ==
  ASSUME CLogging!CLogAssumption PROVE CLogging!Spec => []CLogging!CLogInv
BY CLogInit, CLogStep, PTL DEF CLogging!Spec

\* C logging: as long as the application's function runs it has the strings it asked for,
\* made of its own message, with whole headers, whatever other threads log meanwhile.
THEOREM HandlerAlwaysSeesItsMessage ==
  ASSUME CLogging!CLogAssumption PROVE CLogging!Spec => []HandlerSeesItsMessage
BY CLogInvariant, KeptIsSeen, PTL DEF HandlerSeesItsMessage

----
(***************************************************************************)
(* Network interfaces: places of sequences, what the queries answer, and   *)
(* the steps.                                                              *)
(***************************************************************************)
\* The operators that an instance brings along are those of FiniteSets.
LEMMA NetCount ==
  \A S : Net!Cardinality(S) = Cardinality(S)
BY DEF Net!IsFiniteSet, IsFiniteSet, Net!Cardinality, Cardinality

\* The places of a sequence are finitely many.
LEMMA PlacesAreFinite ==
  ASSUME NEW S, NEW s \in Seq(S), NEW P, P \subseteq DOMAIN s
  PROVE  P \in SUBSET Nat /\ IsFiniteSet(P) /\ Cardinality(P) \in Nat
<1>1. Len(s) \in Nat /\ DOMAIN s = 1 .. Len(s)
  OBVIOUS
<1>2. IsFiniteSet(1 .. Len(s))
  BY <1>1, FS_Interval
<1> QED
  BY <1>1, <1>2, FS_Subset, FS_CardinalityType

\* An arrangement names each of the places.
LEMMA ArrangementFacts ==
  ASSUME NEW P, IsFiniteSet(P), NEW p \in Net!Arrangements(P)
  PROVE  /\ Cardinality(P) \in Nat
         /\ DOMAIN p = 1 .. Cardinality(P)
         /\ \A k \in DOMAIN p : p[k] \in P
         /\ \A h, j \in DOMAIN p : p[h] = p[j] => h = j
         /\ \A x \in P : \E k \in DOMAIN p : p[k] = x
<1>1. Cardinality(P) \in Nat
  BY FS_CardinalityType
<1>2. /\ p \in [1 .. Cardinality(P) -> P]
      /\ \A h, j \in DOMAIN p : p[h] = p[j] => h = j
  BY NetCount DEF Net!Arrangements
<1>3. DOMAIN p = 1 .. Cardinality(P) /\ \A k \in DOMAIN p : p[k] \in P
  BY <1>2
<1> DEFINE D == DOMAIN p
           image == {p[k] : k \in D}
<1>4. IsFiniteSet(D) /\ Cardinality(D) = Cardinality(P)
  BY <1>1, <1>3, FS_Interval
<1>5. IsFiniteSet(image) /\ Cardinality(image) = Cardinality(P)
  <2>1. \A h, j \in D : p[h] = p[j] => h = j
    BY <1>2
  <2> HIDE DEF D
  <2>2. IsFiniteSet(image) /\ Cardinality(image) = Cardinality(D)
    BY <1>4, <2>1, NamesCount
  <2> HIDE DEF image
  <2> QED
    BY <1>4, <2>2
<1>6. image \subseteq P
  BY <1>3
<1> HIDE DEF image
<1>7. image = P
  BY <1>5, <1>6, FS_Subset
<1>8. \A x \in P : \E k \in DOMAIN p : p[k] = x
  BY <1>7 DEF image
<1> QED
  BY <1>1, <1>2, <1>3, <1>8

\* The places of a finite set, one after the other.
LEMMA NthFacts ==
  ASSUME NEW P \in SUBSET Nat, IsFiniteSet(P)
  PROVE  /\ Cardinality(P) \in Nat
         /\ \A n \in 1 .. Cardinality(P) : Net!Nth(P, n) \in P
         /\ \A h, j \in 1 .. Cardinality(P) : h < j => Net!Nth(P, h) < Net!Nth(P, j)
         /\ \A x \in P : \E n \in 1 .. Cardinality(P) : Net!Nth(P, n) = x
<1>1. PICK c \in Nat : c = Cardinality(P)
  BY FS_CardinalityType
<1>2. PICK f : Ascends(f, c) /\ P = Names(f, c)
  BY <1>1, Enumerable
<1>3. ASSUME NEW k \in 1 .. c PROVE Net!Nth(P, k) = f[k]
  <2> DEFINE count(x) == Net!Cardinality({j \in P : j <= x})
  <2>1. Net!Nth(P, k) = CHOOSE x \in P : count(x) = k
    BY DEF Net!Nth
  <2>2. \A m \in 1 .. c : count(f[m]) = m
    BY <1>2, AscendingRanks, NetCount DEF Names
  <2> HIDE DEF count
  <2>3. f[k] \in P /\ \A x \in P : \E m \in 1 .. c : x = f[m]
    BY <1>2 DEF Names
  <2>4. \A x \in P : count(x) = k => x = f[k]
    BY <2>2, <2>3
  <2> QED
    BY <2>1, <2>2, <2>3, <2>4
<1>4. \A n \in 1 .. c : f[n] \in P
  BY <1>2 DEF Names
<1>5. \A x \in P : \E n \in 1 .. c : f[n] = x
  BY <1>2 DEF Names
<1>6. \A h, j \in 1 .. c : h < j => f[h] < f[j]
  BY <1>2 DEF Ascends
<1> QED
  BY <1>1, <1>3, <1>4, <1>5, <1>6

LEMMA LeastFacts ==
  ASSUME NEW P \in SUBSET Nat, P # {}
  PROVE  Net!Least(P) \in P /\ \A j \in P : Net!Least(P) <= j
<1>1. \E h \in P : \A j \in P : h <= j
  BY HasLeast
<1> QED
  BY <1>1 DEF Net!Least

----
(* The answers.                                                            *)
NetHolds == Net!NetintAssumption /\ Net!NetintInv

LEMMA ListedIsFinite ==
  ASSUME NetHolds
  PROVE  Net!Listed \in SUBSET Nat /\ IsFiniteSet(Net!Listed)
<1>1. seen.addrs \in Seq(Net!Addrs)
  BY DEF NetHolds, Net!NetintInv, Net!TypeOK, Net!Readings
<1>2. Net!Listed \subseteq DOMAIN seen.addrs
  BY DEF Net!Listed
<1> QED
  BY <1>1, <1>2, PlacesAreFinite

\* What a query matches in the cache.
Matching(index, ip) ==
  {h \in DOMAIN cache.netints :
     LET n == cache.netints[h]
     IN index \in {0, n.index} /\ ip \in {None, n.addr}}

\* The addresses it may show
Shown(index, ip) == Net!Wanted(index, ip) \cup Net!Doubtful(index, ip)

\* Each match shows an address that it may, and no address that is wanted is left out.
LEMMA MatchesAreWanted ==
  ASSUME NetHolds, NEW index, NEW ip \in {None} \cup Net!Ips
  PROVE  /\ Matching(index, ip) \in SUBSET Nat /\ IsFiniteSet(Matching(index, ip))
         /\ IsFiniteSet(Shown(index, ip)) /\ IsFiniteSet(Net!Wanted(index, ip))
         /\ Cardinality(Matching(index, ip)) <= Cardinality(Shown(index, ip))
         /\ Cardinality(Net!Wanted(index, ip)) <= Cardinality(Matching(index, ip))
         /\ \A h \in Matching(index, ip) : \E j \in Shown(index, ip) :
              Net!Shows(cache.netints[h], seen.addrs[j])
         /\ \A j \in Net!Wanted(index, ip) : \E h \in Matching(index, ip) :
              Net!Shows(cache.netints[h], seen.addrs[j])
<1> DEFINE matching == Matching(index, ip)
           wanted == Net!Wanted(index, ip)
           shown == Shown(index, ip)
<1>1. PICK p \in Net!Arrangements(Net!Listed) :
               /\ DOMAIN cache.netints = DOMAIN p
               /\ \A k \in DOMAIN p : Net!Shows(cache.netints[k], seen.addrs[p[k]])
  BY DEF NetHolds, Net!NetintInv, Net!CacheIsListed
<1>2. /\ Cardinality(Net!Listed) \in Nat
      /\ DOMAIN p = 1 .. Cardinality(Net!Listed)
      /\ \A k \in DOMAIN p : p[k] \in Net!Listed
      /\ \A h, j \in DOMAIN p : p[h] = p[j] => h = j
      /\ \A x \in Net!Listed : \E k \in DOMAIN p : p[k] = x
  BY ListedIsFinite, ArrangementFacts
<1>3. ASSUME NEW h \in DOMAIN p
      PROVE  /\ h \in matching => p[h] \in shown
             /\ p[h] \in wanted => h \in matching
  <2> DEFINE a == seen.addrs[p[h]]
             n == cache.netints[h]
  <2>1. n.index = a.index /\ (Net!Unaddressed(a) \/ n.addr = <<a.family, a.addr>>)
    BY <1>1 DEF Net!Shows
  <2>2. /\ h \in matching <=> index \in {0, n.index} /\ ip \in {None, n.addr}
        /\ p[h] \in wanted <=> /\ index \in {0, a.index}
                               /\ ip = None \/ (~Net!Unaddressed(a) /\ ip = <<a.family, a.addr>>)
        /\ p[h] \in shown <=> p[h] \in wanted \/ /\ Net!Unaddressed(a)
                                                 /\ index \in {0, a.index} /\ ip # None
    BY <1>1, <1>2 DEF Matching, Net!Wanted, Shown, Net!Doubtful
  <2> HIDE DEF a, n, matching, wanted, shown
  <2> QED
    BY <2>1, <2>2
<1>4. matching \subseteq DOMAIN p /\ shown \subseteq Net!Listed /\ wanted \subseteq shown
  BY <1>1 DEF Matching, Net!Wanted, Shown, Net!Doubtful
<1> HIDE DEF matching, wanted, shown
<1>5. matching \in SUBSET Nat /\ IsFiniteSet(matching)
  <2>1. PICK n \in Nat : n = Cardinality(Net!Listed)
    BY <1>2
  <2>2. DOMAIN p = 1 .. n /\ IsFiniteSet(1 .. n) /\ 1 .. n \subseteq Nat
    BY <1>2, <2>1, FS_Interval
  <2> QED
    BY <1>4, <2>2, FS_Subset
<1> DEFINE image == {p[h] : h \in matching}
<1>6. wanted \subseteq image /\ image \subseteq shown
  BY <1>2, <1>3, <1>4
<1>7. \A h, j \in matching : p[h] = p[j] => h = j
  BY <1>2, <1>4
<1>8. IsFiniteSet(image) /\ Cardinality(matching) = Cardinality(image)
  BY <1>5, <1>7, NamesCount
<1> HIDE DEF image
<1>9. IsFiniteSet(shown) /\ IsFiniteSet(wanted)
  BY <1>4, ListedIsFinite, FS_Subset
<1>10. Cardinality(image) <= Cardinality(shown) /\ Cardinality(wanted) <= Cardinality(image)
  BY <1>6, <1>8, <1>9, FS_Subset
<1>11. \A h \in matching : \E j \in shown : Net!Shows(cache.netints[h], seen.addrs[j])
  BY <1>1, <1>3, <1>4
<1>12. \A j \in wanted : \E h \in matching : Net!Shows(cache.netints[h], seen.addrs[j])
  <2> SUFFICES ASSUME NEW j \in wanted
               PROVE  \E h \in matching : Net!Shows(cache.netints[h], seen.addrs[j])
    OBVIOUS
  <2>1. PICK h \in matching : j = p[h]
    BY <1>6 DEF image
  <2> QED
    BY <1>1, <1>4, <2>1
<1> QED
  BY <1>5, <1>8, <1>9, <1>10, <1>11, <1>12 DEF matching, wanted, shown

\* What a query answers of what it matches.
LEMMA ReplyIs ==
  ASSUME NetHolds, ~Net!Unallocated, NEW index, NEW ip, NEW room \in Nat, NEW c \in Nat,
         c = Cardinality(Matching(index, ip))
  PROVE  LET reply == Net!Interfaces(index, ip, room)
         IN /\ reply.num_netints = c
            /\ reply.res = IF c = 0 THEN "NotFound" ELSE IF c > room THEN "BufSize" ELSE "Ok"
            /\ c <= room =>
                 reply.netints = [n \in 1 .. c |-> cache.netints[Net!Nth(Matching(index, ip), n)]]
            /\ DOMAIN reply = {"num_netints", "res", "netints"}
BY NetCount DEF Net!Interfaces, Matching

LEMMA OneQuery ==
  ASSUME NetHolds, ~Net!Unallocated, NEW index, NEW ip \in {None} \cup Net!Ips, NEW room \in Nat
  PROVE  LET reply == Net!Interfaces(index, ip, room)
             wanted == Net!Wanted(index, ip)
             shown == Shown(index, ip)
         IN /\ IsFiniteSet(wanted) /\ IsFiniteSet(shown)
            /\ reply.num_netints \in Cardinality(wanted) .. Cardinality(shown)
            /\ reply.res = IF reply.num_netints = 0 THEN "NotFound"
                           ELSE IF reply.num_netints > room THEN "BufSize" ELSE "Ok"
            /\ reply.res = "NotFound" => wanted = {}
            /\ shown = {} => reply.res = "NotFound"
            /\ DOMAIN reply = {"num_netints", "res", "netints"}
            /\ reply.res = "Ok" =>
                 /\ \A j \in wanted : \E n \in Net!Members(reply.netints) :
                      Net!Shows(n, seen.addrs[j])
                 /\ \A n \in Net!Members(reply.netints) : \E j \in shown :
                      Net!Shows(n, seen.addrs[j])
                 /\ Net!ByIndex(reply.netints)
<1> DEFINE reply == Net!Interfaces(index, ip, room)
           matching == Matching(index, ip)
           wanted == Net!Wanted(index, ip)
           shown == Shown(index, ip)
<1>2. /\ matching \in SUBSET Nat /\ IsFiniteSet(matching)
      /\ IsFiniteSet(wanted) /\ IsFiniteSet(shown)
      /\ Cardinality(matching) <= Cardinality(shown)
      /\ Cardinality(wanted) <= Cardinality(matching)
      /\ \A h \in matching : \E j \in shown : Net!Shows(cache.netints[h], seen.addrs[j])
      /\ \A j \in wanted : \E h \in matching : Net!Shows(cache.netints[h], seen.addrs[j])
  BY MatchesAreWanted
<1>3. PICK c \in Nat : c = Cardinality(matching)
  BY <1>2, FS_CardinalityType
<1>4. /\ reply.num_netints = c
      /\ reply.res = IF c = 0 THEN "NotFound" ELSE IF c > room THEN "BufSize" ELSE "Ok"
      /\ c <= room => reply.netints = [n \in 1 .. c |-> cache.netints[Net!Nth(matching, n)]]
      /\ DOMAIN reply = {"num_netints", "res", "netints"}
  BY <1>3, ReplyIs
<1>5. matching \subseteq DOMAIN cache.netints
  BY DEF Matching
<1> HIDE DEF reply, matching, wanted, shown
<1>6. /\ c \in Cardinality(wanted) .. Cardinality(shown)
      /\ c = 0 => wanted = {}
      /\ shown = {} => c = 0
  <2>1. Cardinality(wanted) \in Nat /\ Cardinality(shown) \in Nat
    BY <1>2, FS_CardinalityType
  <2>2. (Cardinality(wanted) = 0 <=> wanted = {}) /\ (Cardinality(shown) = 0 <=> shown = {})
    BY <1>2, FS_EmptySet
  <2> QED
    BY <1>2, <1>3, <2>1, <2>2
<1>7. ASSUME reply.res = "Ok"
      PROVE  /\ \A j \in wanted : \E n \in Net!Members(reply.netints) :
                  Net!Shows(n, seen.addrs[j])
             /\ \A n \in Net!Members(reply.netints) : \E j \in shown :
                  Net!Shows(n, seen.addrs[j])
             /\ Net!ByIndex(reply.netints)
  <2>1. reply.netints = [n \in 1 .. c |-> cache.netints[Net!Nth(matching, n)]]
    BY <1>4, <1>7
  <2>2. /\ \A n \in 1 .. c : Net!Nth(matching, n) \in matching
        /\ \A h, j \in 1 .. c : h < j => Net!Nth(matching, h) < Net!Nth(matching, j)
        /\ \A x \in matching : \E n \in 1 .. c : Net!Nth(matching, n) = x
    BY <1>2, <1>3, NthFacts
  <2>3. DOMAIN reply.netints = 1 .. c
          /\ \A n \in 1 .. c : reply.netints[n] = cache.netints[Net!Nth(matching, n)]
    BY <2>1
  <2>4. Net!Members(reply.netints) = {cache.netints[h] : h \in matching}
    BY <2>2, <2>3 DEF Net!Members
  <2>5. Net!ByIndex(cache.netints)
    BY DEF NetHolds, Net!NetintInv, Net!CacheIsListed
  <2>6. Net!ByIndex(reply.netints)
    BY <1>5, <2>2, <2>3, <2>5 DEF Net!ByIndex
  <2> QED
    BY <1>2, <2>4, <2>6
<1> QED
  BY <1>2, <1>4, <1>6, <1>7 DEF reply, wanted, shown

LEMMA OneWithIp ==
  ASSUME NetHolds, ~Net!Unallocated, NEW ip \in Net!Ips
  PROVE  LET res == Net!InterfaceWithIp(ip).res
             having == Net!Wanted(0, ip)
         IN /\ res = "NotFound" => having = {}
            /\ res = "Ok" => Net!Cardinality(having) <= 1
            /\ Net!Doubtful(0, ip) = {} => /\ having = {} => res = "NotFound"
                                           /\ Net!Cardinality(having) = 1 => res = "Ok"
<1> DEFINE having == Net!Wanted(0, ip)
           shown == Shown(0, ip)
           reply == Net!Interfaces(0, ip, 1)
<1>1. /\ IsFiniteSet(having) /\ IsFiniteSet(shown)
      /\ reply.num_netints \in Cardinality(having) .. Cardinality(shown)
      /\ reply.res = IF reply.num_netints = 0 THEN "NotFound"
                     ELSE IF reply.num_netints > 1 THEN "BufSize" ELSE "Ok"
      /\ reply.res = "NotFound" => having = {}
      /\ shown = {} => reply.res = "NotFound"
      /\ DOMAIN reply = {"num_netints", "res", "netints"}
  <2>1. 1 \in Nat
    OBVIOUS
  <2> QED
    BY <2>1, OneQuery
<1>2. Net!InterfaceWithIp(ip)
        = [reply EXCEPT !.res = IF reply.res = "BufSize" THEN "Sys" ELSE reply.res]
  BY DEF Net!InterfaceWithIp
<1>3. Net!Doubtful(0, ip) = {} => shown = having
  BY DEF Shown
<1> HIDE DEF reply, having, shown
<1>4. Net!InterfaceWithIp(ip).res = IF reply.res = "BufSize" THEN "Sys" ELSE reply.res
  BY <1>1, <1>2
<1>5. /\ Net!Cardinality(having) = Cardinality(having)
      /\ Cardinality(having) \in Nat /\ Cardinality(shown) \in Nat
  BY <1>1, NetCount, FS_CardinalityType
<1> QED
  BY <1>1, <1>3, <1>4, <1>5 DEF having

LEMMA QueriesHold ==
  ASSUME NetHolds
  PROVE  Net!QueriesSeeOneEnumeration
<1> SUFFICES ASSUME ~(Net!Unallocated /\ seen.refused)
             PROVE  Net!QueriesSeeOneEnumeration
  BY DEF Net!QueriesSeeOneEnumeration
<1>1. ~Net!Unallocated
  BY DEF NetHolds, Net!NetintInv, Net!CacheIsCounted
<1>2. ASSUME NEW index \in Indexes, NEW ip \in {None} \cup Net!Ips, NEW room \in 0 .. MaxRoom
      PROVE  LET reply == Net!Interfaces(index, ip, room)
                 wanted == Net!Wanted(index, ip)
                 shown == wanted \cup Net!Doubtful(index, ip)
             IN /\ reply.num_netints \in Net!Cardinality(wanted) .. Net!Cardinality(shown)
                /\ reply.res = "NotFound" => wanted = {}
                /\ shown = {} => reply.res = "NotFound"
                /\ reply.res = "Ok" =>
                     /\ \A h \in wanted : \E n \in Net!Members(reply.netints) :
                          Net!Shows(n, seen.addrs[h])
                     /\ \A n \in Net!Members(reply.netints) : \E h \in shown :
                          Net!Shows(n, seen.addrs[h])
                     /\ Net!ByIndex(reply.netints)
  <2>1. room \in Nat
    BY DEF NetHolds, Net!NetintAssumption
  <2>2. Net!Wanted(index, ip) \cup Net!Doubtful(index, ip) = Shown(index, ip)
    BY DEF Shown
  <2> QED
    BY <1>1, <2>1, <2>2, OneQuery, NetCount
<1>3. ASSUME ~retried
      PROVE  \A n \in Net!Members(cache.netints) :
               n.addr = None \/ Net!Divided(n) \/
               (n.is_default <=>
                  Net!Default(n.addr[1]) # 0 /\ Net!Default(n.addr[1]) = n.index)
  BY <1>3 DEF NetHolds, Net!NetintInv, Net!DefaultsAgree, Net!MarkedAsDefault, Net!Default
<1> QED
  BY <1>1, <1>2, <1>3, OneWithIp DEF Net!QueriesSeeOneEnumeration

----
(* The best route.                                                         *)
\* What an entry of the table says of its route.
LEMMA EntryFacts ==
  ASSUME Net!NetintAssumption, NEW r \in Net!Routes
  PROVE  LET e == Net!TableEntry(r)
         IN /\ e.index = r.oif /\ e.rank = Net!Rank(r)
            /\ e.mask # None <=> r.len > 0
            /\ r.len > 0 => e.mask = r.len /\ e.addr = r.dst
            /\ Net!MaskLength(e.mask) = r.len
            /\ Net!IsDefault(e) <=> r.len = 0 /\ r.gateway
            /\ Net!Rank(r) \in Nat /\ r.len \in Nat /\ r.oif \in Nat
<1>1. /\ r.len \in 0 .. FullLength /\ r.gateway \in BOOLEAN /\ r.scoped \in BOOLEAN
      /\ r.metric \in Nat /\ r.oif \in Nat /\ (r.len = 0 => r.dst = 0)
  BY DEF Net!Routes
<1>2. FullLength \in Nat /\ None \notin Nat
  BY DEF Net!NetintAssumption
<1>3. Net!Rank(r) \in Nat
  BY <1>1 DEF Net!Rank
<1>4. CASE port = "linux"
  BY <1>1, <1>2, <1>3, <1>4 DEF Net!TableEntry, Net!LinuxEntry, Net!MaskLength, Net!IsDefault
<1>5. CASE port # "linux"
  BY <1>1, <1>2, <1>3, <1>5 DEF Net!TableEntry, Net!MacosEntry, Net!MaskLength, Net!IsDefault
<1> QED
  BY <1>4, <1>5

RoutesOf(sr) == {sr[h] : h \in Net!Kept(sr)}

\* The k-th entry is that of the route at p[k].
OrderedBy(sr, p, entries) ==
  /\ DOMAIN entries = DOMAIN p /\ DOMAIN p \subseteq Nat
  /\ \A k \in DOMAIN p : entries[k] = Net!TableEntry(sr[p[k]]) /\ sr[p[k]] \in RoutesOf(sr)
  /\ \A r \in RoutesOf(sr) : \E k \in DOMAIN p : r = sr[p[k]]
  /\ RoutesOf(sr) \subseteq Net!Routes
  /\ Net!InOrder(entries)

LEMMA SortedFacts ==
  ASSUME NEW sr \in Seq(Net!Routes), NEW entries \in Net!SortedRoutes(sr)
  PROVE  \E p : OrderedBy(sr, p, entries)
<1>1. /\ Net!Kept(sr) \subseteq DOMAIN sr
      /\ \A h \in DOMAIN sr : sr[h] \in Net!Routes
  BY DEF Net!Kept
<1>2. IsFiniteSet(Net!Kept(sr))
  BY <1>1, PlacesAreFinite
<1>3. /\ Net!InOrder(entries)
      /\ \E p \in Net!Arrangements(Net!Kept(sr)) :
           entries = [k \in DOMAIN p |-> Net!TableEntry(sr[p[k]])]
  BY DEF Net!SortedRoutes
<1>4. PICK p \in Net!Arrangements(Net!Kept(sr)) :
           entries = [k \in DOMAIN p |-> Net!TableEntry(sr[p[k]])]
  BY <1>3
<1>5. /\ Cardinality(Net!Kept(sr)) \in Nat
      /\ DOMAIN p = 1 .. Cardinality(Net!Kept(sr))
      /\ \A k \in DOMAIN p : p[k] \in Net!Kept(sr)
      /\ \A x \in Net!Kept(sr) : \E k \in DOMAIN p : p[k] = x
  BY <1>2, ArrangementFacts
<1>6. DOMAIN entries = DOMAIN p /\ \A k \in DOMAIN p : entries[k] = Net!TableEntry(sr[p[k]])
  BY <1>4
<1>7. DOMAIN p \subseteq Nat
  <2>1. PICK n \in Nat : n = Cardinality(Net!Kept(sr))
    BY <1>5
  <2>2. DOMAIN p = 1 .. n
    BY <1>5, <2>1
  <2> QED
    BY <2>2
<1> QED
  BY <1>1, <1>3, <1>5, <1>6, <1>7, SMTT(30) DEF OrderedBy, RoutesOf

\* The places of the routes in R
RoutesAt(sr, p, R) == {k \in DOMAIN p : sr[p[k]] \in R}

\* The first entry of some is that of a route that is as good as any of them.
LEMMA FirstIsBest ==
  ASSUME Net!NetintAssumption, NEW sr, NEW p, NEW entries, OrderedBy(sr, p, entries),
         NEW R, R \subseteq RoutesOf(sr), R # {},
         NEW found, found = RoutesAt(sr, p, R)
  PROVE  \E r \in R :
           /\ Net!FirstIndex(entries, found) = r.oif
           /\ \A q \in R : q.len < r.len \/ (q.len = r.len /\ Net!Rank(r) <= Net!Rank(q))
<1>1. found \in SUBSET Nat /\ found # {}
  BY DEF OrderedBy, RoutesAt
<1> DEFINE k == Net!Least(found)
<1>2. k \in found /\ \A j \in found : k <= j
  BY <1>1, LeastFacts
<1>3. Net!FirstIndex(entries, found) = entries[k].index
  BY <1>1 DEF Net!FirstIndex
<1> HIDE DEF k
<1> DEFINE r == sr[p[k]]
<1>4. r \in R /\ r \in Net!Routes /\ entries[k] = Net!TableEntry(r) /\ k \in DOMAIN entries
  BY <1>2 DEF OrderedBy, RoutesAt
<1>5. /\ entries[k].index = r.oif /\ entries[k].rank = Net!Rank(r)
      /\ Net!MaskLength(entries[k].mask) = r.len /\ Net!Rank(r) \in Nat /\ r.len \in Nat
  BY <1>4, EntryFacts
<1>6. ASSUME NEW q \in R
      PROVE  q.len < r.len \/ (q.len = r.len /\ Net!Rank(r) <= Net!Rank(q))
  <2>1. PICK j \in found : q = sr[p[j]]
    BY DEF OrderedBy, RoutesAt
  <2>2. q \in Net!Routes /\ entries[j] = Net!TableEntry(q) /\ j \in DOMAIN entries
    BY <2>1 DEF OrderedBy, RoutesAt
  <2>3. /\ entries[j].rank = Net!Rank(q)
        /\ Net!MaskLength(entries[j].mask) = q.len /\ Net!Rank(q) \in Nat /\ q.len \in Nat
    BY <2>2, EntryFacts
  <2>4. k <= j /\ k \in Nat /\ j \in Nat
    BY <1>1, <1>2
  <2>5. CASE k = j
    <3>1. q = r
      BY <2>1, <2>5
    <3> QED
      BY <1>5, <3>1
  <2>6. CASE k < j
    <3>1. ~Net!Before(entries[j], entries[k])
      BY <1>4, <2>2, <2>6 DEF OrderedBy, Net!InOrder
    <3>2. ~(q.len > r.len) /\ ~(q.len = r.len /\ Net!Rank(q) < Net!Rank(r))
      BY <1>5, <2>3, <3>1 DEF Net!Before
    <3> QED
      BY <1>5, <2>3, <3>2
  <2> QED
    BY <2>4, <2>5, <2>6
<1> QED
  BY <1>3, <1>4, <1>5, <1>6

\* A thread that answers has an initialised module.
LEMMA AnswersWhenInitialized ==
  ASSUME NetHolds, Net!At("answer")
  PROVE  initialized
BY DEF NetHolds, Net!NetintInv, Net!OneWorks, Net!At, Net!TypeOK

LEMMA RouteHolds ==
  ASSUME NetHolds
  PROVE  Net!RouteIsBest
<1> SUFFICES ASSUME Net!At("answer"), port \in Net!RoutingPorts,
                    seen.addrs # << >> \/ seen.refused,
                    NEW f \in Net!Families, NEW dest \in Net!Addresses
             PROVE  LET routes == RoutesOf(seen.routes[f])
                        ways == {r \in routes :
                                   r.oif > 0 /\ r.len > 0 /\ Net!SameNetwork(r.dst, dest, r.len)}
                        gateways == {r \in routes : r.len = 0 /\ r.gateway}
                        best == {r \in ways : \A q \in ways :
                                   q.len < r.len \/ (q.len = r.len /\ Net!Rank(r) <= Net!Rank(q))}
                        cheapest == {r \in gateways : \A q \in gateways :
                                       Net!Rank(r) <= Net!Rank(q)}
                    IN Net!ForDest(f, dest) \in
                         IF ways # {} THEN {r.oif : r \in best}
                         ELSE IF gateways # {} THEN {r.oif : r \in cheapest} ELSE {0}
  BY Zenon DEF Net!RouteIsBest, RoutesOf
<1> DEFINE sr == seen.routes[f]
           entries == table[f].entries
           routes == RoutesOf(sr)
           ways == {r \in routes : r.oif > 0 /\ r.len > 0 /\ Net!SameNetwork(r.dst, dest, r.len)}
           gateways == {r \in routes : r.len = 0 /\ r.gateway}
           usable == {k \in DOMAIN entries :
                        /\ entries[k].index > 0 /\ entries[k].mask # None
                        /\ Net!SameNetwork(entries[k].addr, dest, entries[k].mask)}
           defaults == {k \in DOMAIN entries : Net!IsDefault(entries[k])}
<1>1. Net!NetintAssumption
  BY DEF NetHolds
<1>2. /\ sr \in Seq(Net!Routes) /\ entries \in Net!SortedRoutes(sr)
      /\ table[f].default_route = Net!FirstIndex(entries, defaults)
  <2>1. sr \in Seq(Net!Routes)
    BY DEF NetHolds, Net!NetintInv, Net!TypeOK, Net!Readings
  <2>2. /\ entries \in Net!SortedRoutes(sr)
        /\ table[f].default_route = Net!DefaultRoute(entries)
    BY AnswersWhenInitialized DEF NetHolds, Net!NetintInv, Net!TablesAreOfOneSystem
  <2> QED
    BY <2>1, <2>2 DEF Net!DefaultRoute
<1>3. cache.num_netints # 0
  <2>1. cache.netints \in Seq(Net!Netints) /\ cache.num_netints \in Nat
    BY DEF NetHolds, Net!NetintInv, Net!TypeOK, Net!Caches
  <2>2. CASE seen.refused
    BY <2>1, <2>2 DEF NetHolds, Net!NetintInv, Net!CacheIsCounted, Net!Unallocated
  <2>3. CASE ~seen.refused
    <3>1. Net!Listed # {}
      BY <2>3 DEF NetHolds, Net!NetintInv, Net!CacheIsListed
    <3>2. PICK p \in Net!Arrangements(Net!Listed) : DOMAIN cache.netints = DOMAIN p
      BY DEF NetHolds, Net!NetintInv, Net!CacheIsListed
    <3>3. DOMAIN cache.netints # {}
      BY <3>1, <3>2, ListedIsFinite, ArrangementFacts
    <3>4. cache.num_netints = Len(cache.netints)
      BY <2>3 DEF NetHolds, Net!NetintInv, Net!CacheIsCounted
    <3> QED
      BY <2>1, <3>3, <3>4
  <2> QED
    BY <2>2, <2>3
<1>4. Net!ForDest(f, dest)
        = IF usable = {} THEN table[f].default_route ELSE Net!FirstIndex(entries, usable)
  BY <1>3 DEF Net!ForDest, Net!TableLookup
<1>5. PICK p : OrderedBy(sr, p, entries)
  BY <1>2, SortedFacts
<1> HIDE DEF sr, entries
<1>6. \A k \in DOMAIN p : sr[p[k]] \in routes /\ sr[p[k]] \in Net!Routes
                            /\ entries[k] = Net!TableEntry(sr[p[k]])
  BY <1>5 DEF OrderedBy
<1>7. usable = RoutesAt(sr, p, ways)
  <2> SUFFICES ASSUME NEW k \in DOMAIN p PROVE k \in usable <=> sr[p[k]] \in ways
    BY <1>5 DEF OrderedBy, RoutesAt
  <2>1. /\ entries[k].index = sr[p[k]].oif
        /\ entries[k].mask # None <=> sr[p[k]].len > 0
        /\ sr[p[k]].len > 0 => entries[k].mask = sr[p[k]].len /\ entries[k].addr = sr[p[k]].dst
    BY <1>1, <1>6, EntryFacts
  <2> QED
    BY <1>5, <1>6, <2>1 DEF OrderedBy
<1>8. defaults = RoutesAt(sr, p, gateways)
  <2> SUFFICES ASSUME NEW k \in DOMAIN p PROVE k \in defaults <=> sr[p[k]] \in gateways
    BY <1>5 DEF OrderedBy, RoutesAt
  <2>1. Net!IsDefault(entries[k]) <=> sr[p[k]].len = 0 /\ sr[p[k]].gateway
    BY <1>1, <1>6, EntryFacts
  <2> QED
    BY <1>5, <1>6, <2>1 DEF OrderedBy
<1>9. ways \subseteq routes /\ gateways \subseteq routes
  OBVIOUS
<1>10. CASE ways # {}
  <2>1. usable # {}
    BY <1>5, <1>7, <1>10 DEF OrderedBy, RoutesAt
  <2> HIDE DEF ways, usable
  <2>2. \E r \in ways :
          /\ Net!FirstIndex(entries, usable) = r.oif
          /\ \A q \in ways : q.len < r.len \/ (q.len = r.len /\ Net!Rank(r) <= Net!Rank(q))
    BY <1>1, <1>5, <1>7, <1>9, <1>10, FirstIsBest
  <2>3. Net!ForDest(f, dest) \in
          {r.oif : r \in {r \in ways : \A q \in ways :
                            q.len < r.len \/ (q.len = r.len /\ Net!Rank(r) <= Net!Rank(q))}}
    BY <1>4, <2>1, <2>2
  <2> QED
    BY <1>10, <2>3, Zenon DEF ways, sr
<1>11. CASE ways = {}
  <2>1. Net!ForDest(f, dest) = Net!FirstIndex(entries, defaults)
    <3>1. usable = {}
      BY <1>7, <1>11 DEF RoutesAt
    <3> QED
      BY <1>2, <1>4, <3>1 DEF entries
  <2>2. CASE gateways # {}
    <3>1. \A r \in gateways : r.len = 0
      OBVIOUS
    <3> HIDE DEF ways, usable, gateways, defaults
    <3>2. \E r \in gateways :
            /\ Net!FirstIndex(entries, defaults) = r.oif
            /\ \A q \in gateways : q.len < r.len \/ (q.len = r.len /\ Net!Rank(r) <= Net!Rank(q))
      BY <1>1, <1>5, <1>8, <1>9, <2>2, FirstIsBest
    <3>3. \E r \in gateways : /\ Net!FirstIndex(entries, defaults) = r.oif
                              /\ \A q \in gateways : Net!Rank(r) <= Net!Rank(q)
      BY <3>1, <3>2
    <3>4. Net!ForDest(f, dest) \in
            {r.oif : r \in {r \in gateways : \A q \in gateways : Net!Rank(r) <= Net!Rank(q)}}
      BY <2>1, <3>3
    <3> QED
      BY <1>11, <2>2, <3>4, Zenon DEF ways, gateways, sr
  <2>3. CASE gateways = {}
    <3>1. defaults = {}
      BY <1>8, <2>3 DEF RoutesAt
    <3>2. Net!ForDest(f, dest) = 0
      BY <2>1, <3>1 DEF Net!FirstIndex
    <3> QED
      BY <1>11, <2>3, <3>2, Zenon DEF ways, gateways, sr
  <2> QED
    BY <2>2, <2>3
<1> QED
  BY <1>10, <1>11

----
(* The steps.                                                              *)
\* Who works does so alone.
LEMMA AloneAtWork ==
  ASSUME NetHolds, NEW t \in Threads, Net!Works(t), NEW u \in Threads \ {t}
  PROVE  ~Net!Works(u)
<1> SUFFICES ASSUME Net!Works(u) PROVE FALSE
  OBVIOUS
<1>1. /\ mutex = t <=> Net!Works(t) /\ netint_call[t] # "init"
      /\ mutex = u <=> Net!Works(u) /\ netint_call[u] # "init"
      /\ netint_call[t] = "init" => netint_pc[u] = "idle"
      /\ netint_call[u] = "init" => netint_pc[t] = "idle"
  BY DEF NetHolds, Net!NetintInv, Net!OneWorks
<1> QED
  BY <1>1 DEF Net!Works

\* No places have one arrangement, the empty one.
LEMMA NoPlaces ==
  << >> \in Net!Arrangements({})
<1>1. Net!Cardinality({}) = 0
  BY NetCount, FS_EmptySet
<1>2. << >> \in [1 .. 0 -> {}]
  OBVIOUS
<1> QED
  BY <1>1, <1>2 DEF Net!Arrangements

LEMMA NoTables ==
  /\ << >> \in Net!SortedRoutes(<< >>)
  /\ Net!DefaultRoute(<< >>) = 0
  /\ Net!TableDefaults = [f \in Net!Families |-> table[f].default_route]
<1>1. Net!Kept(<< >>) = {}
  BY DEF Net!Kept
<1>2. << >> = [k \in DOMAIN << >> |-> Net!TableEntry(<< >>[<< >>[k]])]
  OBVIOUS
<1>3. Net!InOrder(<< >>)
  BY DEF Net!InOrder
<1>4. << >> \in Net!SortedRoutes(<< >>)
  BY <1>1, <1>2, <1>3, NoPlaces DEF Net!SortedRoutes
<1>5. Net!DefaultRoute(<< >>) = 0
  BY DEF Net!DefaultRoute, Net!FirstIndex
<1> QED
  BY <1>4, <1>5 DEF Net!TableDefaults

\* The default route of a table is the interface of a route.
LEMMA DefaultsAreIndexes ==
  ASSUME Net!NetintAssumption, NEW sr \in Seq(Net!Routes), NEW entries \in Net!SortedRoutes(sr)
  PROVE  Net!DefaultRoute(entries) \in Nat
<1> DEFINE found == {k \in DOMAIN entries : Net!IsDefault(entries[k])}
<1>1. PICK p : OrderedBy(sr, p, entries)
  BY SortedFacts
<1>2. Net!DefaultRoute(entries) = IF found = {} THEN 0 ELSE entries[Net!Least(found)].index
  BY DEF Net!DefaultRoute, Net!FirstIndex
<1>3. CASE found # {}
  <2>1. found \in SUBSET Nat /\ found \subseteq DOMAIN entries
    BY <1>1 DEF OrderedBy
  <2> HIDE DEF found
  <2>2. Net!Least(found) \in found
    BY <1>3, <2>1, LeastFacts
  <2>3. PICK k \in DOMAIN p : k = Net!Least(found)
    BY <1>1, <2>1, <2>2 DEF OrderedBy
  <2>4. entries[k] = Net!TableEntry(sr[p[k]]) /\ sr[p[k]] \in Net!Routes
    BY <1>1 DEF OrderedBy
  <2>5. entries[k].index \in Nat
    BY <2>4, EntryFacts
  <2> QED
    BY <1>2, <1>3, <2>3, <2>5
<1>4. CASE found = {}
  BY <1>2, <1>4
<1> QED
  BY <1>3, <1>4

\* An empty cache lists no addresses.
LEMMA NothingIsListed ==
  cache.netints = << >> /\ seen.addrs = << >> => Net!CacheIsListed
<1> SUFFICES ASSUME cache.netints = << >>, seen.addrs = << >> PROVE Net!CacheIsListed
  OBVIOUS
<1>1. Net!Listed = {}
  BY DEF Net!Listed
<1>2. \E p \in Net!Arrangements(Net!Listed) :
        /\ DOMAIN cache.netints = DOMAIN p
        /\ \A k \in DOMAIN p : Net!Shows(cache.netints[k], seen.addrs[p[k]])
  BY <1>1, NoPlaces
<1>3. Net!ByIndex(cache.netints)
  BY DEF Net!ByIndex
<1> QED
  BY <1>2, <1>3 DEF Net!CacheIsListed

\* A module that has nothing holds the invariant.
LEMMA NothingHolds ==
  cache = Net!NoCache /\ table = Net!NoTable /\ seen = Net!Nothing =>
    /\ cache \in Net!Caches /\ seen \in Net!Readings
    /\ \A f \in Net!Families : table[f].default_route \in Nat
    /\ Net!CacheIsListed /\ Net!CacheIsCounted /\ Net!DefaultsAgree /\ Net!NothingYet
    /\ Net!TablesAreOfOneSystem
<1> SUFFICES ASSUME cache = Net!NoCache, table = Net!NoTable, seen = Net!Nothing
             PROVE  /\ cache \in Net!Caches /\ seen \in Net!Readings
                    /\ \A f \in Net!Families : table[f].default_route \in Nat
                    /\ Net!CacheIsListed /\ Net!CacheIsCounted /\ Net!DefaultsAgree
                    /\ Net!NothingYet /\ Net!TablesAreOfOneSystem
  OBVIOUS
<1>1. /\ cache.netints = << >> /\ cache.num_netints = 0 /\ cache.def = Net!NoDefault
      /\ Net!NoDefault \in [Net!Families -> Nat]
      /\ seen.addrs = << >> /\ seen.routes = Net!Nothing.routes /\ ~seen.refused
      /\ \A f \in Net!Families : seen.routes[f] = << >>
  BY DEF Net!NoCache, Net!NoDefault, Net!Nothing
<1>2. \A f \in Net!Families : table[f].entries = << >> /\ table[f].default_route = 0
  BY DEF Net!NoTable
<1>3. cache \in Net!Caches
  BY <1>1 DEF Net!NoCache, Net!Caches
<1>4. seen \in Net!Readings
  BY DEF Net!Nothing, Net!Readings
<1>5. Net!CacheIsListed
  BY <1>1, NothingIsListed
<1>6. Net!MarkedAsDefault
  BY <1>1 DEF Net!MarkedAsDefault, Net!Members
<1>7. Net!CacheIsCounted
  BY <1>1 DEF Net!CacheIsCounted, Net!Unallocated
<1>8. cache.def = Net!TableDefaults
  BY <1>1, <1>2 DEF Net!TableDefaults, Net!NoDefault
<1>9. Net!TablesAreOfOneSystem
  BY <1>1, <1>2, NoTables DEF Net!TablesAreOfOneSystem
<1> QED
  BY <1>1, <1>2, <1>3, <1>4, <1>5, <1>6, <1>7, <1>8, <1>9
    DEF Net!DefaultsAgree, Net!NothingYet

NetPoints == {"idle", "lock", "clear", "build", "enumerate", "answer"}
NetCalls == {"none", "init", "refresh", "query"}

\* A thread moves, and what is said of the others stays true.
LEMMA OneMoves ==
  ASSUME NetHolds, NEW t \in Threads, NEW q \in NetPoints, NEW c \in NetCalls,
         netint_pc' = [netint_pc EXCEPT ![t] = q],
         netint_call' = [netint_call EXCEPT ![t] = c],
         port' = port,
         mutex' = t <=> q \notin {"idle", "lock"} /\ c # "init",
         q = "idle" <=> c = "none",
         q \in {"clear", "answer"} => c # "init",
         c = "init" => /\ q \in {"build", "enumerate"} /\ ~initialized'
                       /\ \A u \in Threads \ {t} : netint_pc[u] = "idle",
         c \in {"refresh", "query"} => initialized',
         q = "build" => port \in Net!RoutingPorts,
         \A u \in Threads \ {t} : /\ mutex' = u <=> mutex = u
                                  /\ netint_call[u] # "init",
         initialized => initialized'
  PROVE  /\ Net!OneWorks'
         /\ netint_pc' \in [Threads -> NetPoints] /\ netint_call' \in [Threads -> NetCalls]
<1>1. netint_pc \in [Threads -> NetPoints] /\ netint_call \in [Threads -> NetCalls]
  BY DEF NetHolds, Net!NetintInv, Net!TypeOK, NetPoints, NetCalls
<1>2. /\ netint_pc' \in [Threads -> NetPoints] /\ netint_call' \in [Threads -> NetCalls]
      /\ netint_pc'[t] = q /\ netint_call'[t] = c
      /\ \A u \in Threads \ {t} : netint_pc'[u] = netint_pc[u] /\ netint_call'[u] = netint_call[u]
  BY <1>1
<1>3. Net!OneWorks
  BY DEF NetHolds, Net!NetintInv
<1>4. ASSUME NEW u \in Threads
      PROVE  /\ mutex' = u <=> Net!Works(u)' /\ netint_call'[u] # "init"
             /\ netint_pc'[u] = "idle" <=> netint_call'[u] = "none"
             /\ netint_pc'[u] \in {"clear", "answer"} => netint_call'[u] # "init"
             /\ netint_call'[u] = "init" =>
                  /\ netint_pc'[u] \in {"build", "enumerate"} /\ ~initialized'
                  /\ \A v \in Threads \ {u} : netint_pc'[v] = "idle"
             /\ netint_call'[u] \in {"refresh", "query"} => initialized'
             /\ netint_pc'[u] = "build" => port' \in Net!RoutingPorts
  <2>1. CASE u = t
    BY <1>2, <2>1 DEF Net!Works
  <2>2. CASE u # t
    <3>1. /\ mutex = u <=> Net!Works(u) /\ netint_call[u] # "init"
          /\ netint_pc[u] = "idle" <=> netint_call[u] = "none"
          /\ netint_call[u] \in {"refresh", "query"} => initialized
          /\ netint_pc[u] = "build" => port \in Net!RoutingPorts
      BY <1>3 DEF Net!OneWorks
    <3> QED
      BY <1>2, <2>2, <3>1 DEF Net!Works
  <2> QED
    BY <2>1, <2>2
<1> QED
  BY <1>2, <1>4 DEF Net!OneWorks, Net!RoutingPorts

\* While a thread does something no other initialises.
LEMMA NobodyInits ==
  ASSUME NetHolds, NEW t \in Threads, netint_pc[t] # "idle" \/ initialized,
         NEW u \in Threads \ {t}
  PROVE  netint_call[u] # "init"
BY DEF NetHolds, Net!NetintInv, Net!OneWorks

\* Who works is the only one that builds or enumerates.
LEMMA WorkMoves ==
  ASSUME NetHolds, NEW t \in Threads, Net!Works(t), NEW q \in NetPoints,
         netint_pc' = [netint_pc EXCEPT ![t] = q]
  PROVE  /\ Net!At("build")' <=> q = "build"
         /\ Net!At("enumerate")' <=> q = "enumerate"
         /\ Net!At("build") <=> netint_pc[t] = "build"
         /\ Net!At("enumerate") <=> netint_pc[t] = "enumerate"
<1>1. netint_pc \in [Threads -> NetPoints]
  BY DEF NetHolds, Net!NetintInv, Net!TypeOK, NetPoints
<1>2. netint_pc'[t] = q /\ \A u \in Threads \ {t} : netint_pc'[u] = netint_pc[u]
  BY <1>1
<1>3. \A u \in Threads \ {t} : netint_pc[u] \notin {"build", "enumerate"}
  BY AloneAtWork DEF Net!Works
<1> QED
  BY <1>2, <1>3 DEF Net!At

LEMMA ListingStays ==
  ASSUME NetHolds, port' = port, cache'.netints = cache.netints,
         cache'.num_netints = cache.num_netints, seen'.addrs = seen.addrs,
         seen'.refused = seen.refused
  PROVE  /\ Net!CacheIsListed' /\ Net!CacheIsCounted'
         /\ cache'.def = cache.def => (Net!MarkedAsDefault' <=> Net!MarkedAsDefault)
<1>1. Net!CacheIsListed /\ Net!CacheIsCounted
  BY DEF NetHolds, Net!NetintInv
<1>2. Net!Listed' = Net!Listed
  BY DEF Net!Listed, Net!LwipPorts
<1>3. PICK p \in Net!Arrangements(Net!Listed) :
        /\ DOMAIN cache.netints = DOMAIN p
        /\ \A k \in DOMAIN p : Net!Shows(cache.netints[k], seen.addrs[p[k]])
  BY <1>1 DEF Net!CacheIsListed
<1>4. ASSUME NEW n, NEW h PROVE Net!Shows(n, seen.addrs[h])' <=> Net!Shows(n, seen.addrs[h])
  BY DEF Net!Shows, Net!Unaddressed, Net!LwipPorts
<1>5. /\ Net!ByIndex(cache.netints)'
      /\ port' \in Net!RoutingPorts /\ seen'.addrs # << >> => Net!Listed' # {}
  BY <1>1, <1>2 DEF Net!CacheIsListed, Net!ByIndex
<1>6. Net!CacheIsListed'
  <2>1. \A k \in DOMAIN p : Net!Shows(cache.netints[k], seen.addrs[p[k]])'
    BY <1>3 DEF Net!Shows, Net!Unaddressed, Net!LwipPorts
  <2> QED
    BY <1>2, <1>3, <1>5, <2>1 DEF Net!CacheIsListed
<1>7. Net!CacheIsCounted'
  BY <1>1 DEF Net!CacheIsCounted, Net!Unallocated, Net!RoutingPorts
<1>8. \A n : Net!Divided(n)' <=> Net!Divided(n)
  BY <1>2 DEF Net!Divided, Net!Shows, Net!Unaddressed, Net!LwipPorts
<1>9. cache'.def = cache.def => (Net!MarkedAsDefault' <=> Net!MarkedAsDefault)
  BY <1>8 DEF Net!MarkedAsDefault, Net!Members
<1> QED
  BY <1>6, <1>7, <1>9

LEMMA TablesStay ==
  ASSUME NetHolds, port' = port, table' = table, seen'.routes = seen.routes,
         port \in Net!RoutingPorts /\ (initialized' \/ Net!At("enumerate")') =>
           initialized \/ Net!At("enumerate")
  PROVE  Net!TablesAreOfOneSystem'
<1>1. Net!TablesAreOfOneSystem
  BY DEF NetHolds, Net!NetintInv
<1>2. ASSUME NEW s PROVE Net!SortedRoutes(s)' = Net!SortedRoutes(s)
  BY DEF Net!SortedRoutes, Net!TableEntry, Net!LinuxEntry, Net!MacosEntry, Net!Rank
<1> QED
  BY <1>1, <1>2, ZenonT(40) DEF Net!TablesAreOfOneSystem, Net!DefaultRoute, Net!FirstIndex, Net!IsDefault

LEMMA NetStarts ==
  ASSUME Net!NetintAssumption, Net!Init
  PROVE  Net!NetintInv
<1>1. /\ port \in Net!Ports /\ os \in Networks /\ initialized = FALSE /\ mutex = None
      /\ cache = Net!NoCache /\ table = Net!NoTable /\ seen = Net!Nothing /\ retried = FALSE
      /\ static_netints = [k \in 1 .. MaxNetints |-> Net!Unset]
      /\ netint_pc = [t \in Threads |-> "idle"] /\ netint_call = [t \in Threads |-> "none"]
  BY DEF Net!Init
<1>2. /\ cache \in Net!Caches /\ seen \in Net!Readings
      /\ \A f \in Net!Families : table[f].default_route \in Nat
      /\ Net!CacheIsListed /\ Net!CacheIsCounted /\ Net!DefaultsAgree /\ Net!NothingYet
      /\ Net!TablesAreOfOneSystem
  BY <1>1, NothingHolds
<1>3. Net!TypeOK
  BY <1>1, <1>2 DEF Net!TypeOK, Net!Unset, Net!Places
<1>4. Net!OneWorks
  BY <1>1 DEF Net!OneWorks, Net!Works, Net!NetintAssumption
<1> QED
  BY <1>2, <1>3, <1>4 DEF Net!NetintInv

\* When only the system changes nothing else does.
LEMMA SystemKeeps ==
  ASSUME NetHolds, Net!SystemChanges \/ UNCHANGED Net!vars
  PROVE  Net!NetintInv'
<1>1. /\ os' \in Networks
      /\ UNCHANGED <<port, initialized, mutex, cache, static_netints, table, netint_pc, netint_call, seen, retried>>
  BY DEF Net!SystemChanges, Net!vars, Net!system, NetHolds, Net!NetintInv, Net!TypeOK
<1>2. Net!TypeOK' /\ Net!OneWorks'
  BY <1>1 DEF NetHolds, Net!NetintInv, Net!TypeOK, Net!OneWorks, Net!Works
<1>3. \A x : Net!At(x)' <=> Net!At(x)
  BY <1>1 DEF Net!At
<1>4. /\ Net!CacheIsListed' /\ Net!CacheIsCounted' /\ Net!TablesAreOfOneSystem'
      /\ Net!MarkedAsDefault' <=> Net!MarkedAsDefault
  BY <1>1, <1>3, ListingStays, TablesStay
<1>5. Net!DefaultsAgree' /\ Net!NothingYet'
  BY <1>1, <1>3, <1>4 DEF NetHolds, Net!NetintInv, Net!DefaultsAgree, Net!NothingYet,
     Net!TableDefaults
<1> QED
  BY <1>2, <1>4, <1>5 DEF Net!NetintInv

LEMMA CallInitKeeps ==
  ASSUME NetHolds, NEW t \in Threads, Net!CallInit(t)
  PROVE  Net!NetintInv'
<1>1. /\ ~initialized /\ \A u \in Threads : netint_pc[u] = "idle"
      /\ netint_pc' = [netint_pc EXCEPT ![t] = Net!Populate]
      /\ netint_call' = [netint_call EXCEPT ![t] = "init"]
      /\ UNCHANGED <<port, os, initialized, mutex, cache, static_netints, table, seen, retried>>
  BY DEF Net!CallInit, Net!Goto, Net!system
<1>2. /\ Net!Populate \in {"build", "enumerate"}
      /\ Net!Populate = "build" <=> port \in Net!RoutingPorts
      /\ Net!Populate \in NetPoints /\ "init" \in NetCalls
  BY DEF Net!Populate, NetPoints, NetCalls
<1>3. \A u \in Threads : netint_call[u] # "init" /\ mutex # u
  BY <1>1 DEF NetHolds, Net!NetintInv, Net!OneWorks, Net!Works
<1>4. /\ Net!OneWorks' /\ netint_pc' \in [Threads -> NetPoints]
      /\ netint_call' \in [Threads -> NetCalls]
  BY <1>1, <1>2, <1>3, OneMoves
<1>5. Net!TypeOK'
  BY <1>1, <1>4 DEF NetHolds, Net!NetintInv, Net!TypeOK, NetPoints, NetCalls
<1>6. netint_pc'[t] = Net!Populate /\ \A u \in Threads \ {t} : netint_pc'[u] = "idle"
  BY <1>1 DEF NetHolds, Net!NetintInv, Net!TypeOK
<1>7. /\ ~Net!At("build") /\ ~Net!At("enumerate")
      /\ Net!At("enumerate")' => port \notin Net!RoutingPorts
  BY <1>1, <1>2, <1>6 DEF Net!At
<1>8. /\ Net!CacheIsListed' /\ Net!CacheIsCounted' /\ Net!TablesAreOfOneSystem'
      /\ Net!MarkedAsDefault' <=> Net!MarkedAsDefault
  BY <1>1, <1>7, ListingStays, TablesStay
<1>9. Net!DefaultsAgree' /\ Net!NothingYet'
  BY <1>1, <1>7, <1>8 DEF NetHolds, Net!NetintInv, Net!DefaultsAgree, Net!NothingYet,
     Net!TableDefaults
<1> QED
  BY <1>4, <1>5, <1>8, <1>9 DEF Net!NetintInv

LEMMA CallKeeps ==
  ASSUME NetHolds, NEW t \in Threads, Net!Call(t)
  PROVE  Net!NetintInv'
<1>1. PICK op \in {"refresh", "query"} : netint_call' = [netint_call EXCEPT ![t] = op]
  BY DEF Net!Call
<1>2. /\ initialized /\ netint_pc[t] = "idle"
      /\ netint_pc' = [netint_pc EXCEPT ![t] = "lock"]
      /\ UNCHANGED <<port, os, initialized, mutex, cache, static_netints, table, seen, retried>>
  BY DEF Net!Call, Net!Goto, Net!system
<1>3. "lock" \in NetPoints /\ op \in NetCalls
  BY DEF NetPoints, NetCalls
<1>4. mutex # t /\ \A u \in Threads \ {t} : netint_call[u] # "init"
  BY <1>2, NobodyInits DEF NetHolds, Net!NetintInv, Net!OneWorks, Net!Works
<1>5. /\ Net!OneWorks' /\ netint_pc' \in [Threads -> NetPoints]
      /\ netint_call' \in [Threads -> NetCalls]
  BY <1>1, <1>2, <1>3, <1>4, OneMoves
<1>6. Net!TypeOK'
  BY <1>2, <1>5 DEF NetHolds, Net!NetintInv, Net!TypeOK, NetPoints, NetCalls
<1>7. netint_pc'[t] = "lock" /\ \A u \in Threads \ {t} : netint_pc'[u] = netint_pc[u]
  BY <1>2 DEF NetHolds, Net!NetintInv, Net!TypeOK
<1>8. /\ Net!At("build")' <=> Net!At("build")
      /\ Net!At("enumerate")' <=> Net!At("enumerate")
  BY <1>2, <1>7 DEF Net!At
<1>9. /\ Net!CacheIsListed' /\ Net!CacheIsCounted' /\ Net!TablesAreOfOneSystem'
      /\ Net!MarkedAsDefault' <=> Net!MarkedAsDefault
  BY <1>2, <1>8, ListingStays, TablesStay
<1>10. Net!DefaultsAgree' /\ Net!NothingYet'
  BY <1>2, <1>8, <1>9 DEF NetHolds, Net!NetintInv, Net!DefaultsAgree, Net!NothingYet,
     Net!TableDefaults
<1> QED
  BY <1>5, <1>6, <1>9, <1>10 DEF Net!NetintInv

LEMMA LockKeeps ==
  ASSUME NetHolds, NEW t \in Threads, Net!Lock(t)
  PROVE  Net!NetintInv'
<1>1. PICK q \in {"clear", "answer"} : netint_pc' = [netint_pc EXCEPT ![t] = q]
  BY DEF Net!Lock, Net!Goto
<1>2. /\ netint_pc[t] = "lock" /\ mutex = None /\ mutex' = t
      /\ UNCHANGED <<port, os, initialized, cache, static_netints, table, netint_call, seen, retried>>
  BY DEF Net!Lock, Net!Goto, Net!system
<1>3. q \in NetPoints /\ netint_call \in [Threads -> NetCalls] /\ netint_call[t] \in NetCalls
  BY DEF NetPoints, NetCalls, NetHolds, Net!NetintInv, Net!TypeOK
<1>4. /\ netint_call[t] # "none" /\ netint_call[t] # "init"
      /\ netint_call[t] \in {"refresh", "query"} => initialized
      /\ netint_call' = [netint_call EXCEPT ![t] = netint_call[t]]
  BY <1>2, <1>3 DEF NetHolds, Net!NetintInv, Net!OneWorks
<1>5. \A u \in Threads \ {t} : /\ netint_call[u] # "init"
                               /\ mutex' = u <=> mutex = u
  BY <1>2, NobodyInits DEF NetHolds, Net!NetintAssumption
<1>6. /\ Net!OneWorks' /\ netint_pc' \in [Threads -> NetPoints]
      /\ netint_call' \in [Threads -> NetCalls]
  BY <1>1, <1>2, <1>3, <1>4, <1>5, OneMoves
<1>7. Net!TypeOK'
  BY <1>2, <1>6 DEF NetHolds, Net!NetintInv, Net!TypeOK, NetPoints, NetCalls
<1>8. netint_pc'[t] = q /\ \A u \in Threads \ {t} : netint_pc'[u] = netint_pc[u]
  BY <1>1 DEF NetHolds, Net!NetintInv, Net!TypeOK
<1>9. /\ Net!At("build")' <=> Net!At("build")
      /\ Net!At("enumerate")' <=> Net!At("enumerate")
  BY <1>2, <1>8 DEF Net!At
<1>10. /\ Net!CacheIsListed' /\ Net!CacheIsCounted' /\ Net!TablesAreOfOneSystem'
       /\ Net!MarkedAsDefault' <=> Net!MarkedAsDefault
  BY <1>2, <1>9, ListingStays, TablesStay
<1>11. Net!DefaultsAgree' /\ Net!NothingYet'
  BY <1>2, <1>9, <1>10 DEF NetHolds, Net!NetintInv, Net!DefaultsAgree, Net!NothingYet,
     Net!TableDefaults
<1> QED
  BY <1>6, <1>7, <1>10, <1>11 DEF Net!NetintInv

\* A thread past the mutex, or one that initialises, goes on or returns.
LEMMA WorkerMoves ==
  ASSUME NetHolds, NEW t \in Threads, Net!Works(t), NEW q \in NetPoints,
         netint_pc' = [netint_pc EXCEPT ![t] = q], port' = port,
         \/ /\ q \in {"build", "enumerate"}
            /\ UNCHANGED <<mutex, netint_call, initialized>>
            /\ q = "build" => port \in Net!RoutingPorts
         \/ /\ q = "idle" /\ mutex' = None
            /\ netint_call' = [netint_call EXCEPT ![t] = "none"]
            /\ initialized => initialized'
  PROVE  /\ Net!OneWorks'
         /\ netint_pc' \in [Threads -> NetPoints] /\ netint_call' \in [Threads -> NetCalls]
         /\ mutex' \in Threads \cup {None}
<1> DEFINE c == IF q = "idle" THEN "none" ELSE netint_call[t]
<1>1. netint_call \in [Threads -> NetCalls] /\ mutex \in Threads \cup {None} /\ None \notin Threads
  BY DEF NetCalls, NetHolds, Net!NetintInv, Net!TypeOK, Net!NetintAssumption
<1>2. c \in NetCalls /\ netint_call' = [netint_call EXCEPT ![t] = c]
  BY <1>1 DEF NetCalls
<1>3. /\ mutex = t <=> netint_call[t] # "init"
      /\ netint_call[t] # "none"
      /\ netint_call[t] = "init" => /\ ~initialized
                                    /\ \A u \in Threads \ {t} : netint_pc[u] = "idle"
      /\ netint_call[t] \in {"refresh", "query"} => initialized
  BY DEF NetHolds, Net!NetintInv, Net!OneWorks, Net!Works
<1>4. \A u \in Threads \ {t} : netint_call[u] # "init"
  BY NobodyInits DEF Net!Works
<1>5. \A u \in Threads \ {t} : mutex # u
  <2> SUFFICES ASSUME NEW u \in Threads \ {t}, mutex = u PROVE FALSE
    OBVIOUS
  <2>1. Net!Works(u)
    BY DEF NetHolds, Net!NetintInv, Net!OneWorks
  <2> QED
    BY <2>1, AloneAtWork
<1>6. /\ mutex' = t <=> q \notin {"idle", "lock"} /\ c # "init"
      /\ q = "idle" <=> c = "none"
      /\ q \in {"clear", "answer"} => c # "init"
      /\ c = "init" => /\ q \in {"build", "enumerate"} /\ ~initialized'
                       /\ \A u \in Threads \ {t} : netint_pc[u] = "idle"
      /\ c \in {"refresh", "query"} => initialized'
      /\ q = "build" => port \in Net!RoutingPorts
      /\ \A u \in Threads \ {t} : mutex' = u <=> mutex = u
      /\ initialized => initialized'
      /\ mutex' \in Threads \cup {None}
  BY <1>1, <1>3, <1>5
<1> HIDE DEF c
<1> QED
  BY <1>2, <1>4, <1>6, OneMoves

LEMMA ClearKeeps ==
  ASSUME NetHolds, NEW t \in Threads, Net!Clear(t)
  PROVE  Net!NetintInv'
<1>1. /\ netint_pc[t] = "clear" /\ netint_pc' = [netint_pc EXCEPT ![t] = Net!Populate]
      /\ cache' = Net!NoCache /\ table' = Net!NoTable /\ seen' = Net!Nothing
      /\ UNCHANGED <<port, os, initialized, mutex, static_netints, netint_call, retried>>
  BY DEF Net!Clear, Net!Goto, Net!system
<1>2. /\ Net!Populate \in {"build", "enumerate"} /\ Net!Populate \in NetPoints
      /\ Net!Populate = "build" => port \in Net!RoutingPorts
  BY DEF Net!Populate, NetPoints
<1>3. Net!Works(t)
  BY <1>1 DEF Net!Works
<1>4. /\ Net!OneWorks' /\ mutex' \in Threads \cup {None}
      /\ netint_pc' \in [Threads -> NetPoints] /\ netint_call' \in [Threads -> NetCalls]
  BY <1>1, <1>2, <1>3, WorkerMoves
<1>5. (/\ cache \in Net!Caches /\ seen \in Net!Readings
       /\ \A f \in Net!Families : table[f].default_route \in Nat
       /\ Net!CacheIsListed /\ Net!CacheIsCounted /\ Net!DefaultsAgree /\ Net!NothingYet
       /\ Net!TablesAreOfOneSystem)'
  <2>1. (cache = Net!NoCache /\ table = Net!NoTable /\ seen = Net!Nothing)'
    BY <1>1 DEF Net!NoCache, Net!NoTable, Net!Nothing, Net!NoDefault
  <2> QED
    BY <2>1, NothingHolds, PTL
<1>6. Net!TypeOK'
  BY <1>1, <1>4, <1>5 DEF NetHolds, Net!NetintInv, Net!TypeOK, NetPoints, NetCalls
<1> QED
  BY <1>4, <1>5, <1>6 DEF Net!NetintInv

LEMMA DeinitKeeps ==
  ASSUME NetHolds, Net!Deinit
  PROVE  Net!NetintInv'
<1>1. /\ \A u \in Threads : netint_pc[u] = "idle"
      /\ initialized' = FALSE
      /\ cache' = Net!NoCache /\ table' = Net!NoTable /\ seen' = Net!Nothing
      /\ UNCHANGED <<port, os, mutex, static_netints, netint_pc, netint_call, retried>>
  BY DEF Net!Deinit, Net!system
<1>2. (/\ cache \in Net!Caches /\ seen \in Net!Readings
       /\ \A f \in Net!Families : table[f].default_route \in Nat
       /\ Net!CacheIsListed /\ Net!CacheIsCounted /\ Net!DefaultsAgree /\ Net!NothingYet
       /\ Net!TablesAreOfOneSystem)'
  <2>1. (cache = Net!NoCache /\ table = Net!NoTable /\ seen = Net!Nothing)'
    BY <1>1 DEF Net!NoCache, Net!NoTable, Net!Nothing, Net!NoDefault
  <2> QED
    BY <2>1, NothingHolds, PTL
<1>3. Net!TypeOK'
  BY <1>1, <1>2 DEF NetHolds, Net!NetintInv, Net!TypeOK
<1>4. Net!OneWorks'
  BY <1>1 DEF NetHolds, Net!NetintInv, Net!OneWorks, Net!Works
<1> QED
  BY <1>2, <1>3, <1>4 DEF Net!NetintInv

LEMMA AnswerKeeps ==
  ASSUME NetHolds, NEW t \in Threads, Net!Answer(t)
  PROVE  Net!NetintInv'
<1>1. /\ netint_pc[t] = "answer" /\ netint_pc' = [netint_pc EXCEPT ![t] = "idle"]
      /\ mutex' = None /\ netint_call' = [netint_call EXCEPT ![t] = "none"]
      /\ UNCHANGED <<port, os, initialized, cache, static_netints, table, seen, retried>>
  BY DEF Net!Answer, Net!Goto, Net!Return, Net!system
<1>2. Net!Works(t) /\ "idle" \in NetPoints
  BY <1>1 DEF Net!Works, NetPoints
<1>3. /\ Net!OneWorks' /\ mutex' \in Threads \cup {None}
      /\ netint_pc' \in [Threads -> NetPoints] /\ netint_call' \in [Threads -> NetCalls]
  BY <1>1, <1>2, WorkerMoves
<1>4. Net!TypeOK'
  BY <1>1, <1>3 DEF NetHolds, Net!NetintInv, Net!TypeOK, NetPoints, NetCalls
<1>5. /\ ~Net!At("build") /\ ~Net!At("enumerate")
      /\ ~Net!At("build")' /\ ~Net!At("enumerate")'
  BY <1>1, <1>2, WorkMoves
<1>6. /\ Net!CacheIsListed' /\ Net!CacheIsCounted' /\ Net!TablesAreOfOneSystem'
      /\ Net!MarkedAsDefault' <=> Net!MarkedAsDefault
  BY <1>1, <1>5, ListingStays, TablesStay
<1>7. Net!DefaultsAgree' /\ Net!NothingYet'
  BY <1>1, <1>5, <1>6 DEF NetHolds, Net!NetintInv, Net!DefaultsAgree, Net!NothingYet,
     Net!TableDefaults
<1> QED
  BY <1>3, <1>4, <1>6, <1>7 DEF Net!NetintInv

\* What an enumeration finds is what the port lists; but after an initialisation that failed
\* it marks the defaults that it keeps.
LEMMA EnumerationFacts ==
  ASSUME NetHolds
  PROVE  /\ Net!Enumerated.found \subseteq DOMAIN os.addrs
         /\ \A h \in Net!Enumerated.found : os.addrs[h].family \in Net!Families
         /\ Net!Enumerated.def \in [Net!Families -> Nat]
         /\ ~retried => Net!Enumerated.marked = Net!Enumerated.def
         /\ port \in Net!RoutingPorts => Net!Enumerated.def = cache.def
         /\ seen'.addrs = os.addrs /\ port' = port => Net!Listed' = Net!Enumerated.found
         /\ port \in Net!LwipPorts => Net!Enumerated = Net!LwipEnumerate
<1>1. /\ os.addrs \in Seq(Net!Addrs) /\ os.default \in [Net!Families -> Nat]
      /\ port \in Net!Ports /\ cache.def \in [Net!Families -> Nat]
      /\ ~retried /\ port \in Net!RoutingPorts => cache.def = Net!TableDefaults
  BY DEF NetHolds, Net!NetintAssumption, Net!NetintInv, Net!TypeOK, Net!DefaultsAgree,
     Net!Caches
<1> DEFINE Lists(h) ==
             /\ os.addrs[h].family \in (IF port = "mqx" THEN {"v4"} ELSE Net!Families)
             /\ port = "macos" => os.addrs[h].up
             /\ port \in Net!LwipPorts =>
                  Net!Cardinality({j \in 1 .. h : os.addrs[j].family \in Net!Families}) <= MaxNetints
<1>2. seen'.addrs = os.addrs /\ port' = port =>
        Net!Listed' = {h \in DOMAIN os.addrs : Lists(h)}
  BY DEF Net!Listed, Net!LwipPorts
<1> SUFFICES /\ Net!Enumerated.found = {h \in DOMAIN os.addrs : Lists(h)}
             /\ Net!Enumerated.def \in [Net!Families -> Nat]
             /\ ~retried => Net!Enumerated.marked = Net!Enumerated.def
             /\ port \in Net!RoutingPorts => Net!Enumerated.def = cache.def
             /\ port \in Net!LwipPorts => Net!Enumerated = Net!LwipEnumerate
  BY <1>2 DEF Net!Families
<1>3. CASE port = "linux"
  BY <1>1, <1>3 DEF Net!Enumerated, Net!LinuxEnumerate, Net!InFamilies, Net!RoutingPorts,
     Net!LwipPorts
<1>4. CASE port = "macos"
  BY <1>1, <1>4 DEF Net!Enumerated, Net!MacosEnumerate, Net!InFamilies, Net!RoutingPorts,
     Net!LwipPorts
<1>5. CASE port = "windows"
  BY <1>1, <1>5 DEF Net!Enumerated, Net!WindowsEnumerate, Net!InFamilies, Net!RoutingPorts,
     Net!LwipPorts
<1>6. CASE port \in Net!LwipPorts
  <2>1. /\ Net!Enumerated = Net!LwipEnumerate /\ port \notin Net!RoutingPorts
        /\ port \notin {"macos", "mqx"}
    BY <1>6 DEF Net!Enumerated, Net!RoutingPorts, Net!LwipPorts
  <2>2. \A h \in DOMAIN os.addrs :
          Net!Place(h) = Net!Cardinality({j \in 1 .. h : os.addrs[j].family \in Net!Families})
    <3>1. \A h \in DOMAIN os.addrs :
            {j \in Net!InFamilies : j <= h} = {j \in 1 .. h : os.addrs[j].family \in Net!Families}
      BY <1>1 DEF Net!InFamilies
    <3> QED
      BY <3>1, Zenon DEF Net!Place
  <2>3. Net!LwipEnumerate.found = {h \in DOMAIN os.addrs : Lists(h)}
    BY <1>6, <2>1, <2>2 DEF Net!LwipEnumerate, Net!InFamilies
  <2>4. Net!LwipEnumerate.marked = Net!LwipEnumerate.def
    BY DEF Net!LwipEnumerate
  <2>5. Net!LwipEnumerate.def \in [Net!Families -> Nat]
    BY <1>1 DEF Net!LwipEnumerate, Net!Families
  <2> QED
    BY <2>1, <2>3, <2>4, <2>5
<1>7. CASE port = "mqx"
  <2>1. /\ Net!Enumerated = Net!MqxEnumerate
        /\ port \notin Net!RoutingPorts /\ port \notin Net!LwipPorts
    BY <1>7 DEF Net!Enumerated, Net!RoutingPorts, Net!LwipPorts
  <2>2. Net!MqxEnumerate.found = {h \in DOMAIN os.addrs : Lists(h)}
    BY <1>7, <2>1 DEF Net!MqxEnumerate, Net!InFamilies, Net!Families
  <2>3. /\ Net!MqxEnumerate.marked = Net!MqxEnumerate.def
        /\ Net!MqxEnumerate.def \in [Net!Families -> Nat]
    BY <1>1 DEF Net!MqxEnumerate, Net!NoDefault, Net!Families
  <2> QED
    BY <2>1, <2>2, <2>3
<1> QED
  BY <1>1, <1>3, <1>4, <1>5, <1>6, <1>7 DEF Net!Ports, Net!RoutingPorts,
     Net!StaticPorts

\* On lwIP an address that is listed has a place in the array, and the default interface is
\* that of both families if its IPv4 address is listed.
LEMMA LwipFacts ==
  ASSUME NetHolds, port \in Net!LwipPorts, NEW h \in Net!Enumerated.found
  PROVE  /\ Net!Place(h) \in 1 .. MaxNetints
         /\ os.addrs[h].family = "v4" =>
              \A f, g \in Net!Families :
                Net!Enumerated.def[f] = os.addrs[h].index /\ os.addrs[h].index # 0 =>
                  Net!Enumerated.def[g] = os.addrs[h].index
<1>1. /\ os.addrs \in Seq(Net!Addrs) /\ os.default \in [Net!Families -> Nat] /\ MaxNetints \in Nat
  BY DEF NetHolds, Net!NetintAssumption, Net!NetintInv, Net!TypeOK
<1>2. /\ h \in Net!InFamilies /\ Net!Place(h) <= MaxNetints
      /\ h \in DOMAIN os.addrs
  BY EnumerationFacts DEF Net!LwipEnumerate, Net!InFamilies
<1>3. Net!Place(h) \in Nat /\ Net!Place(h) # 0
  <2> DEFINE before == {j \in Net!InFamilies : j <= h}
  <2>1. h \in before
    BY <1>1, <1>2
  <2>2. before \subseteq DOMAIN os.addrs
    BY DEF Net!InFamilies
  <2>3. Net!Place(h) = Cardinality(before)
    BY NetCount DEF Net!Place
  <2> HIDE DEF before
  <2>4. IsFiniteSet(before) /\ Cardinality(before) \in Nat
    BY <1>1, <2>2, PlacesAreFinite
  <2> QED
    BY <2>1, <2>3, <2>4, FS_EmptySet
<1>4. ASSUME os.addrs[h].family = "v4", NEW f \in Net!Families, NEW g \in Net!Families,
             Net!Enumerated.def[f] = os.addrs[h].index, os.addrs[h].index # 0
      PROVE  Net!Enumerated.def[g] = os.addrs[h].index
  <2> DEFINE reached == [v4 |-> MaxNetints + 1, v6 |-> MaxNetints]
             comes(x) == \E j \in Net!InFamilies :
                           /\ Net!Place(j) <= reached[x]
                           /\ os.addrs[j].family = "v4" /\ os.addrs[j].index = os.default["v4"]
  <2>1. \A x \in Net!Families :
          Net!Enumerated.def[x] = IF comes(x) THEN os.default["v4"] ELSE 0
    BY EnumerationFacts DEF Net!LwipEnumerate
  <2> HIDE DEF comes
  <2>2. os.addrs[h].index = os.default["v4"]
    BY <1>4, <2>1
  <2>3. Net!Place(h) <= reached[g]
    BY <1>1, <1>2, <1>3 DEF Net!Families
  <2>4. comes(g)
    BY <1>2, <1>4, <2>2, <2>3 DEF comes
  <2> QED
    BY <2>1, <2>2, <2>4
<1> QED
  BY <1>1, <1>2, <1>3, <1>4

\* What a failed enumeration leaves of the count
LEMMA FailureCounts ==
  ASSUME NetHolds, cache.netints = << >>, port' = port, port \notin Net!StaticPorts,
         Net!ListingFails \/ Net!NoneFound \/ Net!AllocationFails
  PROVE  /\ cache' \in Net!Caches /\ seen' \in Net!Readings
         /\ cache'.netints = cache.netints /\ cache'.def = cache.def
         /\ seen'.addrs = seen.addrs /\ seen'.routes = seen.routes
         /\ Net!CacheIsCounted'
<1>1. /\ cache \in Net!Caches /\ seen \in Net!Readings /\ Net!CacheIsCounted
  BY DEF NetHolds, Net!NetintInv, Net!TypeOK
<1>2. CASE Net!ListingFails
  BY <1>1, <1>2 DEF Net!ListingFails, Net!CacheIsCounted, Net!Unallocated, Net!RoutingPorts
<1>3. CASE Net!NoneFound
  <2>1. /\ cache' = [cache EXCEPT !.num_netints = 0]
        /\ seen' = [seen EXCEPT !.refused = FALSE]
    BY <1>3 DEF Net!NoneFound
  <2>2. /\ cache' \in Net!Caches /\ cache'.netints = << >> /\ cache'.def = cache.def
        /\ cache'.num_netints = 0
        /\ seen' \in Net!Readings /\ ~seen'.refused
        /\ seen'.addrs = seen.addrs /\ seen'.routes = seen.routes
    BY <1>1, <2>1 DEF Net!Caches, Net!Readings
  <2> QED
    BY <2>2 DEF Net!CacheIsCounted, Net!Unallocated
<1>4. CASE Net!AllocationFails
  <2>1. PICK c \in Nat : c = Net!Cardinality(Net!Enumerated.found) /\ c > 0
    <3>1. os.addrs \in Seq(Net!Addrs) /\ Net!Enumerated.found \subseteq DOMAIN os.addrs
      BY EnumerationFacts DEF NetHolds, Net!NetintAssumption, Net!NetintInv, Net!TypeOK
    <3>2. IsFiniteSet(Net!Enumerated.found) /\ Cardinality(Net!Enumerated.found) \in Nat
      BY <3>1, PlacesAreFinite
    <3>3. Net!Enumerated.found # {}
      BY <1>4 DEF Net!AllocationFails
    <3>4. Cardinality(Net!Enumerated.found) # 0
      BY <3>2, <3>3, FS_EmptySet
    <3> QED
      BY <3>2, <3>4, NetCount
  <2>2. /\ cache' = [cache EXCEPT !.num_netints = IF port = "windows" THEN 0 ELSE c]
        /\ seen' = [seen EXCEPT !.refused = TRUE]
    BY <1>4, <2>1 DEF Net!AllocationFails
  <2>3. /\ cache' \in Net!Caches /\ cache'.netints = << >> /\ cache'.def = cache.def
        /\ cache'.num_netints = IF port = "windows" THEN 0 ELSE c
        /\ seen' \in Net!Readings /\ seen'.refused
        /\ seen'.addrs = seen.addrs /\ seen'.routes = seen.routes
    BY <1>1, <2>1, <2>2 DEF Net!Caches, Net!Readings
  <2>4. port = "windows" <=> port \notin Net!RoutingPorts
    BY DEF NetHolds, Net!NetintInv, Net!TypeOK, Net!Ports, Net!RoutingPorts
  <2> QED
    BY <2>1, <2>3, <2>4 DEF Net!CacheIsCounted, Net!Unallocated, Net!RoutingPorts
<1> QED
  BY <1>2, <1>3, <1>4

LEMMA EnumerateFailsKeeps ==
  ASSUME NetHolds, NEW t \in Threads, Net!EnumerateFails(t)
  PROVE  Net!NetintInv'
<1>1. /\ netint_pc[t] = "enumerate" /\ netint_pc' = [netint_pc EXCEPT ![t] = "idle"]
      /\ mutex' = None /\ netint_call' = [netint_call EXCEPT ![t] = "none"]
      /\ retried' = (retried \/ netint_call[t] = "init")
      /\ UNCHANGED <<port, os, initialized, static_netints, table>>
      /\ port \notin Net!StaticPorts
      /\ Net!ListingFails \/ Net!NoneFound \/ Net!AllocationFails
  BY DEF Net!EnumerateFails, Net!Goto, Net!Return, Net!system
<1>2. Net!Works(t) /\ "idle" \in NetPoints
  BY <1>1 DEF Net!Works, NetPoints
<1>3. /\ Net!OneWorks' /\ mutex' \in Threads \cup {None}
      /\ netint_pc' \in [Threads -> NetPoints] /\ netint_call' \in [Threads -> NetCalls]
  BY <1>1, <1>2, WorkerMoves
<1>4. ~Net!At("build")' /\ ~Net!At("enumerate")' /\ Net!At("enumerate")
  BY <1>1, <1>2, WorkMoves
<1>5. cache.netints = << >> /\ seen.addrs = << >>
  BY <1>4 DEF NetHolds, Net!NetintInv, Net!NothingYet
<1>6. /\ cache' \in Net!Caches /\ seen' \in Net!Readings
      /\ cache'.netints = cache.netints /\ cache'.def = cache.def
      /\ seen'.addrs = seen.addrs /\ seen'.routes = seen.routes
      /\ Net!CacheIsCounted'
  BY <1>1, <1>5, FailureCounts
<1>7. Net!TypeOK'
  BY <1>1, <1>3, <1>6 DEF NetHolds, Net!NetintInv, Net!TypeOK, NetPoints, NetCalls
<1>8. Net!CacheIsListed'
  <2>1. (cache.netints = << >> /\ seen.addrs = << >>)'
    BY <1>5, <1>6
  <2> QED
    BY <2>1, NothingIsListed, PTL
<1>9. Net!TablesAreOfOneSystem'
  BY <1>1, <1>4, <1>6, TablesStay
<1>10. ~retried' => ~retried /\ initialized
  <2>1. /\ netint_call[t] \in NetCalls /\ netint_call[t] # "none"
        /\ netint_call[t] \in {"refresh", "query"} => initialized
    BY <1>1 DEF NetCalls, NetHolds, Net!NetintInv, Net!OneWorks, Net!TypeOK
  <2> QED
    BY <1>1, <2>1 DEF NetCalls
<1>11. Net!MarkedAsDefault'
  BY <1>5, <1>6 DEF Net!MarkedAsDefault, Net!Members
<1>12. Net!DefaultsAgree' /\ Net!NothingYet'
  BY <1>1, <1>4, <1>5, <1>6, <1>10, <1>11 DEF NetHolds, Net!NetintInv, Net!DefaultsAgree,
     Net!NothingYet, Net!TableDefaults
<1> QED
  BY <1>3, <1>6, <1>7, <1>8, <1>9, <1>12 DEF Net!NetintInv

LEMMA BuildFailsKeeps ==
  ASSUME NetHolds, NEW t \in Threads, Net!BuildFails(t)
  PROVE  Net!NetintInv'
<1>1. /\ netint_pc[t] = "build" /\ netint_pc' = [netint_pc EXCEPT ![t] = "idle"]
      /\ mutex' = None /\ netint_call' = [netint_call EXCEPT ![t] = "none"]
      /\ table' = Net!NoTable
      /\ retried' = (retried \/ netint_call[t] = "init")
      /\ UNCHANGED <<port, os, initialized, cache, static_netints, seen>>
  BY DEF Net!BuildFails, Net!Goto, Net!Return, Net!system
<1>2. Net!Works(t) /\ "idle" \in NetPoints
  BY <1>1 DEF Net!Works, NetPoints
<1>3. /\ Net!OneWorks' /\ mutex' \in Threads \cup {None}
      /\ netint_pc' \in [Threads -> NetPoints] /\ netint_call' \in [Threads -> NetCalls]
  BY <1>1, <1>2, WorkerMoves
<1>4. \A f \in Net!Families : table'[f].entries = << >> /\ table'[f].default_route = 0
  BY <1>1 DEF Net!NoTable
<1>5. Net!TypeOK'
  BY <1>1, <1>3, <1>4 DEF NetHolds, Net!NetintInv, Net!TypeOK, NetPoints, NetCalls
<1>6. ~Net!At("build")' /\ ~Net!At("enumerate")' /\ Net!At("build")
  BY <1>1, <1>2, WorkMoves
<1>7. /\ Net!CacheIsListed' /\ Net!CacheIsCounted'
      /\ Net!MarkedAsDefault' <=> Net!MarkedAsDefault
  BY <1>1, ListingStays
<1>8. Net!TablesAreOfOneSystem'
  <2>1. (/\ << >> \in Net!SortedRoutes(<< >>)
         /\ Net!DefaultRoute(<< >>) = 0)'
    BY NoTables, PTL
  <2>2. initialized => \A f \in Net!Families : seen'.routes[f] = << >>
    BY <1>1, <1>6 DEF NetHolds, Net!NetintInv, Net!NothingYet, Net!Nothing
  <2> QED
    BY <1>1, <1>4, <1>6, <2>1, <2>2 DEF Net!TablesAreOfOneSystem
<1>9. Net!TableDefaults' = Net!NoDefault
  BY <1>4 DEF Net!TableDefaults, Net!NoDefault
<1>10. ~retried' => ~retried /\ cache.def = Net!NoDefault /\ Net!MarkedAsDefault
  BY <1>1, <1>6 DEF NetHolds, Net!NetintInv, Net!TypeOK, Net!DefaultsAgree
<1>11. Net!DefaultsAgree' /\ Net!NothingYet'
  BY <1>1, <1>6, <1>7, <1>9, <1>10 DEF NetHolds, Net!NetintInv, Net!DefaultsAgree,
     Net!NothingYet
<1> QED
  BY <1>3, <1>5, <1>7, <1>8, <1>11 DEF Net!NetintInv

LEMMA BuildKeeps ==
  ASSUME NetHolds, NEW t \in Threads, Net!Build(t)
  PROVE  Net!NetintInv'
<1>1. /\ netint_pc[t] = "build" /\ netint_pc' = [netint_pc EXCEPT ![t] = "enumerate"]
      /\ UNCHANGED <<port, os, initialized, mutex, static_netints, netint_call, retried>>
      /\ seen' = [seen EXCEPT !.routes = os.routes]
  BY DEF Net!Build, Net!Goto, Net!system
<1>2. PICK entries :
        /\ \A f \in Net!Families : entries[f] \in Net!SortedRoutes(os.routes[f])
        /\ table' = [f \in Net!Families |->
                       [entries |-> entries[f], default_route |-> Net!DefaultRoute(entries[f])]]
        /\ cache' = [cache EXCEPT !.def = [f \in Net!Families |->
                       IF Net!DefaultRoute(entries[f]) # 0 THEN Net!DefaultRoute(entries[f])
                       ELSE cache.def[f]]]
  BY DEF Net!Build
<1>3. Net!Works(t) /\ "enumerate" \in NetPoints /\ port \in Net!RoutingPorts
  BY <1>1 DEF Net!Works, NetPoints, NetHolds, Net!NetintInv, Net!OneWorks
<1>4. /\ Net!OneWorks' /\ mutex' \in Threads \cup {None}
      /\ netint_pc' \in [Threads -> NetPoints] /\ netint_call' \in [Threads -> NetCalls]
  BY <1>1, <1>3, WorkerMoves
<1>5. /\ ~Net!At("build")' /\ Net!At("enumerate")' /\ Net!At("build")
  BY <1>1, <1>3, WorkMoves
<1>6. os.routes \in [Net!Families -> Seq(Net!Routes)]
  BY DEF NetHolds, Net!NetintAssumption, Net!NetintInv, Net!TypeOK
<1>7. \A f \in Net!Families : Net!DefaultRoute(entries[f]) \in Nat
  BY <1>2, <1>6, DefaultsAreIndexes DEF NetHolds
<1>8. /\ \A f \in Net!Families : /\ table'[f].entries = entries[f]
                                 /\ table'[f].default_route = Net!DefaultRoute(entries[f])
      /\ \A f \in Net!Families :
           cache'.def[f] = IF Net!DefaultRoute(entries[f]) # 0 THEN Net!DefaultRoute(entries[f])
                           ELSE cache.def[f]
      /\ cache' \in Net!Caches
      /\ cache'.netints = cache.netints /\ cache'.num_netints = cache.num_netints
  BY <1>2, <1>7 DEF NetHolds, Net!NetintInv, Net!TypeOK, Net!Caches
<1>9. /\ seen' \in Net!Readings
      /\ seen'.addrs = seen.addrs /\ seen'.routes = os.routes /\ seen'.refused = seen.refused
  BY <1>1, <1>6 DEF NetHolds, Net!NetintInv, Net!TypeOK, Net!Readings
<1>10. Net!TypeOK'
  BY <1>1, <1>4, <1>7, <1>8, <1>9 DEF NetHolds, Net!NetintInv, Net!TypeOK, NetPoints, NetCalls
<1>11. Net!CacheIsListed' /\ Net!CacheIsCounted'
  BY <1>1, <1>8, <1>9, ListingStays
<1>12. Net!TablesAreOfOneSystem'
  <2>1. ASSUME NEW s PROVE Net!SortedRoutes(s)' = Net!SortedRoutes(s)
    BY <1>1 DEF Net!SortedRoutes, Net!TableEntry, Net!LinuxEntry, Net!MacosEntry, Net!Rank
  <2> QED
    BY <1>2, <1>8, <1>9, <2>1 DEF Net!TablesAreOfOneSystem, Net!DefaultRoute, Net!FirstIndex,
       Net!IsDefault
<1>13. cache.netints = << >> /\ seen.addrs = << >>
  BY <1>5 DEF NetHolds, Net!NetintInv, Net!NothingYet
<1>14. ASSUME ~retried
       PROVE  cache'.def = Net!TableDefaults'
  <2>1. \A f \in Net!Families : cache.def[f] = 0
    BY <1>5, <1>14 DEF NetHolds, Net!NetintInv, Net!DefaultsAgree, Net!NoDefault
  <2>2. cache'.def = [f \in Net!Families |-> cache'.def[f]]
    BY <1>8 DEF Net!Caches
  <2>3. \A f \in Net!Families : cache'.def[f] = table'[f].default_route
    BY <1>8, <2>1
  <2> QED
    BY <2>2, <2>3 DEF Net!TableDefaults
<1>15. Net!DefaultsAgree' /\ Net!NothingYet'
  BY <1>1, <1>5, <1>8, <1>9, <1>13, <1>14 DEF Net!DefaultsAgree, Net!NothingYet,
     Net!MarkedAsDefault, Net!Members
<1> QED
  BY <1>4, <1>10, <1>11, <1>12, <1>15 DEF Net!NetintInv

LEMMA EntryFields ==
  ASSUME Net!NetintAssumption, NEW a \in Net!Addrs, a.family \in Net!Families,
         NEW old \in Net!Places, NEW marked
  PROVE  LET n == Net!Entry(a, old, marked)
         IN /\ n \in Net!Netints /\ Net!Shows(n, a)
            /\ n.is_default <=> Net!IsMarked(a, marked)
<1>1. /\ a.family \in Net!Families /\ a.index \in Nat /\ a.addr \in Net!Addresses
      /\ a.len \in 0 .. FullLength /\ FullLength \in 0 .. FullLength
      /\ old.addr \in Net!Ips \cup {None} /\ old.mask \in Net!Masks \cup {None}
  BY DEF Net!Addrs, Net!NetintAssumption, Net!Places
<1>2. Net!MaskOf(a, old) \in Net!Masks \cup {None}
  BY <1>1 DEF Net!MaskOf, Net!Masks, Net!Families
<1>3. Net!IsMarked(a, marked) \in BOOLEAN
  BY DEF Net!IsMarked
<1>4. <<a.family, a.addr>> \in Net!Ips
  BY <1>1 DEF Net!Ips
<1>5. Net!Entry(a, old, marked)
        = [index |-> a.index,
           addr |-> IF Net!Unaddressed(a) THEN old.addr ELSE <<a.family, a.addr>>,
           mask |-> Net!MaskOf(a, old), is_default |-> Net!IsMarked(a, marked)]
  BY DEF Net!Entry
<1> QED
  BY <1>1, <1>2, <1>3, <1>4, <1>5 DEF Net!Netints, Net!Shows

\* What lwIP's array has at a place before an address is copied there; elsewhere nothing.
LEMMA OldIsPlace ==
  ASSUME NetHolds, NEW h \in Net!Enumerated.found
  PROVE  Net!Old(h) \in Net!Places
<1>1. static_netints \in [1 .. MaxNetints -> Net!Places]
  BY DEF NetHolds, Net!NetintInv, Net!TypeOK
<1>2. CASE port \in Net!LwipPorts
  BY <1>1, <1>2, LwipFacts DEF Net!Old
<1>3. CASE port \notin Net!LwipPorts
  BY <1>3 DEF Net!Old, Net!Unset, Net!Places
<1> QED
  BY <1>2, <1>3

LEMMA EnumerateKeeps ==
  ASSUME NetHolds, NEW t \in Threads, Net!Enumerate(t)
  PROVE  Net!NetintInv'
<1>1. /\ netint_pc[t] = "enumerate" /\ netint_pc' = [netint_pc EXCEPT ![t] = "idle"]
      /\ mutex' = None /\ netint_call' = [netint_call EXCEPT ![t] = "none"]
      /\ seen' = [seen EXCEPT !.addrs = os.addrs, !.refused = FALSE]
      /\ initialized' = TRUE
      /\ UNCHANGED <<port, os, table, retried>>
      /\ Net!Enumerated.found # {} \/ port \in Net!LwipPorts
  BY DEF Net!Enumerate, Net!Goto, Net!Return, Net!system
<1>2. PICK netints \in Net!SortedNetints :
        /\ cache' = [netints |-> netints, num_netints |-> Len(netints),
                     def |-> Net!Enumerated.def]
        /\ static_netints' = Net!Left(netints)
  BY DEF Net!Enumerate
<1>3. PICK p \in Net!Arrangements(Net!Enumerated.found) :
        netints = [k \in DOMAIN p |->
                     Net!Entry(os.addrs[p[k]], Net!Old(p[k]), Net!Enumerated.marked)]
  BY <1>2 DEF Net!SortedNetints
<1>4. Net!ByIndex(netints)
  BY <1>2 DEF Net!SortedNetints
<1> DEFINE found == Net!Enumerated.found
           marked == Net!Enumerated.marked
           def == Net!Enumerated.def
<1>5. /\ found \subseteq DOMAIN os.addrs
      /\ \A h \in found : os.addrs[h].family \in Net!Families
      /\ def \in [Net!Families -> Nat]
      /\ ~retried => marked = def
      /\ port \in Net!RoutingPorts => def = cache.def
      /\ Net!Listed' = found
  <2>1. seen'.addrs = os.addrs /\ port' = port
    BY <1>1 DEF NetHolds, Net!NetintInv, Net!TypeOK, Net!Readings
  <2> QED
    BY <2>1, EnumerationFacts
<1>6. os.addrs \in Seq(Net!Addrs)
  BY DEF NetHolds, Net!NetintAssumption, Net!NetintInv, Net!TypeOK
<1> HIDE DEF found, marked, def
<1>7. IsFiniteSet(found)
  BY <1>5, <1>6, PlacesAreFinite
<1>8. /\ Cardinality(found) \in Nat /\ DOMAIN p = 1 .. Cardinality(found)
      /\ \A k \in DOMAIN p : p[k] \in found
  BY <1>3, <1>7, ArrangementFacts DEF found
<1>9. /\ DOMAIN netints = DOMAIN p
      /\ \A k \in DOMAIN p : netints[k] = Net!Entry(os.addrs[p[k]], Net!Old(p[k]), marked)
  BY <1>3 DEF marked
<1>10. ASSUME NEW k \in DOMAIN p
       PROVE  /\ os.addrs[p[k]] \in Net!Addrs
              /\ netints[k] \in Net!Netints /\ Net!Shows(netints[k], os.addrs[p[k]])
              /\ netints[k].is_default <=> Net!IsMarked(os.addrs[p[k]], marked)
  <2>1. os.addrs[p[k]] \in Net!Addrs /\ os.addrs[p[k]].family \in Net!Families
    BY <1>5, <1>6, <1>8
  <2>2. Net!Old(p[k]) \in Net!Places
    BY <1>8, OldIsPlace DEF found
  <2>3. /\ Net!NetintAssumption
        /\ netints[k] = Net!Entry(os.addrs[p[k]], Net!Old(p[k]), marked)
    BY <1>9 DEF NetHolds
  <2> QED
    BY <2>1, <2>2, <2>3, EntryFields
<1>11. netints \in Seq(Net!Netints)
  <2>1. PICK n \in Nat : n = Cardinality(found)
    BY <1>8
  <2>2. netints = [k \in 1 .. n |-> netints[k]] /\ \A k \in 1 .. n : netints[k] \in Net!Netints
    BY <1>3, <1>8, <1>9, <1>10, <2>1
  <2> QED
    BY <2>2
<1>12. /\ cache'.netints = netints /\ cache'.num_netints = Len(netints) /\ cache'.def = def
       /\ cache' \in Net!Caches
  BY <1>2, <1>5, <1>11 DEF def, Net!Caches
<1>13. /\ seen' \in Net!Readings /\ ~seen'.refused
       /\ seen'.addrs = os.addrs /\ seen'.routes = seen.routes
  BY <1>1, <1>6 DEF NetHolds, Net!NetintInv, Net!TypeOK, Net!Readings
<1>14. Net!Works(t) /\ "idle" \in NetPoints
  BY <1>1 DEF Net!Works, NetPoints
<1>15. /\ Net!OneWorks' /\ mutex' \in Threads \cup {None}
       /\ netint_pc' \in [Threads -> NetPoints] /\ netint_call' \in [Threads -> NetCalls]
  BY <1>1, <1>14, WorkerMoves
<1>16. /\ ~Net!At("build")' /\ ~Net!At("enumerate")' /\ Net!At("enumerate")
  BY <1>1, <1>14, WorkMoves
<1>17. Net!TypeOK'
  <2>1. static_netints' \in [1 .. MaxNetints -> Net!Places]
    <3>1. static_netints \in [1 .. MaxNetints -> Net!Places]
      BY DEF NetHolds, Net!NetintInv, Net!TypeOK
    <3>2. \A k \in DOMAIN netints :
            [addr |-> netints[k].addr, mask |-> netints[k].mask] \in Net!Places
      <4>1. \A k \in DOMAIN netints : netints[k] \in Net!Netints
        BY <1>11
      <4>2. \A n \in Net!Netints : [addr |-> n.addr, mask |-> n.mask] \in Net!Places
        BY DEF Net!Places, Net!Netints
      <4> QED
        BY <4>1, <4>2
    <3> QED
      BY <1>2, <3>1, <3>2 DEF Net!Left
  <2> QED
    BY <1>1, <1>12, <1>13, <1>15, <2>1 DEF NetHolds, Net!NetintInv, Net!TypeOK, NetPoints,
       NetCalls
<1>18. Net!CacheIsListed' /\ Net!CacheIsCounted'
  <2>1. p \in Net!Arrangements(found)
    BY <1>3 DEF found
  <2>2. /\ DOMAIN cache'.netints = DOMAIN p
        /\ \A k \in DOMAIN p : Net!Shows(cache.netints[k], seen.addrs[p[k]])'
    BY <1>1, <1>9, <1>10, <1>12, <1>13 DEF Net!Shows, Net!Unaddressed, Net!LwipPorts
  <2>3. Net!ByIndex(cache.netints)'
    BY <1>4, <1>12 DEF Net!ByIndex
  <2>4. port' \in Net!RoutingPorts => Net!Listed' # {}
    BY <1>1, <1>5 DEF found, Net!RoutingPorts, Net!LwipPorts
  <2>5. Net!CacheIsListed'
    BY <1>5, <2>1, <2>2, <2>3, <2>4 DEF Net!CacheIsListed
  <2>6. Net!CacheIsCounted'
    BY <1>11, <1>12, <1>13 DEF Net!CacheIsCounted, Net!Unallocated
  <2> QED
    BY <2>5, <2>6
<1>19. Net!TablesAreOfOneSystem'
  BY <1>1, <1>13, <1>16, TablesStay
<1>20. ASSUME ~retried PROVE Net!MarkedAsDefault'
  <2> SUFFICES ASSUME NEW k \in DOMAIN p, netints[k].addr # None, ~Net!Divided(netints[k])'
               PROVE  netints[k].is_default <=>
                        /\ def[netints[k].addr[1]] # 0
                        /\ def[netints[k].addr[1]] = netints[k].index
    BY <1>9, <1>12 DEF Net!MarkedAsDefault, Net!Members
  <2> DEFINE a == os.addrs[p[k]]
             n == netints[k]
  <2>1. /\ a \in Net!Addrs /\ a.family \in Net!Families /\ n \in Net!Netints
        /\ n.index = a.index /\ (Net!Unaddressed(a) \/ n.addr = <<a.family, a.addr>>)
        /\ n.is_default <=> Net!IsMarked(a, def)
    BY <1>5, <1>8, <1>10, <1>20 DEF Net!Shows
  <2>2. CASE Net!Unaddressed(a)
    <3>1. port \in Net!LwipPorts /\ a.family = "v4" /\ p[k] \in found /\ port # "windows"
      BY <1>8, <2>2 DEF Net!Unaddressed, Net!LwipPorts
    <3>2. \A f, g \in Net!Families : def[f] = a.index /\ a.index # 0 => def[g] = a.index
      BY <3>1, LwipFacts DEF def, found
    <3>3. n.addr[1] \in Net!Families
      BY <2>1 DEF Net!Netints, Net!Ips
    <3>4. n.is_default <=> def["v4"] # 0 /\ def["v4"] = a.index
      BY <2>1, <3>1 DEF Net!IsMarked
    <3>5. "v4" \in Net!Families
      BY DEF Net!Families
    <3> HIDE DEF a, n
    <3> QED
      BY <2>1, <3>2, <3>3, <3>4, <3>5 DEF n
  <2>3. CASE ~Net!Unaddressed(a)
    <3>1. n.addr[1] = a.family
      BY <2>1, <2>3
    <3>2. port = "windows" => a.if_index = a.index
      <4> SUFFICES ASSUME port = "windows", a.if_index # a.index PROVE FALSE
        OBVIOUS
      <4>1. Net!Shows(n, seen.addrs[p[k]])' /\ seen'.addrs[p[k]] = a /\ p[k] \in Net!Listed'
        BY <1>1, <1>5, <1>8, <1>13, <2>1 DEF Net!Shows, Net!Unaddressed, Net!LwipPorts
      <4> QED
        BY <1>1, <4>1 DEF Net!Divided
    <3>3. n.is_default <=> def[a.family] # 0 /\ def[a.family] = a.index
      BY <2>1, <3>2 DEF Net!IsMarked
    <3> QED
      BY <2>1, <3>1, <3>3
  <2> QED
    BY <2>2, <2>3
<1>21. ASSUME ~retried, port \in Net!RoutingPorts PROVE cache'.def = Net!TableDefaults'
  BY <1>1, <1>5, <1>12, <1>21 DEF NetHolds, Net!NetintInv, Net!DefaultsAgree, Net!TableDefaults
<1>22. Net!DefaultsAgree' /\ Net!NothingYet'
  BY <1>1, <1>16, <1>20, <1>21 DEF Net!DefaultsAgree, Net!NothingYet
<1> QED
  BY <1>15, <1>17, <1>18, <1>19, <1>22 DEF Net!NetintInv

LEMMA NetSteps ==
  ASSUME Net!NetintAssumption, Net!NetintInv, [Net!Next]_Net!vars
  PROVE  Net!NetintInv'
<1>1. NetHolds
  BY DEF NetHolds
<1>2. CASE Net!SystemChanges \/ UNCHANGED Net!vars
  BY <1>1, <1>2, SystemKeeps
<1>3. CASE Net!Deinit
  BY <1>1, <1>3, DeinitKeeps
<1>4. ASSUME NEW t \in Threads,
             \/ Net!CallInit(t) \/ Net!Call(t) \/ Net!Lock(t) \/ Net!Clear(t) \/ Net!Build(t)
             \/ Net!BuildFails(t) \/ Net!Enumerate(t) \/ Net!EnumerateFails(t) \/ Net!Answer(t)
      PROVE  Net!NetintInv'
  BY <1>1, <1>4, CallInitKeeps, CallKeeps, LockKeeps, ClearKeeps, BuildKeeps, BuildFailsKeeps,
     EnumerateKeeps, EnumerateFailsKeeps, AnswerKeeps
<1> QED
  BY <1>2, <1>3, <1>4 DEF Net!Next

\* Network interfaces: whatever the system shows and however it changes between the steps of
\* a refresh, what the cache has is of one enumeration and the tables of one reading of the
\* routes, and at most one thread is past the mutex (netint.c:78, netint.c:186).  The cache
\* counts what it has, but on Linux and macOS after memory for it was refused
\* (linux os_netint.c:168-185, macos os_netint.c:159-173).
THEOREM NetintInvariant ==
  ASSUME Net!NetintAssumption PROVE Net!Spec => []Net!NetintInv
BY NetStarts, NetSteps, PTL DEF Net!Spec

\* Network interfaces: every query answers from one whole enumeration, and the route to a
\* destination is the longest and cheapest, for any systems, threads and lengths of address.
\* Excepted by name are a cache that memory was refused for (linux os_netint.c:168-185, macos
\* os_netint.c:159-173), what lwIP shows of an interface without an address (lwip
\* os_netint.c:276-280), the mark of a Windows adapter with two indexes (windows
\* os_netint.c:281, 289), and the default that a failed initialisation leaves behind.
THEOREM AnswersAreAlwaysOfOneSystem ==
  ASSUME Net!NetintAssumption PROVE Net!Spec => []AnswersAreOfOneSystem
<1>1. Net!NetintInv => AnswersAreOfOneSystem
  BY QueriesHold, RouteHolds DEF NetHolds, AnswersAreOfOneSystem, Net!AnswersAreOfOneSystem
<1> QED
  BY <1>1, NetintInvariant, PTL
====
