---- MODULE Lifecycle ----
(***************************************************************************)
(* etcpal_init and etcpal_deinit (etcpal/common.c): reference-counted      *)
(* modules that several libraries of one program turn on and off, each     *)
(* with its own feature mask, and that may fail to start.                  *)
(*                                                                         *)
(* Modules are their indices in etcpal_modules; the log module is first.   *)
(* A feature mask is the set of the modules it names.  The calls are       *)
(* serialised, as their documentation demands, and a library gives         *)
(* etcpal_deinit the mask it gave etcpal_init.  One step is one pass       *)
(* through a loop.                                                         *)
(***************************************************************************)
EXTENDS Naturals, FiniteSets

CONSTANTS Libraries,         \* users of EtcPal in the program
          MODULE_ARRAY_SIZE

ASSUME LifecycleAssumption ==
  /\ MODULE_ARRAY_SIZE \in Nat \ {0}
  /\ IsFiniteSet(Libraries)

Modules == 1..MODULE_ARRAY_SIZE
LogModule == 1

VARIABLES init_count,          \* of each module
          running,             \* modules between their init_fn and deinit_fn
          held,                \* the mask each library has initialised, or {}
          log_params,          \* TRUE when a handler for EtcPal's logs is set
          init_called,         \* etcpal_init_called
          call, caller, features, i, \* the call under way, and its locals
          modules_initialized

locals == <<caller, features>>
handler == <<log_params, init_called>>
vars == <<init_count, running, held, handler, call, locals, i, modules_initialized>>

Init ==
  /\ init_count = [m \in Modules |-> 0] /\ running = {}
  /\ held = [l \in Libraries |-> {}]
  /\ log_params = FALSE /\ init_called = FALSE
  /\ call = "none" /\ caller \in Libraries /\ features = {} /\ i = 1
  /\ modules_initialized = {}

Acquire(m) ==
  /\ init_count' = [init_count EXCEPT ![m] = @ + 1]
  /\ running' = running \union {m}

ReleaseEagerly(m) ==
  /\ init_count' = [init_count EXCEPT ![m] = @ - 1]
  /\ running' = running \ {m}

\* The last one out calls deinit_fn.
Release(m) ==
  /\ init_count' = [init_count EXCEPT ![m] = @ - 1]
  /\ running' = IF init_count[m] = 1 THEN running \ {m} ELSE running

----
\* etcpal_init_log_handler is refused after the first etcpal_init, even one
\* that failed, and when a handler is set.
InitLogHandler ==
  /\ call = "none" /\ ~init_called /\ ~log_params
  /\ log_params' = TRUE
  /\ UNCHANGED <<init_count, running, held, init_called, call, locals, i, modules_initialized>>

Begin(op, l, mask) ==
  /\ call = "none"
  /\ call' = op /\ caller' = l /\ features' = mask
  /\ modules_initialized' = {}
  /\ UNCHANGED <<init_count, running, held, log_params>>

AcceptAnyMask(l, mask) ==
  /\ held[l] = {}
  /\ Begin("init", l, mask)
  /\ i' = 1 /\ init_called' = TRUE

CallInit(l, mask) ==
  /\ held[l] = {}
  /\ log_params => init_count[LogModule] > 0 \/ LogModule \in mask
  /\ Begin("init", l, mask)
  /\ i' = 1 /\ init_called' = TRUE

\* kEtcPalErrInvalid: there is a handler, and nobody turns logging on.
InitIsInvalid(l, mask) ==
  /\ call = "none" /\ held[l] = {}
  /\ log_params /\ init_count[LogModule] = 0 /\ LogModule \notin mask
  /\ init_called' = TRUE
  /\ UNCHANGED <<init_count, running, held, log_params, call, locals, i, modules_initialized>>

InitLoop == call = "init" /\ i \in Modules

\* The modules the loop under way is about.
Chosen == IF call = "rollback" THEN modules_initialized ELSE features

\* Any of the three loops passes over the other modules.
SkipModule ==
  /\ call # "none" /\ i \in Modules
  /\ i \notin Chosen
  /\ i' = IF call = "init" THEN i + 1 ELSE i - 1
  /\ UNCHANGED <<init_count, running, held, handler, call, locals, modules_initialized>>

\* init_fn runs only for the first user of the module.
InitModule ==
  /\ InitLoop /\ i \in features
  /\ Acquire(i)
  /\ modules_initialized' = modules_initialized \union {i}
  /\ i' = i + 1
  /\ UNCHANGED <<held, handler, call, locals>>

InitModuleFails ==
  /\ InitLoop /\ i \in features /\ init_count[i] = 0
  /\ call' = "rollback" /\ i' = MODULE_ARRAY_SIZE
  /\ UNCHANGED <<init_count, running, held, handler, locals, modules_initialized>>

InitReturns ==
  /\ call = "init" /\ i = MODULE_ARRAY_SIZE + 1
  /\ call' = "none"
  /\ held' = [held EXCEPT ![caller] = features]
  /\ UNCHANGED <<init_count, running, handler, locals, i, modules_initialized>>

\* Takes back only what this call turned on.
RollBackStarted ==
  /\ call = "rollback" /\ i \in modules_initialized
  /\ IF init_count[i] = 1 THEN Release(i) ELSE UNCHANGED <<init_count, running>>
  /\ i' = i - 1
  /\ UNCHANGED <<held, handler, call, locals, modules_initialized>>

RollBackModule ==
  /\ call = "rollback" /\ i \in modules_initialized
  /\ Release(i)
  /\ i' = i - 1
  /\ UNCHANGED <<held, handler, call, locals, modules_initialized>>

InitFails ==
  /\ call = "rollback" /\ i = 0
  /\ call' = "none"
  /\ UNCHANGED <<init_count, running, held, handler, locals, i, modules_initialized>>

----
CallDeinit(l) ==
  /\ held[l] # {}
  /\ Begin("deinit", l, held[l])
  /\ i' = MODULE_ARRAY_SIZE
  /\ UNCHANGED init_called

DeinitModule ==
  /\ call = "deinit" /\ i \in features
  /\ IF init_count[i] > 0 THEN Release(i) ELSE UNCHANGED <<init_count, running>>
  /\ i' = i - 1
  /\ UNCHANGED <<held, handler, call, locals, modules_initialized>>

DeinitReturns ==
  /\ call = "deinit" /\ i = 0
  /\ call' = "none"
  /\ held' = [held EXCEPT ![caller] = {}]
  /\ UNCHANGED <<init_count, running, handler, locals, i, modules_initialized>>

Next ==
  \/ InitLogHandler
  \/ \E l \in Libraries, mask \in SUBSET Modules \ {{}} : CallInit(l, mask) \/ InitIsInvalid(l, mask)
  \/ SkipModule \/ InitModule \/ InitModuleFails \/ InitReturns \/ RollBackModule \/ InitFails
  \/ \E l \in Libraries : CallDeinit(l)
  \/ DeinitModule \/ DeinitReturns

Spec == Init /\ [][Next]_vars

----
\* Every variable has its type: no loop runs past an end of etcpal_modules.
TypeOK ==
  /\ init_count \in [Modules -> Nat] /\ running \subseteq Modules
  /\ held \in [Libraries -> SUBSET Modules]
  /\ log_params \in BOOLEAN /\ init_called \in BOOLEAN
  /\ call \in {"none", "init", "rollback", "deinit"}
  /\ caller \in Libraries /\ features \subseteq Modules
  /\ i \in 0..(MODULE_ARRAY_SIZE + 1)
  /\ (call = "init" => i # 0) /\ (call \in {"rollback", "deinit"} => i # MODULE_ARRAY_SIZE + 1)
  /\ modules_initialized \subseteq features

\* What library l has a claim to at this moment, in a call or between calls.
Claims(l) ==
  IF l # caller \/ call = "none" THEN held[l]
  ELSE IF call = "init" THEN modules_initialized
  ELSE {m \in Chosen : m <= i}

\* common.c:69-72 -- "Counters are tracked for each feature": a module's count is
\* the number of libraries with a claim to it, through every order of the calls
\* and through rollbacks that stop half-way down the modules.
CountsMatchClaims ==
  \A m \in Modules : init_count[m] = Cardinality({l \in Libraries : m \in Claims(l)})

\* A module runs as long as one library has a claim to it, whoever else gives it
\* up or fails to get it, and no longer.
RunsWhileClaimed == running = UNION {Claims(l) : l \in Libraries}

\* What the locals of a call say of its progress, and why logging is on when the
\* loop reaches the second module.
CallInv ==
  /\ call = "init" => modules_initialized = {m \in features : m < i}
  /\ call \in {"init", "rollback"} => held[caller] = {}
  /\ call = "deinit" => features = held[caller]

LoggingInv ==
  call = "init" /\ log_params =>
    \/ LogModule \in running
    \/ i = LogModule /\ LogModule \in features

LifecycleInv == TypeOK /\ CountsMatchClaims /\ RunsWhileClaimed /\ CallInv /\ LoggingInv

\* common.c:52 -- "Logging is first for best EtcPal log coverage": once there is
\* a handler, no init_fn of another module runs with logging off.
LoggingCoversInit ==
  [][\A m \in running' \ running : log_params /\ m # LogModule => LogModule \in running]_vars
====
