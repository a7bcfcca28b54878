---------------------------- MODULE CryptoRegistry ----------------------------
(***************************************************************************)
(* The crypto driver registry (common/crypto, spec.md 4.1-4.3 and 5).     *)
(* Writers call Register(name, impl, options...) and Init(cfg, subCfg);   *)
(* readers, the transaction validation workers, call IsEnable(name, h).   *)
(* All share one RWMutex: a writer holds it exclusively, a reader only    *)
(* reads while no writer holds it.                                        *)
(*                                                                         *)
(* Register validates its options before locking, then, holding the lock, *)
(* reads the current record (the checks of 4.2 steps 2-3) and writes the  *)
(* new one (steps 2-4); a failed check panics and the deferred Unlock     *)
(* releases the lock with the registry untouched.  Init, holding the      *)
(* lock, rebuilds the activation table in the three passes of 4.3 and     *)
(* then calls the initializers with their configuration blobs.            *)
(*                                                                         *)
(* The implementation of common/crypto is not among the sources of this   *)
(* repository; everything here is modelled from spec.md and from          *)
(* common/crypto/crypto_test.go.                                          *)
(***************************************************************************)
EXTENDS Integers, TypeIDAllocator

CONSTANTS
  Names,       \* algorithm names
  Impls,       \* implementations (software, cgo, ...) as model values
  Builtin,     \* built-in name -> the manual id it registers with at startup
  BootImpl,    \* implementation the built-ins register at startup
  DefaultOn,   \* built-ins Init enables at height 0 by default
  MaxHeight,   \* largest block height configured or queried
  Requests,    \* registrations writers may attempt
  Configs,     \* Init configurations writers may pass
  Writers,     \* goroutines registering drivers or calling Init
  Readers,     \* validation goroutines calling IsEnable
  MaxOps,      \* bound on the number of Register and Init calls
  TypeIDs,     \* every id a record may hold
  NoDriver, NoOne, NoOp, Never, NoBlob, NoRead

VARIABLES
  drivers,     \* name -> driver record or NoDriver
  table,       \* activation table: name -> enable height or Never
  observed,    \* name -> last blob its config initializer was called with
  result,      \* reader -> its last IsEnable question and answer
  holder,      \* writer holding the RWMutex exclusively, or NoOne
  wpc,         \* writer -> where it is in its current call
  wop,         \* writer -> the call it is making
  snapshot,    \* history: the table as it was when the running Init began
  opsLeft      \* calls writers may still start

vars == <<drivers, table, observed, result, holder, wpc, wop, snapshot, opsLeft>>

Heights == 0..MaxHeight

Registered(n) == drivers[n] # NoDriver

Driver(impl, id, cgo, initFn) ==
  [impl |-> impl, typeID |-> id, cgo |-> cgo, initFn |-> initFn]

\* The built-ins register themselves from their packages' init functions,
\* with their manual ids, before main runs.
BootDrivers ==
  [n \in Names |->
     IF n \in DOMAIN Builtin THEN Driver(BootImpl, Builtin[n], FALSE, FALSE)
                             ELSE NoDriver]

IdTaken(id) == \E m \in Names : Registered(m) /\ drivers[m].typeID = id

(***************************************************************************)
(* Register                                                                *)
(***************************************************************************)

\* The option functions: WithOptionTypeID refuses an id outside
\* [1, MaxManualTypeID] and WithOptionInitFunc refuses a nil function.
OptionsValid(req) ==
  /\ IF req.typeID = NoTypeID THEN TRUE ELSE ValidManualTypeID(req.typeID)
  /\ req.init # "nil"

\* The checks of register on the record currently held for the name.
RegisterOutcome(req) ==
  LET id  == ResolveTypeID(req.name, req.typeID)
      cur == drivers[req.name]
  IN  CASE cur = NoDriver /\ IdTaken(id)          -> "DuplicateTypeID"
        [] cur # NoDriver /\ cur.typeID # id      -> "TypeIDMismatch"
        [] cur # NoDriver /\ ~cur.cgo /\ ~req.cgo -> "UnauthorizedOverride"
        [] OTHER                                  -> "ok"

\* Mutation: the record keeps the id as given, forgetting derive(name)
\* when no WithOptionTypeID was passed.
RegisterRecordUnresolved(req) ==
  LET cur == drivers[req.name]
  IN  IF cur = NoDriver
        THEN Driver(req.impl, req.typeID, req.cgo, req.init = "fn")
        ELSE Driver(req.impl, cur.typeID, cur.cgo \/ req.cgo,
                    cur.initFn \/ req.init = "fn")

\* The record a successful register leaves: a new one (override-unlocked
\* only if authorized), or the old one with the implementation replaced,
\* the unlock made sticky and the initializer replaced if one is given.
RegisterRecord(req) ==
  LET cur == drivers[req.name]
  IN  IF cur = NoDriver
        THEN Driver(req.impl, ResolveTypeID(req.name, req.typeID),
                    req.cgo, req.init = "fn")
        ELSE Driver(req.impl, cur.typeID, cur.cgo \/ req.cgo,
                    cur.initFn \/ req.init = "fn")

StartRegister(w) ==
  /\ wpc[w] = "idle"
  /\ opsLeft > 0
  /\ \E req \in Requests :
       \/ /\ OptionsValid(req)
          /\ wpc' = [wpc EXCEPT ![w] = "lock"]
          /\ wop' = [wop EXCEPT ![w] = [kind |-> "register", req |-> req]]
       \/ /\ ~OptionsValid(req)      \* an option fails: panic before locking
          /\ UNCHANGED <<wpc, wop>>
  /\ opsLeft' = opsLeft - 1
  /\ UNCHANGED <<drivers, table, observed, result, holder, snapshot>>

\* Mutation: Register and Init run without taking the mutex.
AcquireIgnoringLock(w) ==
  /\ wpc[w] = "lock"
  /\ holder' = w
  /\ wpc' = [wpc EXCEPT ![w] = IF wop[w].kind = "register" THEN "check" ELSE "reset"]
  /\ UNCHANGED <<drivers, table, observed, result, wop, snapshot, opsLeft>>

\* driverMutex.Lock(): the next step is register's check or Init's reset.
Acquire(w) ==
  /\ wpc[w] = "lock"
  /\ holder = NoOne
  /\ holder' = w
  /\ wpc' = [wpc EXCEPT ![w] = IF wop[w].kind = "register" THEN "check" ELSE "reset"]
  /\ UNCHANGED <<drivers, table, observed, result, wop, snapshot, opsLeft>>

CheckRegister(w) ==
  /\ wpc[w] = "check"
  /\ LET outcome == RegisterOutcome(wop[w].req) IN
       \/ /\ outcome = "ok"
          /\ wpc' = [wpc EXCEPT ![w] = "apply"]
          /\ UNCHANGED <<holder, wop>>
       \/ /\ outcome # "ok"          \* panic; the deferred Unlock runs
          /\ holder' = NoOne
          /\ wpc' = [wpc EXCEPT ![w] = "idle"]
          /\ wop' = [wop EXCEPT ![w] = NoOp]
  /\ UNCHANGED <<drivers, table, observed, result, snapshot, opsLeft>>

ApplyRegister(w) ==
  /\ wpc[w] = "apply"
  /\ drivers' = [drivers EXCEPT ![wop[w].req.name] = RegisterRecord(wop[w].req)]
  /\ holder' = NoOne
  /\ wpc' = [wpc EXCEPT ![w] = "idle"]
  /\ wop' = [wop EXCEPT ![w] = NoOp]
  /\ UNCHANGED <<table, observed, result, snapshot, opsLeft>>

(***************************************************************************)
(* Init(cfg, subCfg)                                                       *)
(***************************************************************************)

StartInit(w) ==
  /\ wpc[w] = "idle"
  /\ opsLeft > 0
  /\ \E cfg \in Configs :
       wop' = [wop EXCEPT ![w] = [kind |-> "init", cfg |-> cfg]]
  /\ wpc' = [wpc EXCEPT ![w] = "lock"]
  /\ opsLeft' = opsLeft - 1
  /\ UNCHANGED <<drivers, table, observed, result, holder, snapshot>>

\* Pass 1: the table is replaced by the default-on built-ins at height 0.
InitReset(w) ==
  /\ wpc[w] = "reset"
  /\ snapshot' = table
  /\ table' = [n \in Names |-> IF n \in DefaultOn THEN 0 ELSE Never]
  /\ wpc' = [wpc EXCEPT ![w] = "enabled"]
  /\ UNCHANGED <<drivers, observed, result, holder, wop, opsLeft>>

\* Pass 2: every name of EnableTypes is enabled at height 0.
InitEnabled(w) ==
  /\ wpc[w] = "enabled"
  /\ table' = [n \in Names |-> IF n \in wop[w].cfg.enabled THEN 0 ELSE table[n]]
  /\ wpc' = [wpc EXCEPT ![w] = "heights"]
  /\ UNCHANGED <<drivers, observed, result, holder, wop, snapshot, opsLeft>>

\* Pass 3: every name of EnableHeight gets its configured height.
InitHeights(w) ==
  /\ wpc[w] = "heights"
  /\ LET hs == wop[w].cfg.heights IN
       table' = [n \in Names |-> IF n \in DOMAIN hs THEN hs[n] ELSE table[n]]
  /\ wpc' = [wpc EXCEPT ![w] = "dispatch"]
  /\ UNCHANGED <<drivers, observed, result, holder, wop, snapshot, opsLeft>>

\* The initializer of each registered driver that has one is called with
\* the raw blob keyed by its name; then the lock is released.
InitDispatch(w) ==
  /\ wpc[w] = "dispatch"
  /\ LET sub == wop[w].cfg.sub IN
       observed' = [n \in Names |->
                      IF Registered(n) /\ drivers[n].initFn /\ n \in DOMAIN sub
                        THEN sub[n] ELSE observed[n]]
  /\ holder' = NoOne
  /\ wpc' = [wpc EXCEPT ![w] = "idle"]
  /\ wop' = [wop EXCEPT ![w] = NoOp]
  /\ UNCHANGED <<drivers, table, result, snapshot, opsLeft>>

(***************************************************************************)
(* IsEnable(name, height), under the read lock                            *)
(***************************************************************************)

EnabledIn(t, n, h) == t[n] # Never /\ h >= t[n]

\* Mutation: IsEnable reads the table without the read lock.
IsEnableWithoutLock(r) ==
  /\ \E n \in Names, h \in Heights :
       result' = [result EXCEPT ![r] =
                    [name |-> n, height |-> h, val |-> EnabledIn(table, n, h)]]
  /\ UNCHANGED <<drivers, table, observed, holder, wpc, wop, snapshot, opsLeft>>

IsEnable(r) ==
  /\ holder = NoOne
  /\ \E n \in Names, h \in Heights :
       result' = [result EXCEPT ![r] =
                    [name |-> n, height |-> h, val |-> EnabledIn(table, n, h)]]
  /\ UNCHANGED <<drivers, table, observed, holder, wpc, wop, snapshot, opsLeft>>

Init ==
  /\ drivers = BootDrivers
  /\ table = [n \in Names |-> Never]
  /\ observed = [n \in Names |-> NoBlob]
  /\ result = [r \in Readers |-> NoRead]
  /\ holder = NoOne
  /\ wpc = [w \in Writers |-> "idle"]
  /\ wop = [w \in Writers |-> NoOp]
  /\ snapshot = [n \in Names |-> Never]
  /\ opsLeft = MaxOps

Next ==
  \/ \E w \in Writers :
       \/ StartRegister(w) \/ Acquire(w) \/ CheckRegister(w) \/ ApplyRegister(w)
       \/ StartInit(w) \/ InitReset(w) \/ InitEnabled(w) \/ InitHeights(w)
       \/ InitDispatch(w)
  \/ \E r \in Readers : IsEnable(r)

Spec == Init /\ [][Next]_vars

(***************************************************************************)
(* Properties                                                              *)
(***************************************************************************)

PCs == {"idle", "lock", "check", "apply", "reset", "enabled", "heights", "dispatch"}

TypeOK ==
  /\ drivers \in [Names -> {NoDriver} \cup
                    [impl : Impls, typeID : TypeIDs, cgo : BOOLEAN, initFn : BOOLEAN]]
  /\ table \in [Names -> Heights \cup {Never}]
  /\ snapshot \in [Names -> Heights \cup {Never}]
  /\ holder \in Writers \cup {NoOne}
  /\ wpc \in [Writers -> PCs]
  /\ opsLeft \in 0..MaxOps

\* No two registered names ever share a type id, whatever the order in
\* which concurrent Register calls of built-ins, cgo overrides and
\* plugins (whose hash-derived ids may collide) reach the registry: the
\* duplicate check of register and the exclusive lock around check and
\* insert together guarantee it.
TypeIDUnique ==
  \A m, n \in Names :
    m # n /\ Registered(m) /\ Registered(n) => drivers[m].typeID # drivers[n].typeID

\* The table the registry has committed to: while an Init is rebuilding
\* the table, the one in force when it began.
InitRunning == \E w \in Writers : wpc[w] \in {"enabled", "heights", "dispatch"}

CommittedTable == IF InitRunning THEN snapshot ELSE table

Abs == INSTANCE CryptoRegistrySpec WITH table <- CommittedTable

\* The locked, multi-step Register, Init and IsEnable implement the atomic
\* registry of CryptoRegistrySpec: every registration respects id
\* uniqueness, id stability and the override rule; every completed Init
\* leaves exactly the table its configuration defines (not cumulative, the
\* EnableHeight pass last) and feeds each initializer its blob; and no
\* IsEnable ever answers from a half-rebuilt table.
RefinesSpec == Abs!Spec

=============================================================================
