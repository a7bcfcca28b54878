-------------------------- MODULE CryptoRegistrySpec --------------------------
(***************************************************************************)
(* What the crypto driver registry promises its callers (spec.md 3, 4.2,  *)
(* 4.3, 5), with every operation atomic:                                  *)
(*   - a registration changes at most one name's record, never removes a  *)
(*     record, never moves a name to another type id, never gives two     *)
(*     names one id, and replaces an implementation only when the name   *)
(*     ends up override-unlocked;                                          *)
(*   - Init replaces the activation table wholesale with the table its    *)
(*     configuration defines, and hands each driver with an initializer   *)
(*     the blob configured for it;                                         *)
(*   - IsEnable answers from the table in force.                          *)
(* CryptoRegistry, where Register and Init take several steps under one   *)
(* RWMutex, is checked to implement this module.                          *)
(***************************************************************************)
EXTENDS Integers, TypeIDAllocator

CONSTANTS
  Names, Impls, Readers, Configs, DefaultOn, MaxHeight, TypeIDs,
  Builtin,    \* built-in name -> the manual id it registers with at startup
  BootImpl,   \* the implementation the built-ins register at startup
  NoDriver, Never, NoBlob, NoRead

VARIABLES drivers, table, observed, result

avars == <<drivers, table, observed, result>>

Heights == 0..MaxHeight

Registered(n) == drivers[n] # NoDriver

DriverRecords ==
  [impl : Impls, typeID : TypeIDs, cgo : BOOLEAN, initFn : BOOLEAN]

INSTANCE CryptoActivation

\* A new record rec for name n is one a registration may leave behind.
Allowed(n, rec) ==
  /\ \A m \in Names \ {n} : Registered(m) => drivers[m].typeID # rec.typeID
  /\ ~Registered(n) =>
       rec.typeID \in {DeriveTypeID[n]} \cup {i \in TypeIDs : ValidManualTypeID(i)}
  /\ Registered(n) =>
       /\ rec.typeID = drivers[n].typeID
       /\ drivers[n].cgo => rec.cgo
       /\ drivers[n].initFn => rec.initFn
       /\ rec.impl # drivers[n].impl => rec.cgo

Register ==
  /\ \E n \in Names, rec \in DriverRecords :
       /\ Allowed(n, rec)
       /\ drivers' = [drivers EXCEPT ![n] = rec]
  /\ UNCHANGED <<table, observed, result>>

InitTable ==
  /\ \E cfg \in Configs :
       /\ table' = Activation(cfg)
       /\ observed' = [n \in Names |->
                         IF Registered(n) /\ drivers[n].initFn /\ n \in DOMAIN cfg.sub
                           THEN cfg.sub[n] ELSE observed[n]]
  /\ UNCHANGED <<drivers, result>>

IsEnable(r) ==
  /\ \E n \in Names, h \in Heights :
       result' = [result EXCEPT ![r] =
                    [name |-> n, height |-> h, val |-> EnabledIn(table, n, h)]]
  /\ UNCHANGED <<drivers, table, observed>>

BootDrivers ==
  [n \in Names |->
     IF n \in DOMAIN Builtin
       THEN [impl |-> BootImpl, typeID |-> Builtin[n], cgo |-> FALSE, initFn |-> FALSE]
       ELSE NoDriver]

SpecInit ==
  /\ drivers = BootDrivers
  /\ table = [n \in Names |-> Never]
  /\ observed = [n \in Names |-> NoBlob]
  /\ result = [r \in Readers |-> NoRead]

SpecNext == Register \/ InitTable \/ \E r \in Readers : IsEnable(r)

Spec == SpecInit /\ [][SpecNext]_avars

=============================================================================
